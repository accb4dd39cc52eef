---------------------------- MODULE BrepProofs ----------------------------
(***************************************************************************)
(* What the validator of BrepCheck ensures of every body: that only the    *)
(* last stage accepts, that the rim of an accepted open body closes, that  *)
(* shells are in one piece, that links are cycles, and that the Euler      *)
(* number of an accepted solid is even.                                    *)
(***************************************************************************)
EXTENDS BrepCheck, FiniteSetTheorems, WellFoundedInduction, TLAPS

(***************************************************************************)
(* The stages by name.                                                     *)
(***************************************************************************)
StageNames ==
  {"bound", "assemble", "incidence", "uses", "loops", "kinds", "owners",
   "embedding", "links", "connection", "coincidence", "crossings", "orientation"}

LEMMA StagesNamed == Range(Stages) = StageNames
<1>1. DOMAIN Stages = 1..13
  BY DEF Stages
<1>2. \A i \in 1..13 : Stages[i] \in StageNames
  BY DEF Stages, StageNames
<1>3. \A s \in StageNames : \E i \in 1..13 : Stages[i] = s
  <2>1. /\ Stages[1] = "bound"       /\ Stages[2] = "assemble"   /\ Stages[3] = "incidence"
        /\ Stages[4] = "uses"        /\ Stages[5] = "loops"      /\ Stages[6] = "kinds"
        /\ Stages[7] = "owners"      /\ Stages[8] = "embedding"  /\ Stages[9] = "links"
        /\ Stages[10] = "connection" /\ Stages[11] = "coincidence"
        /\ Stages[12] = "crossings"  /\ Stages[13] = "orientation"
    BY DEF Stages
  <2>2. QED
    BY <2>1 DEF StageNames
<1>4. QED
  BY <1>1, <1>2, <1>3 DEF Range

-----------------------------------------------------------------------------
(***************************************************************************)
(* Two finite sets with a one-to-one map of one onto the other are of one  *)
(* size.                                                                   *)
(***************************************************************************)
LEMMA SameSize ==
  ASSUME NEW S, NEW T, IsFiniteSet(S), NEW f \in [S -> T],
         \A p, q \in S : f[p] = f[q] => p = q,
         \A t \in T : \E p \in S : f[p] = t
  PROVE  IsFiniteSet(T) /\ Cardinality(T) = Cardinality(S)
<1>1. f \in Bijection(S, T)
  BY DEF Bijection, Injection, Surjection, IsInjective
<1>2. QED
  BY <1>1, FS_Bijection DEF ExistsBijection

(***************************************************************************)
(* A store has finitely many handles, and a live handle is one of them.    *)
(***************************************************************************)
LEMMA PlacesFinite ==
  ASSUME NEW R, NEW store \in Seq(R)
  PROVE  IsFiniteSet(DOMAIN store)
<1>1. DOMAIN store = 1..Len(store) /\ Len(store) \in Int
  OBVIOUS
<1>2. IsFiniteSet(1..Len(store))
  BY <1>1, FS_Interval
<1>3. QED
  BY <1>1, <1>2

LEMMA HandlesFinite ==
  ASSUME NEW R, NEW store \in Seq(R)
  PROVE  IsFiniteSet(Handles(store))
<1> DEFINE f == [i \in DOMAIN store |-> Handle(store, i)]
<1>1. f \in Surjection(DOMAIN store, Handles(store))
  BY DEF Surjection, Handles
<1>2. QED
  BY <1>1, PlacesFinite, FS_Surjection

LEMMA LiveHandles ==
  ASSUME NEW store, NEW h \in HandleShape
  PROVE  Live(store, h) <=> h \in Handles(store)
BY DEF Live, Handles, Handle, HandleShape

LEMMA CoedgeAt ==
  ASSUME NEW x, Shaped(x), Incident(x), NEW c \in Handles(x.ces)
  PROVE  /\ c \in HandleShape
         /\ Coedge(x, c).fwd \in BOOLEAN
         /\ Coedge(x, c).edge \in Handles(x.es)
<1>1. PICK i \in DOMAIN x.ces : c = Handle(x.ces, i)
  BY DEF Handles
<1> DEFINE R == [gen : Nat, edge : HandleShape, fwd : BOOLEAN]
<1>a. x.ces \in Seq(R)
  BY DEF Shaped
<1> HIDE DEF R
<1>2. i \in Nat /\ x.ces[i] \in R
  BY <1>1, <1>a
<1> USE DEF R
<1>3. Coedge(x, c) = x.ces[i] /\ c \in HandleShape
  BY <1>1, <1>2 DEF Coedge, At, Handle, HandleShape
<1>4. Live(x.es, x.ces[i].edge)
  BY <1>1 DEF Incident
<1>5. QED
  BY <1>2, <1>3, <1>4, LiveHandles

-----------------------------------------------------------------------------
(***************************************************************************)
(* Around a loop: the place before, its inverse, and what is found there.  *)
(***************************************************************************)
After(ces, j) == IF j = Len(ces) THEN 1 ELSE j + 1

LEMMA AroundLoop ==
  ASSUME NEW R, NEW ces \in Seq(R), NEW j \in DOMAIN ces
  PROVE  /\ Before(ces, j) \in DOMAIN ces
         /\ After(ces, j) \in DOMAIN ces
         /\ Before(ces, After(ces, j)) = j
         /\ \A k \in DOMAIN ces : Before(ces, j) = Before(ces, k) => j = k
BY DEF Before, After

LEMMA LoopAt ==
  ASSUME NEW x, Shaped(x), Incident(x), LoopsClosed(x), NEW l \in DOMAIN x.lps
  PROVE  LET ces == x.lps[l].ces IN
           /\ ces \in Seq(HandleShape)
           /\ IsInjective(ces)
           /\ Chained(x, ces)
           /\ \A j \in DOMAIN ces : ces[j] \in Handles(x.ces)
<1> DEFINE ces == x.lps[l].ces
<1> DEFINE R == [gen : Nat, ces : Seq(HandleShape), kind : {"outer", "inner"}]
<1>1. x.lps \in Seq(R)
  BY DEF Shaped
<1>2. ces \in Seq(HandleShape)
  <2> HIDE DEF R
  <2>1. x.lps[l] \in R
    BY <1>1
  <2>2. QED
    BY <2>1 DEF R
<1>3. IsInjective(ces) /\ Chained(x, ces)
  BY DEF LoopsClosed
<1>4. AllLive(x.ces, ces)
  BY DEF Incident
<1>5. ASSUME NEW j \in DOMAIN ces PROVE ces[j] \in Handles(x.ces)
  <2>1. ces[j] \in HandleShape
    <3> HIDE DEF ces
    <3>1. QED
      BY <1>2
  <2>2. Live(x.ces, ces[j])
    BY <1>4 DEF AllLive
  <2>3. QED
    BY <2>1, <2>2, LiveHandles
<1>6. QED
  BY <1>2, <1>3, <1>5

(***************************************************************************)
(* A covered coedge is at one place of one loop, and Prev is found there.  *)
(***************************************************************************)
LEMMA PrevAt ==
  ASSUME NEW x, Shaped(x), Incident(x), LoopsClosed(x), Covered(x),
         NEW l \in DOMAIN x.lps, NEW j \in DOMAIN x.lps[l].ces
  PROVE  LET ces == x.lps[l].ces IN
           /\ LoopsWith(x, ces[j]) = {l}
           /\ Prev(x, ces[j]) = ces[Before(ces, j)]
<1> DEFINE ces == x.lps[l].ces
           c == ces[j]
<1>1. c \in Handles(x.ces) /\ IsInjective(ces)
  BY LoopAt
<1>2. l \in LoopsWith(x, c)
  BY DEF LoopsWith, Range
<1>3. IsFiniteSet(LoopsWith(x, c))
  <2> DEFINE R == [gen : Nat, ces : Seq(HandleShape), kind : {"outer", "inner"}]
  <2>1. x.lps \in Seq(R)
    BY DEF Shaped
  <2> HIDE DEF R
  <2>2. IsFiniteSet(DOMAIN x.lps)
    BY <2>1, PlacesFinite
  <2>3. QED
    BY <2>2, FS_Subset DEF LoopsWith
<1>4. LoopsWith(x, c) = {l}
  BY <1>1, <1>2, <1>3, FS_Singleton DEF Covered
<1>5. \A k \in DOMAIN ces : ces[k] = c <=> k = j
  BY <1>1 DEF IsInjective
<1>6. Prev(x, c) = ces[Before(ces, CHOOSE k \in DOMAIN ces : ces[k] = c)]
  BY <1>4 DEF Prev
<1>7. (CHOOSE k \in DOMAIN ces : ces[k] = c) = j
  BY <1>5
<1>8. QED
  BY <1>4, <1>6, <1>7

LEMMA PlaceOf ==
  ASSUME NEW x, Covered(x), NEW c \in Handles(x.ces)
  PROVE  \E l \in DOMAIN x.lps : \E j \in DOMAIN x.lps[l].ces : x.lps[l].ces[j] = c
<1>1. Cardinality(LoopsWith(x, c)) = 1
  BY DEF Covered
<1>2. LoopsWith(x, c) # {}
  BY <1>1, FS_EmptySet
<1>3. QED
  BY <1>2 DEF LoopsWith, Range

(***************************************************************************)
(* Prev maps the coedges that leave a vertex one to one onto those that    *)
(* arrive there.                                                           *)
(***************************************************************************)
Starts(x, v) == {c \in Handles(x.ces) : Start(x, c) = v}
Ends(x, v)   == {c \in Handles(x.ces) : End(x, c) = v}

LEMMA CoedgesFinite ==
  ASSUME NEW x, Shaped(x)
  PROVE  IsFiniteSet(Handles(x.ces))
<1> DEFINE R == [gen : Nat, edge : HandleShape, fwd : BOOLEAN]
<1>1. x.ces \in Seq(R)
  BY DEF Shaped
<1> HIDE DEF R
<1>2. QED
  BY <1>1, HandlesFinite

LEMMA PrevBalances ==
  ASSUME NEW x, Shaped(x), Incident(x), LoopsClosed(x), Covered(x), NEW v
  PROVE  IsFiniteSet(Ends(x, v)) /\ Cardinality(Ends(x, v)) = Cardinality(Starts(x, v))
<1> DEFINE H == Handles(x.ces)
           ces(l) == x.lps[l].ces
<1>1. ASSUME NEW l \in DOMAIN x.lps, NEW j \in DOMAIN ces(l)
      PROVE  /\ LoopsWith(x, ces(l)[j]) = {l}
             /\ Prev(x, ces(l)[j]) = ces(l)[Before(ces(l), j)]
             /\ Before(ces(l), j) \in DOMAIN ces(l)
             /\ After(ces(l), j) \in DOMAIN ces(l)
             /\ Before(ces(l), After(ces(l), j)) = j
             /\ \A k \in DOMAIN ces(l) : Before(ces(l), j) = Before(ces(l), k) => j = k
  <2>1. ces(l) \in Seq(HandleShape)
    BY LoopAt
  <2>2. /\ Before(ces(l), j) \in DOMAIN ces(l)
        /\ After(ces(l), j) \in DOMAIN ces(l)
        /\ Before(ces(l), After(ces(l), j)) = j
        /\ \A k \in DOMAIN ces(l) : Before(ces(l), j) = Before(ces(l), k) => j = k
    <3> HIDE DEF ces
    <3>1. QED
      BY <2>1, AroundLoop
  <2>3. QED
    BY <2>2, PrevAt
<1>2. ASSUME NEW l \in DOMAIN x.lps
      PROVE  /\ \A j, k \in DOMAIN ces(l) : ces(l)[j] = ces(l)[k] => j = k
             /\ \A j \in DOMAIN ces(l) : ces(l)[j] \in H
             /\ \A j \in DOMAIN ces(l) : End(x, ces(l)[Before(ces(l), j)]) = Start(x, ces(l)[j])
  BY LoopAt DEF Chained, IsInjective
<1>3. \A c \in H : \E l \in DOMAIN x.lps : \E j \in DOMAIN ces(l) : ces(l)[j] = c
  BY PlaceOf
<1> HIDE DEF ces, H
<1>4. ASSUME NEW c \in Starts(x, v) PROVE Prev(x, c) \in Ends(x, v)
  <2>1. c \in H /\ Start(x, c) = v
    BY DEF Starts, H
  <2>2. PICK l \in DOMAIN x.lps : \E j \in DOMAIN ces(l) : ces(l)[j] = c
    BY <1>3, <2>1
  <2>3. PICK j \in DOMAIN ces(l) : ces(l)[j] = c
    BY <2>2
  <2>4. Prev(x, c) \in H /\ End(x, Prev(x, c)) = v
    BY <1>1, <1>2, <2>1, <2>3
  <2>5. QED
    BY <2>4 DEF Ends, H
<1>5. ASSUME NEW p \in Starts(x, v), NEW q \in Starts(x, v), Prev(x, p) = Prev(x, q)
      PROVE  p = q
  <2>1. p \in H /\ q \in H
    BY DEF Starts, H
  <2>2. PICK l \in DOMAIN x.lps : \E j \in DOMAIN ces(l) : ces(l)[j] = p
    BY <1>3, <2>1
  <2>3. PICK j \in DOMAIN ces(l) : ces(l)[j] = p
    BY <2>2
  <2>4. PICK m \in DOMAIN x.lps : \E k \in DOMAIN ces(m) : ces(m)[k] = q
    BY <1>3, <2>1
  <2>5. PICK k \in DOMAIN ces(m) : ces(m)[k] = q
    BY <2>4
  <2>6. ces(l)[Before(ces(l), j)] = ces(m)[Before(ces(m), k)]
    BY <1>1, <1>5, <2>3, <2>5
  <2>7. /\ LoopsWith(x, ces(l)[Before(ces(l), j)]) = {l}
        /\ LoopsWith(x, ces(m)[Before(ces(m), k)]) = {m}
    BY <1>1
  <2>8. l = m
    BY <2>6, <2>7
  <2>9. Before(ces(l), j) = Before(ces(l), k)
    BY <1>1, <1>2, <2>6, <2>8
  <2>10. QED
    BY <1>1, <2>3, <2>5, <2>8, <2>9
<1>6. ASSUME NEW t \in Ends(x, v) PROVE \E c \in Starts(x, v) : Prev(x, c) = t
  <2>1. t \in H /\ End(x, t) = v
    BY DEF Ends, H
  <2>2. PICK l \in DOMAIN x.lps : \E j \in DOMAIN ces(l) : ces(l)[j] = t
    BY <1>3, <2>1
  <2>3. PICK j \in DOMAIN ces(l) : ces(l)[j] = t
    BY <2>2
  <2>4. PICK k \in DOMAIN ces(l) : Before(ces(l), k) = j
    BY <1>1
  <2>5. ces(l)[k] \in H /\ Start(x, ces(l)[k]) = v /\ Prev(x, ces(l)[k]) = t
    BY <1>1, <1>2, <2>1, <2>3, <2>4
  <2>6. QED
    BY <2>5 DEF Starts, H
<1>7. IsFiniteSet(Starts(x, v))
  BY CoedgesFinite, FS_Subset DEF Starts
<1> DEFINE S == Starts(x, v)
           T == Ends(x, v)
           f == [c \in S |-> Prev(x, c)]
<1> HIDE DEF S, T
<1>8. f \in [S -> T] /\ (\A c \in S : f[c] = Prev(x, c))
  BY <1>4 DEF S, T
<1> HIDE DEF f
<1>9. /\ \A p, q \in S : f[p] = f[q] => p = q
      /\ \A t \in T : \E p \in S : f[p] = t
  BY <1>5, <1>6, <1>8 DEF S, T
<1>10. IsFiniteSet(T) /\ Cardinality(T) = Cardinality(S)
  BY <1>7, <1>8, <1>9, SameSize DEF S
<1>11. QED
  BY <1>10 DEF S, T

-----------------------------------------------------------------------------
(***************************************************************************)
(* Off the rim an edge has two uses, opposite ones: Twin exchanges them,   *)
(* and what leaves a vertex by the one arrives there by the other.         *)
(***************************************************************************)
LEMMA TwinOffRim ==
  ASSUME NEW x, Shaped(x), Incident(x), EdgesPaired(x, "open"),
         NEW c \in Handles(x.ces) \ Rim(x)
  PROVE  /\ Twin(x, c) \in Handles(x.ces) \ Rim(x)
         /\ Start(x, Twin(x, c)) = End(x, c) /\ End(x, Twin(x, c)) = Start(x, c)
         /\ Twin(x, Twin(x, c)) = c
         /\ Uses(x, Coedge(x, c).edge) = {c, Twin(x, c)}
         /\ Coedge(x, Twin(x, c)).edge = Coedge(x, c).edge
         /\ Coedge(x, Twin(x, c)).fwd = ~Coedge(x, c).fwd
<1> DEFINE e == Coedge(x, c).edge
           U == Uses(x, e)
<1>1. c \in U /\ e \in Handles(x.es)
  BY CoedgeAt DEF Uses
<1>2. Cardinality(U) = 2 /\ {Coedge(x, d).fwd : d \in U} = BOOLEAN
  BY <1>1 DEF EdgesPaired, TwiceOpposite, Rim
<1>3. \A d \in U : d \in Handles(x.ces) /\ Coedge(x, d).edge = e /\ Coedge(x, d).fwd \in BOOLEAN
  BY CoedgeAt DEF Uses
<1>4. IsFiniteSet(U)
  BY CoedgesFinite, FS_Subset DEF Uses
<1>5. PICK d \in U : Coedge(x, d).fwd = ~Coedge(x, c).fwd
  <2>1. TRUE \in BOOLEAN /\ FALSE \in BOOLEAN
    BY Zenon
  <2>2. PICK p \in U : Coedge(x, p).fwd = TRUE
    BY <1>2, <2>1, Zenon
  <2>3. PICK q \in U : Coedge(x, q).fwd = FALSE
    BY <1>2, <2>1, Zenon
  <2>4. Coedge(x, c).fwd = TRUE \/ Coedge(x, c).fwd = FALSE
    BY CoedgeAt
  <2>5. CASE Coedge(x, c).fwd = TRUE
    BY <2>3, <2>5
  <2>6. CASE Coedge(x, c).fwd = FALSE
    BY <2>2, <2>6
  <2>7. QED
    BY <2>4, <2>5, <2>6
<1>6. d # c
  BY <1>1, <1>3, <1>5
<1>7. U = {c, d}
  <2>1. IsFiniteSet({c, d}) /\ Cardinality({c, d}) = 2
    <3>1. IsFiniteSet({c}) /\ Cardinality({c}) = 1
      BY FS_Singleton
    <3>2. {c, d} = {c} \cup {d}
      OBVIOUS
    <3>3. IsFiniteSet({c} \cup {d}) /\ Cardinality({c} \cup {d}) = Cardinality({c}) + 1
      BY <1>6, <3>1, FS_AddElement
    <3>4. QED
      BY <3>1, <3>2, <3>3
  <2>2. {c, d} \in SUBSET U
    BY <1>1, <1>5
  <2>3. QED
    BY <1>2, <1>4, <2>1, <2>2, FS_Subset
<1>8. Coedge(x, d).edge = e /\ d \in Handles(x.ces)
  BY <1>3, <1>5
<1>9. Twin(x, c) = d /\ Twin(x, d) = c
  <2>1. Uses(x, Coedge(x, c).edge) = {c, d} /\ Uses(x, Coedge(x, d).edge) = {c, d}
    BY <1>7, <1>8
  <2>2. QED
    BY <1>6, <2>1 DEF Twin
<1>10. d \notin Rim(x)
  BY <1>2, <1>8 DEF Rim
<1>11. Start(x, d) = End(x, c) /\ End(x, d) = Start(x, c)
  <2>1. EdgeOf(x, d) = EdgeOf(x, c)
    BY <1>8 DEF EdgeOf
  <2>2. QED
    BY <1>1, <1>3, <1>5, <2>1 DEF Start, End
<1>12. QED
  BY <1>5, <1>7, <1>8, <1>9, <1>10, <1>11

LEMMA TwinBalances ==
  ASSUME NEW x, Shaped(x), Incident(x), EdgesPaired(x, "open"), NEW v
  PROVE  Cardinality(Ends(x, v) \ Rim(x)) = Cardinality(Starts(x, v) \ Rim(x))
<1> DEFINE S == Starts(x, v) \ Rim(x)
           T == Ends(x, v) \ Rim(x)
           f == [c \in S |-> Twin(x, c)]
<1>1. \A c \in S : Twin(x, c) \in T /\ Twin(x, Twin(x, c)) = c
  BY TwinOffRim DEF Starts, Ends
<1>2. \A c \in T : Twin(x, c) \in S /\ Twin(x, Twin(x, c)) = c
  BY TwinOffRim DEF Starts, Ends
<1>3. IsFiniteSet(S)
  BY CoedgesFinite, FS_Subset DEF Starts
<1> HIDE DEF S, T
<1>4. f \in [S -> T] /\ \A c \in S : f[c] = Twin(x, c)
  BY <1>1
<1> HIDE DEF f
<1>5. /\ \A p, q \in S : f[p] = f[q] => p = q
      /\ \A t \in T : \E p \in S : f[p] = t
  BY <1>1, <1>2, <1>4
<1>6. Cardinality(T) = Cardinality(S)
  BY <1>3, <1>4, <1>5, SameSize
<1>7. QED
  BY <1>6 DEF S, T

(***************************************************************************)
(* The rim closes up in every body whose loops are chained, whose edges    *)
(* are paired and whose coedges are covered: what Prev matches at a vertex *)
(* less what Twin matches there is the rim.                                *)
(***************************************************************************)
LEMMA RimOfPaired ==
  ASSUME NEW x, Shaped(x), Incident(x), EdgesPaired(x, "open"), LoopsClosed(x), Covered(x)
  PROVE  RimBalanced(x)
<1> SUFFICES ASSUME NEW v \in Handles(x.vs)
             PROVE  Cardinality({c \in Rim(x) : Start(x, c) = v})
                      = Cardinality({c \in Rim(x) : End(x, c) = v})
  BY DEF RimBalanced
<1> DEFINE S == Starts(x, v)
           T == Ends(x, v)
<1>1. IsFiniteSet(S) /\ IsFiniteSet(T) /\ Cardinality(T) = Cardinality(S)
  BY PrevBalances, CoedgesFinite, FS_Subset DEF Starts
<1>2. Cardinality(T \ Rim(x)) = Cardinality(S \ Rim(x))
  BY TwinBalances
<1>3. ASSUME NEW Q, IsFiniteSet(Q)
      PROVE  Cardinality(Q \cap Rim(x)) = Cardinality(Q) - Cardinality(Q \ Rim(x))
  <2>1. Cardinality(Q \ Rim(x)) = Cardinality(Q) - Cardinality(Q \cap Rim(x))
    BY <1>3, FS_Difference
  <2>2. IsFiniteSet(Q \cap Rim(x))
    BY <1>3, FS_Subset
  <2>3. Cardinality(Q) \in Nat /\ Cardinality(Q \cap Rim(x)) \in Nat
    BY <1>3, <2>2, FS_CardinalityType
  <2>4. QED
    BY <2>1, <2>3
<1>4. Cardinality(T \cap Rim(x)) = Cardinality(S \cap Rim(x))
  BY <1>1, <1>2, <1>3
<1>5. /\ {c \in Rim(x) : Start(x, c) = v} = S \cap Rim(x)
      /\ {c \in Rim(x) : End(x, c) = v} = T \cap Rim(x)
  BY DEF Rim, Starts, Ends
<1>6. QED
  BY <1>4, <1>5

-----------------------------------------------------------------------------
(***************************************************************************)
(* Induction on numbers.                                                   *)
(***************************************************************************)
LEMMA LeastNumber ==
  ASSUME NEW T, T \subseteq Nat, T # {}
  PROVE  \E m \in T : \A k \in T : m <= k
<1> DEFINE R == OpToRel(<, Nat)
<1>1. PICK m \in T : \A k \in T : ~ (<<k, m>> \in R)
  <2>1. IsWellFoundedOn(R, Nat)
    BY NatLessThanWellFounded
  <2> HIDE DEF R
  <2>2. QED
    BY <2>1, WFMin
<1>2. \A k, n \in Nat : <<k, n>> \in R <=> k < n
  BY DEF OpToRel
<1> HIDE DEF R
<1>3. \A k \in T : ~ (k < m)
  BY <1>1, <1>2
<1>4. QED
  BY <1>3

LEMMA Counting ==
  ASSUME NEW S, 0 \in S, \A n \in Nat : n \in S => n + 1 \in S
  PROVE  Nat \subseteq S
<1> SUFFICES ASSUME Nat \ S # {} PROVE FALSE
  OBVIOUS
<1>1. PICK m \in Nat \ S : \A k \in Nat \ S : m <= k
  BY LeastNumber
<1>2. m # 0 /\ m - 1 \in Nat
  BY <1>1
<1>3. m - 1 \in S
  BY <1>1, <1>2
<1>4. QED
  BY <1>1, <1>2, <1>3

(***************************************************************************)
(* The places of a shell that k steps reach from the first.                *)
(***************************************************************************)
ReachStep(x, fs, g, k) ==
  IF k = 0 THEN {1}
  ELSE {q \in DOMAIN fs : \E p \in g[k - 1] : p = q \/ Joined(x, fs, p, q)}
ReachEquation(x, fs, g, n) == g = [k \in 0..n |-> ReachStep(x, fs, g, k)]

LEMMA ReachExists ==
  ASSUME NEW x, NEW fs, NEW N \in Nat
  PROVE  \E g : ReachEquation(x, fs, g, N)
<1> DEFINE S == {n \in Nat : \E g : ReachEquation(x, fs, g, n)}
<1>1. 0 \in S
  <2>1. ReachEquation(x, fs, [k \in 0..0 |-> {1}], 0)
    BY DEF ReachEquation, ReachStep
  <2>2. QED
    BY <2>1
<1>2. ASSUME NEW n \in Nat, n \in S PROVE n + 1 \in S
  <2>1. PICK g : ReachEquation(x, fs, g, n)
    BY <1>2
  <2> DEFINE h == [k \in 0..(n + 1) |-> IF k = n + 1 THEN ReachStep(x, fs, g, n + 1) ELSE g[k]]
  <2>2. \A k \in 0..n : g[k] = ReachStep(x, fs, g, k)
    BY <2>1 DEF ReachEquation
  <2>3. ASSUME NEW k \in 0..(n + 1) PROVE h[k] = ReachStep(x, fs, h, k)
    <3>1. k = 0 \/ (k - 1 \in 0..n /\ h[k - 1] = g[k - 1])
      OBVIOUS
    <3>2. h[k] = ReachStep(x, fs, g, k)
      BY <2>2
    <3> HIDE DEF h
    <3>3. QED
      BY <3>1, <3>2 DEF ReachStep
  <2>4. h = [k \in 0..(n + 1) |-> h[k]]
    OBVIOUS
  <2> HIDE DEF h
  <2>5. ReachEquation(x, fs, h, n + 1)
    BY <2>3, <2>4 DEF ReachEquation
  <2>6. QED
    BY <2>5
<1> HIDE DEF S
<1>3. N \in S
  BY <1>1, <1>2, Counting
<1>4. QED
  BY <1>3 DEF S

LEMMA ReachUnfolds ==
  ASSUME NEW x, NEW fs, Len(fs) \in Nat
  PROVE  \E g : /\ ReachEquation(x, fs, g, Len(fs))
                /\ ShellConnected(x, fs) <=> IsInjective(fs) /\ g[Len(fs)] = DOMAIN fs
<1> DEFINE reached == CHOOSE g : ReachEquation(x, fs, g, Len(fs))
<1>1. ReachEquation(x, fs, reached, Len(fs))
  <2>1. \E g : ReachEquation(x, fs, g, Len(fs))
    BY ReachExists
  <2>2. QED
    BY <2>1, Zenon
<1>2. ShellConnected(x, fs) <=> IsInjective(fs) /\ reached[Len(fs)] = DOMAIN fs
  BY Zenon DEF ShellConnected, ReachEquation, ReachStep
<1> HIDE DEF reached
<1>3. QED
  BY <1>1, <1>2

(***************************************************************************)
(* What is reached stays in a part that no join leaves.                    *)
(***************************************************************************)
LEMMA ReachStays ==
  ASSUME NEW x, NEW fs, NEW g, NEW N \in Nat, ReachEquation(x, fs, g, N),
         NEW part, 1 \in part,
         \A p \in part, q \in DOMAIN fs : Joined(x, fs, p, q) => q \in part
  PROVE  g[N] \subseteq part
<1>1. \A k \in 0..N : g[k] = ReachStep(x, fs, g, k)
  BY DEF ReachEquation
<1> DEFINE S == {k \in Nat : k <= N => g[k] \subseteq part}
<1>2. 0 \in S
  <2>1. g[0] = ReachStep(x, fs, g, 0)
    BY <1>1
  <2>2. ReachStep(x, fs, g, 0) = {1}
    BY DEF ReachStep
  <2>3. QED
    BY <2>1, <2>2
<1>3. ASSUME NEW k \in Nat, k \in S PROVE k + 1 \in S
  <2> SUFFICES ASSUME k + 1 <= N PROVE g[k + 1] \subseteq part
    OBVIOUS
  <2>1. g[k] \subseteq part
    BY <1>3
  <2>2. g[k + 1] = ReachStep(x, fs, g, k + 1) /\ (k + 1) - 1 = k /\ k + 1 # 0
    BY <1>1
  <2>3. QED
    BY <2>1, <2>2 DEF ReachStep
<1> HIDE DEF S
<1>4. N \in S
  BY <1>2, <1>3, Counting
<1>5. QED
  BY <1>4 DEF S

(***************************************************************************)
(* Where every part is left by a join, each step reaches one place more    *)
(* until all are reached.                                                  *)
(***************************************************************************)
LEMMA ReachGrows ==
  ASSUME NEW x, NEW R, NEW fs \in Seq(R), fs # <<>>, NEW g,
         ReachEquation(x, fs, g, Len(fs)),
         \A part \in SUBSET DOMAIN fs :
           part = {} \/ part = DOMAIN fs
             \/ \E p \in part, q \in DOMAIN fs \ part : Joined(x, fs, p, q)
  PROVE  g[Len(fs)] = DOMAIN fs
<1> DEFINE N == Len(fs)
           D == DOMAIN fs
<1>1. N \in Nat /\ D = 1..N /\ 1 \in D
  OBVIOUS
<1>2. IsFiniteSet(D) /\ Cardinality(D) = N
  <2>1. IsFiniteSet(1..N) /\ Cardinality(1..N) = N
    BY <1>1, FS_Interval
  <2>2. QED
    BY <1>1, <2>1
<1>3. \A k \in 0..N : g[k] = ReachStep(x, fs, g, k)
  BY DEF ReachEquation
<1> DEFINE Grown(k) == g[k] \subseteq D /\ 1 \in g[k] /\ (g[k] = D \/ Cardinality(g[k]) >= k + 1)
           S == {k \in Nat : k <= N => Grown(k)}
<1>4. 0 \in S
  <2>1. g[0] = {1}
    <3>1. g[0] = ReachStep(x, fs, g, 0)
      BY <1>1, <1>3
    <3>2. ReachStep(x, fs, g, 0) = {1}
      BY DEF ReachStep
    <3>3. QED
      BY <3>1, <3>2
  <2>2. Cardinality({1}) = 1
    BY FS_Singleton
  <2>3. Cardinality(g[0]) >= 0 + 1
    BY <2>1, <2>2
  <2>4. Grown(0)
    BY <1>1, <2>1, <2>3
  <2>5. QED
    BY <2>4
<1>5. ASSUME NEW k \in Nat, k \in S PROVE k + 1 \in S
  <2> SUFFICES ASSUME k + 1 <= N PROVE Grown(k + 1)
    OBVIOUS
  <2>1. Grown(k)
    BY <1>1, <1>5
  <2>2. g[k + 1] = ReachStep(x, fs, g, k + 1) /\ (k + 1) - 1 = k /\ k + 1 # 0
    BY <1>1, <1>3
  <2>3. g[k + 1] = {q \in D : \E p \in g[k] : p = q \/ Joined(x, fs, p, q)}
    BY <2>2 DEF ReachStep
  <2>4. g[k] \subseteq g[k + 1] /\ g[k + 1] \subseteq D
    BY <2>1, <2>3
  <2>5. CASE g[k] = D
    BY <2>1, <2>4, <2>5
  <2>6. CASE g[k] # D
    <3>1. PICK p \in g[k], q \in D \ g[k] : Joined(x, fs, p, q)
      BY <2>1, <2>6
    <3>2. g[k] \cup {q} \subseteq g[k + 1]
      BY <2>3, <2>4, <3>1
    <3>3. IsFiniteSet(g[k]) /\ IsFiniteSet(g[k + 1])
      BY <1>2, <2>1, <2>4, FS_Subset
    <3>4. Cardinality(g[k] \cup {q}) = Cardinality(g[k]) + 1 /\ Cardinality(g[k]) \in Nat
      <4> DEFINE A == g[k]
      <4>1. q \notin A /\ IsFiniteSet(A)
        BY <3>1, <3>3
      <4> HIDE DEF A
      <4>2. Cardinality(A \cup {q}) = Cardinality(A) + 1 /\ Cardinality(A) \in Nat
        BY <4>1, FS_AddElement, FS_CardinalityType
      <4>3. QED
        BY <4>2 DEF A
    <3>5. Cardinality(g[k] \cup {q}) <= Cardinality(g[k + 1]) /\ Cardinality(g[k + 1]) \in Nat
      BY <3>2, <3>3, FS_Subset, FS_CardinalityType
    <3> DEFINE a == Cardinality(g[k])
               c == Cardinality(g[k + 1])
    <3>6. a >= k + 1
      BY <2>1, <2>6
    <3>7. a \in Nat /\ c \in Nat /\ a + 1 <= c
      BY <3>4, <3>5
    <3> HIDE DEF a, c
    <3>8. c >= (k + 1) + 1
      BY <3>6, <3>7
    <3>9. QED
      BY <2>1, <2>4, <3>8 DEF c
  <2>7. QED
    BY <2>5, <2>6
<1>6. N \in S
  <2> HIDE DEF S, N
  <2>1. QED
    BY <1>1, <1>4, <1>5, Counting
<1>7. Grown(N)
  BY <1>1, <1>6
<1>8. CASE Cardinality(g[N]) >= N + 1
  <2>1. Cardinality(g[N]) <= N /\ Cardinality(g[N]) \in Nat
    BY <1>2, <1>7, FS_Subset, FS_CardinalityType
  <2>2. QED
    BY <1>1, <1>8, <2>1
<1>9. QED
  BY <1>7, <1>8

(***************************************************************************)
(* Places that share an edge across the border of a part have a join       *)
(* across it: the nearest two such places have nothing in between.         *)
(***************************************************************************)
Share(x, f, g) == EdgesOfFace(x, f) \cap EdgesOfFace(x, g) # {}

LEMMA JoinAcross ==
  ASSUME NEW x, NEW R, NEW fs \in Seq(R), NEW part \in SUBSET DOMAIN fs,
         NEW u \in part, NEW v \in DOMAIN fs \ part, Share(x, fs[u], fs[v])
  PROVE  \E p \in part, q \in DOMAIN fs \ part : Joined(x, fs, p, q)
<1> DEFINE E(p) == EdgesOfFace(x, fs[p])
           D == DOMAIN fs
           Apart(p, q) == IF p < q THEN q - p ELSE p - q
           T == {d \in Nat : \E p \in part, q \in D \ part : E(p) \cap E(q) # {} /\ d = Apart(p, q)}
<1>1. D \subseteq Nat /\ D \subseteq Int
  OBVIOUS
<1>2. \A p, q \in D : Apart(p, q) \in Nat
  BY <1>1
<1>3. Apart(u, v) \in T
  BY <1>2 DEF Share
<1>4. T \subseteq Nat /\ T # {}
  BY <1>3
<1> HIDE DEF T
<1>5. PICK d \in T : \A k \in T : d <= k
  BY <1>4, LeastNumber
<1>6. PICK p \in part, q \in D \ part : E(p) \cap E(q) # {} /\ d = Apart(p, q)
  BY <1>5 DEF T
<1>7. PICK e \in E(p) \cap E(q) : TRUE
  BY <1>6
<1>8. ASSUME NEW r \in D, (p < r /\ r < q) \/ (q < r /\ r < p), e \in E(r) PROVE FALSE
  <2>1. p \in Nat /\ q \in Nat /\ r \in Nat
    BY <1>1
  <2>2. CASE r \in part
    <3>1. Apart(r, q) \in T
      BY <1>2, <1>7, <1>8, <2>2 DEF T
    <3>2. Apart(r, q) < Apart(p, q)
      BY <1>8, <2>1
    <3>3. QED
      BY <1>2, <1>5, <1>6, <3>1, <3>2
  <2>3. CASE r \notin part
    <3>1. Apart(p, r) \in T
      BY <1>2, <1>7, <1>8, <2>3 DEF T
    <3>2. Apart(p, r) < Apart(p, q)
      BY <1>8, <2>1
    <3>3. QED
      BY <1>2, <1>5, <1>6, <3>1, <3>2
  <2>4. QED
    BY <2>2, <2>3
<1>9. Joined(x, fs, p, q)
  BY <1>7, <1>8 DEF Joined
<1>10. QED
  BY <1>9

(***************************************************************************)
(* A shell whose faces are listed once is found connected just when its    *)
(* faces are in one piece across shared edges.                             *)
(***************************************************************************)
Connected(x, fs) ==
  \A part \in SUBSET Range(fs) :
    part = {} \/ part = Range(fs) \/ \E f \in part, g \in Range(fs) \ part : Share(x, f, g)

LEMMA OnePieceOfShell ==
  ASSUME NEW fs
  PROVE  InOnePiece(fs) <=> Connected(b, fs)
BY DEF InOnePiece, OnePiece, Connected, Share

LEMMA JoinedShare ==
  ASSUME NEW x, NEW fs, NEW p, NEW q, Joined(x, fs, p, q)
  PROVE  Share(x, fs[p], fs[q]) /\ Share(x, fs[q], fs[p])
BY DEF Joined, Share

LEMMA ConnectedShell ==
  ASSUME NEW x, NEW R, NEW fs \in Seq(R), fs # <<>>, IsInjective(fs)
  PROVE  ShellConnected(x, fs) <=> Connected(x, fs)
<1> DEFINE N == Len(fs)
           D == DOMAIN fs
<1>1. N \in Nat /\ 1 \in D
  OBVIOUS
<1>2. PICK g : /\ ReachEquation(x, fs, g, N)
               /\ ShellConnected(x, fs) <=> IsInjective(fs) /\ g[N] = D
  BY <1>1, ReachUnfolds
<1>3. ASSUME g[N] = D PROVE Connected(x, fs)
  <2> SUFFICES ASSUME NEW part \in SUBSET Range(fs), part # {}, part # Range(fs),
                      \A f \in part, h \in Range(fs) \ part : ~Share(x, f, h)
               PROVE  FALSE
    BY DEF Connected
  <2> DEFINE A == {p \in D : fs[p] \in part}
             B == D \ A
  <2>1. A # {} /\ A # D
    BY DEF Range
  <2>2. ASSUME NEW p \in D, NEW q \in D, Joined(x, fs, p, q) PROVE p \in A <=> q \in A
    <3>1. fs[p] \in Range(fs) /\ fs[q] \in Range(fs)
      BY DEF Range
    <3>2. Share(x, fs[p], fs[q]) /\ Share(x, fs[q], fs[p])
      BY <2>2, JoinedShare
    <3>3. QED
      BY <3>1, <3>2
  <2> HIDE DEF A
  <2>3. CASE 1 \in A
    <3>1. A \subseteq D
      BY DEF A
    <3>2. \A p \in A, q \in D : Joined(x, fs, p, q) => q \in A
      BY <2>2, <3>1
    <3>3. g[N] \subseteq A
      BY <1>1, <1>2, <2>3, <3>2, ReachStays
    <3>4. QED
      BY <1>3, <2>1, <3>1, <3>3
  <2>4. CASE 1 \in B
    <3>1. \A p \in B, q \in D : Joined(x, fs, p, q) => q \in B
      BY <2>2
    <3> HIDE DEF B
    <3>2. g[N] \subseteq B
      BY <1>1, <1>2, <2>4, <3>1, ReachStays
    <3> USE DEF B
    <3>3. A = {}
      BY <1>3, <3>2 DEF A
    <3>4. QED
      BY <2>1, <3>3
  <2>5. QED
    BY <1>1, <2>3, <2>4
<1>4. ASSUME Connected(x, fs) PROVE g[N] = D
  <2>1. ASSUME NEW A \in SUBSET D, A # {}, A # D
        PROVE  \E p \in A, q \in D \ A : Joined(x, fs, p, q)
    <3> DEFINE part == {fs[p] : p \in A}
    <3>1. part \in SUBSET Range(fs) /\ part # {}
      BY <2>1 DEF Range
    <3>2. PICK w \in D : w \notin A
      BY <2>1
    <3>3. fs[w] \notin part /\ fs[w] \in Range(fs)
      BY <3>2 DEF IsInjective, Range
    <3>4. PICK f \in part, h \in Range(fs) \ part : Share(x, f, h)
      BY <1>4, <3>1, <3>3 DEF Connected
    <3>5. PICK u \in A : f = fs[u]
      BY <3>4
    <3>6. PICK v \in D : h = fs[v]
      BY <3>4 DEF Range
    <3>7. v \in D \ A
      BY <3>4, <3>6
    <3>8. Share(x, fs[u], fs[v])
      BY <3>4, <3>5, <3>6
    <3>9. QED
      BY <3>7, <3>8, JoinAcross
  <2>2. QED
    BY <1>2, <2>1, ReachGrows
<1>5. QED
  BY <1>2, <1>3, <1>4

-----------------------------------------------------------------------------
(***************************************************************************)
(* A one-to-one map of a finite set into itself.  A part that is closed    *)
(* under it is entered from nowhere else.                                  *)
(***************************************************************************)
Permutes(f, S) ==
  f \in [S -> S] /\ IsFiniteSet(S) /\ \A p, q \in S : f[p] = f[q] => p = q
ClosedUnder(f, A) == \A c \in A : f[c] \in A

LEMMA ClosedBackward ==
  ASSUME NEW f, NEW S, Permutes(f, S), NEW A \in SUBSET S, ClosedUnder(f, A),
         NEW c \in S, f[c] \in A
  PROVE  c \in A
<1> DEFINE g == [a \in A |-> f[a]]
<1>1. IsFiniteSet(A)
  BY FS_Subset DEF Permutes
<1>2. g \in Injection(A, A)
  BY DEF Permutes, ClosedUnder, Injection, IsInjective
<1>3. g \in Surjection(A, A)
  <2> HIDE DEF g
  <2>1. QED
    BY <1>1, <1>2, FS_Injection
<1>4. PICK a \in A : g[a] = f[c]
  BY <1>3 DEF Surjection
<1>5. a = c
  BY <1>4 DEF Permutes
<1>6. QED
  BY <1>5

LEMMA PermutesOnto ==
  ASSUME NEW f, NEW S, Permutes(f, S), NEW A \in SUBSET S, ClosedUnder(f, A), NEW t \in A
  PROVE  \E c \in A : f[c] = t
<1>1. f \in Injection(S, S)
  BY DEF Permutes, Injection, IsInjective
<1>2. f \in Surjection(S, S)
  BY <1>1, FS_Injection DEF Permutes
<1>3. PICK c \in S : f[c] = t
  BY <1>2 DEF Surjection
<1>4. QED
  BY <1>3, ClosedBackward

(***************************************************************************)
(* The walk of Orbits, one step at a time.                                 *)
(***************************************************************************)
WalkStep(f, g, k) ==
  IF k = 0 THEN [c \in DOMAIN f |-> c] ELSE [c \in DOMAIN f |-> f[g[k - 1][c]]]
WalkEquation(f, g, n) == g = [k \in 0..n |-> WalkStep(f, g, k)]

LEMMA WalkExists ==
  ASSUME NEW f, NEW N \in Nat
  PROVE  \E g : WalkEquation(f, g, N)
<1> DEFINE S == {n \in Nat : \E g : WalkEquation(f, g, n)}
<1>1. 0 \in S
  <2>1. WalkEquation(f, [k \in 0..0 |-> [c \in DOMAIN f |-> c]], 0)
    BY DEF WalkEquation, WalkStep
  <2>2. QED
    BY <2>1
<1>2. ASSUME NEW n \in Nat, n \in S PROVE n + 1 \in S
  <2>1. PICK g : WalkEquation(f, g, n)
    BY <1>2
  <2> DEFINE h == [k \in 0..(n + 1) |-> IF k = n + 1 THEN WalkStep(f, g, n + 1) ELSE g[k]]
  <2>2. \A k \in 0..n : g[k] = WalkStep(f, g, k)
    BY <2>1 DEF WalkEquation
  <2>3. ASSUME NEW k \in 0..(n + 1) PROVE h[k] = WalkStep(f, h, k)
    <3>1. k = 0 \/ (k - 1 \in 0..n /\ h[k - 1] = g[k - 1])
      OBVIOUS
    <3>2. h[k] = WalkStep(f, g, k)
      BY <2>2
    <3> HIDE DEF h
    <3>3. QED
      BY <3>1, <3>2 DEF WalkStep
  <2>4. h = [k \in 0..(n + 1) |-> h[k]]
    OBVIOUS
  <2> HIDE DEF h
  <2>5. WalkEquation(f, h, n + 1)
    BY <2>3, <2>4 DEF WalkEquation
  <2>6. QED
    BY <2>5
<1> HIDE DEF S
<1>3. N \in S
  BY <1>1, <1>2, Counting
<1>4. QED
  BY <1>3 DEF S

Met(f, g, c, n) == {g[k][c] : k \in 0..n}
LabelOf(f, g, c, n) ==
  LET met == {g[k][c].i : k \in 0..n} IN CHOOSE m \in met : \A x \in met : m <= x

LEMMA OrbitsUnfold ==
  ASSUME NEW f, NEW S, Permutes(f, S)
  PROVE  \E g : LET n == Cardinality(S) IN
           /\ WalkEquation(f, g, n)
           /\ Orbits(f).cyclic = Range(g[n])
           /\ \A c \in S : Orbits(f).label[c] = LabelOf(f, g, c, n)
<1> DEFINE n == Cardinality(DOMAIN f)
           walk == CHOOSE g : WalkEquation(f, g, n)
<1>1. DOMAIN f = S /\ n \in Nat
  BY FS_CardinalityType DEF Permutes
<1>2. WalkEquation(f, walk, n)
  <2>1. \E g : WalkEquation(f, g, n)
    BY <1>1, WalkExists
  <2>2. QED
    BY <2>1, Zenon
<1>3. Orbits(f) = [cyclic |-> Range(walk[n]),
                   label  |-> [c \in DOMAIN f |-> LabelOf(f, walk, c, n)]]
  BY Zenon DEF Orbits, WalkEquation, WalkStep, LabelOf
<1> HIDE DEF walk
<1>4. QED
  BY <1>1, <1>2, <1>3

(***************************************************************************)
(* What as many steps as there are points reach: every point is reached,   *)
(* and what one point meets is the least closed part around it.            *)
(***************************************************************************)
Walked(f, S, g) == Permutes(f, S) /\ WalkEquation(f, g, Cardinality(S))

LEMMA WalkSteps ==
  ASSUME NEW f, NEW S, NEW g, Walked(f, S, g)
  PROVE  LET n == Cardinality(S) IN
           /\ n \in Nat
           /\ \A k \in 0..n : g[k] \in [S -> S]
           /\ \A c \in S : g[0][c] = c
           /\ \A k \in Nat : k + 1 <= n => \A c \in S : g[k + 1][c] = f[g[k][c]]
<1> DEFINE n == Cardinality(S)
<1>1. n \in Nat /\ f \in [S -> S]
  BY FS_CardinalityType DEF Walked, Permutes
<1>2. \A k \in 0..n : g[k] = WalkStep(f, g, k)
  BY DEF Walked, WalkEquation
<1> HIDE DEF n
<1>3. g[0] = [c \in S |-> c]
  <2>1. g[0] = WalkStep(f, g, 0)
    BY <1>1, <1>2
  <2>2. QED
    BY <1>1, <2>1 DEF WalkStep
<1>4. ASSUME NEW k \in Nat, k + 1 <= n
      PROVE  g[k + 1] = [c \in S |-> f[g[k][c]]]
  <2>1. g[k + 1] = WalkStep(f, g, k + 1) /\ (k + 1) - 1 = k /\ k + 1 # 0
    BY <1>1, <1>2, <1>4
  <2>2. QED
    BY <1>1, <2>1 DEF WalkStep
<1> DEFINE T == {k \in Nat : k <= n => g[k] \in [S -> S]}
<1>5. 0 \in T
  BY <1>3
<1>6. ASSUME NEW k \in Nat, k \in T PROVE k + 1 \in T
  <2> SUFFICES ASSUME k + 1 <= n PROVE g[k + 1] \in [S -> S]
    OBVIOUS
  <2>1. g[k] \in [S -> S]
    BY <1>1, <1>6
  <2>2. \A c \in S : f[g[k][c]] \in S
    BY <1>1, <2>1
  <2>3. g[k + 1] = [c \in S |-> f[g[k][c]]]
    BY <1>4
  <2>4. QED
    BY <2>2, <2>3
<1> HIDE DEF T
<1>7. Nat \subseteq T
  BY <1>5, <1>6, Counting
<1>8. \A k \in 0..n : g[k] \in [S -> S]
  BY <1>1, <1>7 DEF T
<1>9. \A c \in S : g[0][c] = c
  BY <1>3
<1>10. \A k \in Nat : k + 1 <= n => \A c \in S : g[k + 1][c] = f[g[k][c]]
  BY <1>4
<1>11. QED
  BY <1>1, <1>8, <1>9, <1>10, Zenon DEF n

LEMMA WalkOnto ==
  ASSUME NEW f, NEW S, NEW g, Walked(f, S, g)
  PROVE  Range(g[Cardinality(S)]) = S
<1> DEFINE n == Cardinality(S)
           T == {k \in Nat : k <= n => \A t \in S : \E c \in S : g[k][c] = t}
<1>1. /\ n \in Nat
      /\ \A k \in 0..n : g[k] \in [S -> S]
      /\ \A c \in S : g[0][c] = c
      /\ \A k \in Nat : k + 1 <= n => \A c \in S : g[k + 1][c] = f[g[k][c]]
  BY WalkSteps
<1> HIDE DEF n
<1>2. 0 \in T
  BY <1>1
<1>3. ASSUME NEW k \in Nat, k \in T PROVE k + 1 \in T
  <2> SUFFICES ASSUME k + 1 <= n, NEW t \in S PROVE \E c \in S : g[k + 1][c] = t
    OBVIOUS
  <2>1. PICK p \in S : f[p] = t
    <3>1. S \in SUBSET S /\ ClosedUnder(f, S) /\ Permutes(f, S)
      BY DEF ClosedUnder, Walked, Permutes
    <3>2. QED
      BY <3>1, PermutesOnto
  <2>2. PICK c \in S : g[k][c] = p
    BY <1>1, <1>3
  <2>3. QED
    BY <1>1, <2>1, <2>2
<1> HIDE DEF T
<1>4. n \in T
  BY <1>1, <1>2, <1>3, Counting
<1>5. g[n] \in [S -> S] /\ \A t \in S : \E c \in S : g[n][c] = t
  BY <1>1, <1>4 DEF T
<1>6. Range(g[n]) = S
  BY <1>5 DEF Range
<1>7. QED
  BY <1>6 DEF n

LEMMA MetWithin ==
  ASSUME NEW f, NEW S, NEW g, Walked(f, S, g), NEW c \in S,
         NEW A \in SUBSET S, ClosedUnder(f, A), NEW d \in Met(f, g, c, Cardinality(S))
  PROVE  c \in A <=> d \in A
<1> DEFINE n == Cardinality(S)
           T == {k \in Nat : k <= n => (c \in A <=> g[k][c] \in A)}
<1>1. /\ n \in Nat
      /\ \A k \in 0..n : g[k] \in [S -> S]
      /\ \A p \in S : g[0][p] = p
      /\ \A k \in Nat : k + 1 <= n => \A p \in S : g[k + 1][p] = f[g[k][p]]
  BY WalkSteps
<1> HIDE DEF n
<1>2. 0 \in T
  BY <1>1
<1>3. ASSUME NEW k \in Nat, k \in T PROVE k + 1 \in T
  <2> SUFFICES ASSUME k + 1 <= n PROVE c \in A <=> g[k + 1][c] \in A
    OBVIOUS
  <2> DEFINE p == g[k][c]
  <2>1. p \in S /\ g[k + 1][c] = f[p] /\ (c \in A <=> p \in A)
    BY <1>1, <1>3
  <2> HIDE DEF p
  <2>2. p \in A <=> f[p] \in A
    <3>1. p \in A => f[p] \in A
      BY DEF ClosedUnder
    <3>2. f[p] \in A => p \in A
      BY <2>1, ClosedBackward DEF Walked
    <3>3. QED
      BY <3>1, <3>2
  <2>3. QED
    BY <2>1, <2>2
<1> HIDE DEF T
<1>4. Nat \subseteq T
  BY <1>2, <1>3, Counting
<1>5. PICK k \in 0..n : d = g[k][c]
  BY DEF Met, n
<1>6. QED
  BY <1>1, <1>4, <1>5 DEF T

LEMMA MetClosed ==
  ASSUME NEW f, NEW S, NEW g, Walked(f, S, g), NEW c \in S
  PROVE  LET met == Met(f, g, c, Cardinality(S)) IN
           c \in met /\ met \in SUBSET S /\ ClosedUnder(f, met)
<1> DEFINE n == Cardinality(S)
           W(m) == {g[k][c] : k \in 0..m}
           Grown(m) == ClosedUnder(f, W(m)) \/ Cardinality(W(m)) >= m + 1
           T == {m \in Nat : m <= n => Grown(m)}
<1>1. /\ n \in Nat
      /\ \A k \in 0..n : g[k] \in [S -> S]
      /\ \A p \in S : g[0][p] = p
      /\ \A k \in Nat : k + 1 <= n => \A p \in S : g[k + 1][p] = f[g[k][p]]
  BY WalkSteps
<1>f. IsFiniteSet(S)
  BY DEF Walked, Permutes
<1> HIDE DEF n
<1>2. ASSUME NEW m \in 0..n PROVE W(m) \in SUBSET S /\ c \in W(m) /\ IsFiniteSet(W(m))
  <2>1. W(m) \in SUBSET S
    BY <1>1
  <2>2. 0 \in 0..m /\ g[0][c] = c
    BY <1>1
  <2>3. QED
    BY <1>f, <2>1, <2>2, FS_Subset
<1>3. 0 \in T
  <2>1. W(0) = {c}
    BY <1>1
  <2>2. Cardinality({c}) = 1
    BY FS_Singleton
  <2>3. QED
    BY <2>1, <2>2
<1>4. ASSUME NEW m \in Nat, m \in T PROVE m + 1 \in T
  <2> SUFFICES ASSUME m + 1 <= n PROVE Grown(m + 1)
    OBVIOUS
  <2>1. Grown(m) /\ m \in 0..n /\ m + 1 \in 0..n
    BY <1>1, <1>4
  <2> DEFINE q == g[m + 1][c]
             old == W(m)
             new == W(m + 1)
  <2>2. new = old \cup {q}
    <3>1. 0..(m + 1) = (0..m) \cup {m + 1}
      BY <1>1
    <3>2. QED
      BY <3>1, Zenon
  <2>3. q = f[g[m][c]] /\ g[m][c] \in old
    BY <1>1, <2>1
  <2>4. CASE ClosedUnder(f, old)
    <3>1. new = old
      BY <2>2, <2>3, <2>4 DEF ClosedUnder
    <3>2. QED
      BY <2>4, <3>1
  <2>5. CASE ~ClosedUnder(f, old)
    <3>1. PICK k \in 0..m : f[g[k][c]] \notin old
      BY <2>5 DEF ClosedUnder
    <3>2. k = m
      <4>1. SUFFICES ASSUME k # m PROVE FALSE
        OBVIOUS
      <4>2. k + 1 \in 0..m /\ k + 1 <= n /\ k \in Nat
        BY <1>1, <2>1, <4>1
      <4>3. g[k + 1][c] = f[g[k][c]] /\ g[k + 1][c] \in old
        BY <1>1, <4>2
      <4>4. QED
        BY <3>1, <4>3
    <3>3. q \notin old
      BY <2>3, <3>1, <3>2
    <3>4. IsFiniteSet(old)
      BY <1>2, <2>1
    <3>5. Cardinality(old) >= m + 1
      BY <2>1, <2>5
    <3> HIDE DEF old, q, new
    <3>6. Cardinality(old \cup {q}) = Cardinality(old) + 1 /\ Cardinality(old) \in Nat
      BY <3>3, <3>4, FS_AddElement, FS_CardinalityType
    <3>7. Cardinality(new) >= (m + 1) + 1
      BY <2>2, <3>5, <3>6
    <3>8. QED
      BY <3>7 DEF new
  <2>6. QED
    BY <2>4, <2>5
<1>5. n \in T
  <2> HIDE DEF T
  <2>1. QED
    BY <1>1, <1>3, <1>4, Counting
<1>6. Grown(n) /\ n \in 0..n
  BY <1>1, <1>5
<1>7. ~(Cardinality(W(n)) >= n + 1)
  <2>1. W(n) \in SUBSET S /\ IsFiniteSet(W(n))
    BY <1>2, <1>6
  <2> HIDE DEF W
  <2>2. Cardinality(W(n)) <= n /\ Cardinality(W(n)) \in Nat
    BY <1>f, <2>1, FS_Subset, FS_CardinalityType DEF n
  <2>3. QED
    BY <1>1, <2>2
<1>8. QED
  BY <1>2, <1>6, <1>7 DEF Met, n

(***************************************************************************)
(* Points of different index have one label just when they meet.           *)
(***************************************************************************)
LEMMA LabelsMeet ==
  ASSUME NEW f, NEW S, NEW g, Walked(f, S, g), NEW c \in S, NEW d \in S,
         \A p \in S : p.i \in Nat, \A p, q \in S : p.i = q.i => p = q
  PROVE  LET n == Cardinality(S) IN
           LabelOf(f, g, c, n) = LabelOf(f, g, d, n) <=> c \in Met(f, g, d, n)
<1> DEFINE n == Cardinality(S)
           W(p) == Met(f, g, p, n)
           L(p) == LabelOf(f, g, p, n)
<1>1. \A p \in S : p \in W(p) /\ W(p) \in SUBSET S /\ ClosedUnder(f, W(p))
  BY MetClosed
<1>2. ASSUME NEW p \in S, NEW q \in W(p) PROVE W(p) = W(q)
  <2>1. q \in S /\ q \in W(q) /\ p \in W(p)
    BY <1>1
  <2> HIDE DEF n
  <2>2. p \in W(q)
    BY <1>1, <2>1, MetWithin DEF n
  <2>3. ASSUME NEW u \in W(p) PROVE u \in W(q)
    BY <1>1, <2>1, <2>2, MetWithin DEF n
  <2>4. ASSUME NEW u \in W(q) PROVE u \in W(p)
    BY <1>1, <2>1, MetWithin DEF n
  <2>5. QED
    BY <2>3, <2>4
<1>3. ASSUME NEW p \in S PROVE \E u \in W(p) : L(p) = u.i
  <2> DEFINE met == {g[k][p].i : k \in 0..n}
  <2>1. \A u \in W(p) : u.i \in Nat
    BY <1>1
  <2>2. met = {u.i : u \in W(p)}
    BY Zenon DEF Met
  <2>3. met \subseteq Nat /\ met # {}
    <3>1. p \in W(p)
      BY <1>1
    <3> HIDE DEF met, W
    <3>2. QED
      BY <2>1, <2>2, <3>1
  <2>4. L(p) = CHOOSE m \in met : \A k \in met : m <= k
    BY DEF LabelOf
  <2> HIDE DEF met
  <2>5. \E m \in met : \A k \in met : m <= k
    BY <2>3, LeastNumber
  <2>6. L(p) \in met
    BY <2>4, <2>5
  <2>7. QED
    BY <2>2, <2>6
<1>4. ASSUME NEW p \in S, NEW q \in S, W(p) = W(q) PROVE L(p) = L(q)
  <2> DEFINE met(u) == {g[k][u].i : k \in 0..n}
  <2>1. met(p) = {u.i : u \in W(p)} /\ met(q) = {u.i : u \in W(q)}
    BY Zenon DEF Met
  <2>2. met(p) = met(q)
    BY <1>4, <2>1
  <2>3. QED
    BY <2>2 DEF LabelOf
<1> HIDE DEF W, L
<1>5. ASSUME L(c) = L(d) PROVE c \in W(d)
  <2>1. PICK u \in W(c) : L(c) = u.i
    BY <1>3
  <2>2. PICK w \in W(d) : L(d) = w.i
    BY <1>3
  <2>3. u = w
    BY <1>1, <1>5, <2>1, <2>2
  <2>4. W(c) = W(d)
    BY <1>2, <2>3
  <2>5. QED
    BY <1>1, <2>4
<1>6. ASSUME c \in W(d) PROVE L(c) = L(d)
  BY <1>2, <1>4, <1>6
<1>7. QED
  BY <1>5, <1>6 DEF W, L

-----------------------------------------------------------------------------
(***************************************************************************)
(* The coedges of a solid: Turn is a one-to-one map of them that keeps the *)
(* vertex they leave and keeps degenerate edges apart.                     *)
(***************************************************************************)
Settled(x) ==
  Shaped(x) /\ Incident(x) /\ EdgesPaired(x, "solid") /\ LoopsClosed(x) /\ Covered(x)

Use(x, c) == <<Coedge(x, c).edge, Coedge(x, c).fwd>>

LEMMA TwinOfSolid ==
  ASSUME NEW x, Settled(x), NEW c \in Handles(x.ces)
  PROVE  /\ Twin(x, c) \in Handles(x.ces)
         /\ Start(x, Twin(x, c)) = End(x, c)
         /\ Twin(x, Twin(x, c)) = c
         /\ Uses(x, Coedge(x, c).edge) = {c, Twin(x, c)}
         /\ Coedge(x, Twin(x, c)).edge = Coedge(x, c).edge
         /\ Coedge(x, Twin(x, c)).fwd = ~Coedge(x, c).fwd
<1>1. Shaped(x) /\ Incident(x) /\ EdgesPaired(x, "solid")
  BY DEF Settled
<1>2. EdgesPaired(x, "open")
  BY <1>1 DEF EdgesPaired
<1>3. Coedge(x, c).edge \in Handles(x.es)
  BY <1>1, CoedgeAt
<1>4. c \notin Rim(x)
  BY <1>1, <1>3 DEF EdgesPaired, TwiceOpposite, Rim
<1>5. QED
  BY <1>1, <1>2, <1>4, TwinOffRim

LEMMA UseTells ==
  ASSUME NEW x, Settled(x), NEW c \in Handles(x.ces), NEW d \in Handles(x.ces),
         Use(x, c) = Use(x, d)
  PROVE  c = d
<1>1. Coedge(x, d).edge = Coedge(x, c).edge /\ Coedge(x, d).fwd = Coedge(x, c).fwd
  BY DEF Use
<1>2. d \in {c, Twin(x, c)}
  BY <1>1, TwinOfSolid DEF Uses
<1>3. d # Twin(x, c)
  <2>1. Coedge(x, c).fwd \in BOOLEAN
    BY CoedgeAt DEF Settled
  <2>2. Coedge(x, Twin(x, c)).fwd = ~Coedge(x, c).fwd
    BY TwinOfSolid
  <2>3. QED
    BY <1>1, <2>1, <2>2
<1>4. QED
  BY <1>2, <1>3

LEMMA PrevOfSolid ==
  ASSUME NEW x, Settled(x), NEW c \in Handles(x.ces)
  PROVE  /\ Prev(x, c) \in Handles(x.ces)
         /\ End(x, Prev(x, c)) = Start(x, c)
         /\ Degenerate(x, Prev(x, c)) <=> Degenerate(x, c)
         /\ \A d \in Handles(x.ces) : Prev(x, c) = Prev(x, d) => c = d
<1>0. Shaped(x) /\ Incident(x) /\ LoopsClosed(x) /\ Covered(x)
  BY DEF Settled
<1> DEFINE H == Handles(x.ces)
           ces(l) == x.lps[l].ces
<1>1. ASSUME NEW l \in DOMAIN x.lps, NEW j \in DOMAIN ces(l)
      PROVE  /\ LoopsWith(x, ces(l)[j]) = {l}
             /\ Prev(x, ces(l)[j]) = ces(l)[Before(ces(l), j)]
             /\ Before(ces(l), j) \in DOMAIN ces(l)
             /\ \A k \in DOMAIN ces(l) : Before(ces(l), j) = Before(ces(l), k) => j = k
             /\ Len(ces(l)) = 1 => Before(ces(l), j) = j
  <2>1. ces(l) \in Seq(HandleShape)
    BY <1>0, LoopAt
  <2>2. /\ Before(ces(l), j) \in DOMAIN ces(l)
        /\ \A k \in DOMAIN ces(l) : Before(ces(l), j) = Before(ces(l), k) => j = k
        /\ Len(ces(l)) = 1 => Before(ces(l), j) = j
    <3> HIDE DEF ces
    <3>1. Len(ces(l)) = 1 => Before(ces(l), j) = j
      BY <2>1 DEF Before
    <3>2. QED
      BY <2>1, <3>1, AroundLoop
  <2>3. LoopsWith(x, ces(l)[j]) = {l} /\ Prev(x, ces(l)[j]) = ces(l)[Before(ces(l), j)]
    BY <1>0, PrevAt
  <2> HIDE DEF ces
  <2>4. QED
    BY <2>2, <2>3
<1>2. ASSUME NEW l \in DOMAIN x.lps
      PROVE  /\ \A j, k \in DOMAIN ces(l) : ces(l)[j] = ces(l)[k] => j = k
             /\ \A j \in DOMAIN ces(l) : ces(l)[j] \in H
             /\ \A j \in DOMAIN ces(l) : End(x, ces(l)[Before(ces(l), j)]) = Start(x, ces(l)[j])
             /\ Len(ces(l)) = 1 \/ \A j \in DOMAIN ces(l) : ~Degenerate(x, ces(l)[j])
  <2>1. PoleAlone(x, ces(l))
    BY <1>0 DEF LoopsClosed
  <2>2. QED
    BY <1>0, <2>1, LoopAt DEF Chained, IsInjective, PoleAlone
<1>3. \A p \in H : \E l \in DOMAIN x.lps : \E j \in DOMAIN ces(l) : ces(l)[j] = p
  BY <1>0, PlaceOf
<1> HIDE DEF ces
<1>4. PICK l \in DOMAIN x.lps : \E j \in DOMAIN ces(l) : ces(l)[j] = c
  BY <1>3
<1>5. PICK j \in DOMAIN ces(l) : ces(l)[j] = c
  BY <1>4
<1>6. Prev(x, c) = ces(l)[Before(ces(l), j)] /\ Before(ces(l), j) \in DOMAIN ces(l)
  BY <1>1, <1>5
<1>7. Prev(x, c) \in H /\ End(x, Prev(x, c)) = Start(x, c)
  BY <1>2, <1>5, <1>6
<1>8. Degenerate(x, Prev(x, c)) <=> Degenerate(x, c)
  <2>1. CASE Len(ces(l)) = 1
    BY <1>1, <1>5, <1>6, <2>1
  <2>2. CASE Len(ces(l)) # 1
    BY <1>2, <1>5, <1>6, <2>2
  <2>3. QED
    BY <2>1, <2>2
<1>9. ASSUME NEW d \in H, Prev(x, c) = Prev(x, d) PROVE c = d
  <2>1. PICK m \in DOMAIN x.lps : \E k \in DOMAIN ces(m) : ces(m)[k] = d
    BY <1>3
  <2>2. PICK k \in DOMAIN ces(m) : ces(m)[k] = d
    BY <2>1
  <2>3. Prev(x, d) = ces(m)[Before(ces(m), k)] /\ Before(ces(m), k) \in DOMAIN ces(m)
    BY <1>1, <2>2
  <2>4. LoopsWith(x, Prev(x, c)) = {l} /\ LoopsWith(x, Prev(x, d)) = {m}
    BY <1>1, <1>6, <2>3
  <2>5. l = m
    BY <1>9, <2>4
  <2>6. Before(ces(l), j) = Before(ces(l), k)
    BY <1>2, <1>6, <1>9, <2>3, <2>5
  <2>7. QED
    BY <1>1, <1>5, <2>2, <2>5, <2>6
<1>10. QED
  BY <1>7, <1>8, <1>9

LEMMA TurnOfSolid ==
  ASSUME NEW x, Settled(x)
  PROVE  /\ Permutes(Turn(x), Handles(x.ces))
         /\ \A c \in Handles(x.ces) :
              /\ Turn(x)[c] = Twin(x, Prev(x, c))
              /\ Start(x, Turn(x)[c]) = Start(x, c)
              /\ Degenerate(x, Turn(x)[c]) <=> Degenerate(x, c)
<1> DEFINE H == Handles(x.ces)
           f == Turn(x)
<1>1. IsFiniteSet(H)
  BY CoedgesFinite DEF Settled
<1>2. \A c \in H : f[c] = Twin(x, Prev(x, c))
  BY DEF Turn
<1>3. ASSUME NEW c \in H
      PROVE  /\ Twin(x, Prev(x, c)) \in H
             /\ Start(x, Twin(x, Prev(x, c))) = Start(x, c)
             /\ Degenerate(x, Twin(x, Prev(x, c))) <=> Degenerate(x, c)
             /\ Twin(x, Twin(x, Prev(x, c))) = Prev(x, c)
  <2> DEFINE p == Prev(x, c)
  <2>1. p \in H /\ End(x, p) = Start(x, c) /\ (Degenerate(x, p) <=> Degenerate(x, c))
    BY PrevOfSolid
  <2> HIDE DEF p
  <2>2. /\ Twin(x, p) \in H /\ Start(x, Twin(x, p)) = End(x, p) /\ Twin(x, Twin(x, p)) = p
        /\ Coedge(x, Twin(x, p)).edge = Coedge(x, p).edge
    BY <2>1, TwinOfSolid
  <2>3. Degenerate(x, Twin(x, p)) <=> Degenerate(x, p)
    BY <2>2 DEF Degenerate, EdgeOf
  <2>4. QED
    BY <2>1, <2>2, <2>3 DEF p
<1>4. f = [c \in H |-> Twin(x, Prev(x, c))]
  BY DEF Turn
<1>5. f \in [H -> H]
  BY <1>3, <1>4
<1>6. ASSUME NEW p \in H, NEW q \in H, f[p] = f[q] PROVE p = q
  <2>1. Twin(x, Prev(x, p)) = Twin(x, Prev(x, q))
    BY <1>2, <1>6
  <2>2. Prev(x, p) = Prev(x, q)
    BY <1>3, <2>1
  <2>3. QED
    BY <2>2, PrevOfSolid
<1>7. Permutes(f, H)
  BY <1>1, <1>5, <1>6 DEF Permutes
<1>8. QED
  BY <1>2, <1>3, <1>7

LEMMA LeavingOfSolid ==
  ASSUME NEW x, Settled(x), NEW v
  PROVE  /\ Leaving(x, v) \in SUBSET Handles(x.ces)
         /\ ClosedUnder(Turn(x), Leaving(x, v))
<1>1. Permutes(Turn(x), Handles(x.ces))
  BY TurnOfSolid
<1>2. \A c \in Handles(x.ces) : Turn(x)[c] \in Handles(x.ces)
  BY <1>1 DEF Permutes
<1>3. QED
  BY <1>2, TurnOfSolid DEF Leaving, ClosedUnder

(***************************************************************************)
(* The counted orbit of one coedge decides whether those that leave a      *)
(* vertex are one orbit.                                                   *)
(***************************************************************************)
OneOrbit(f, A) ==
  \A part \in SUBSET A : part = {} \/ part = A \/ ~ClosedUnder(f, part)

LEMMA IndicesDiffer ==
  ASSUME NEW x, Shaped(x)
  PROVE  /\ \A p \in Handles(x.ces) : p.i \in Nat
         /\ \A p, q \in Handles(x.ces) : p.i = q.i => p = q
<1> DEFINE R == [gen : Nat, edge : HandleShape, fwd : BOOLEAN]
<1>1. x.ces \in Seq(R)
  BY DEF Shaped
<1> HIDE DEF R
<1>2. DOMAIN x.ces \subseteq Nat
  BY <1>1
<1>3. QED
  BY <1>2 DEF Handles, Handle

LEMMA FanIsOneOrbit ==
  ASSUME NEW x, Settled(x), NEW v
  PROVE  Fan(x, v, Turn(x), Orbits(Turn(x))) <=> OneOrbit(Turn(x), Leaving(x, v))
<1> DEFINE H == Handles(x.ces)
           f == Turn(x)
           orbits == Orbits(f)
           n == Cardinality(H)
           cs == Leaving(x, v)
           first == CHOOSE c \in cs : \A d \in cs : c.i <= d.i
<1>1. /\ Permutes(f, H)
      /\ \A c \in H : Degenerate(x, f[c]) <=> Degenerate(x, c)
  BY TurnOfSolid
<1>2. cs \in SUBSET H /\ ClosedUnder(f, cs) /\ \A c \in cs : ~Degenerate(x, c)
  BY LeavingOfSolid DEF Leaving
<1>3. (\A p \in H : p.i \in Nat) /\ (\A p, q \in H : p.i = q.i => p = q)
  BY IndicesDiffer DEF Settled
<1>4. PICK g : /\ WalkEquation(f, g, n)
               /\ orbits.cyclic = Range(g[n])
               /\ \A c \in H : orbits.label[c] = LabelOf(f, g, c, n)
  BY <1>1, OrbitsUnfold
<1>5. Walked(f, H, g)
  BY <1>1, <1>4 DEF Walked
<1>6. orbits.cyclic = H
  BY <1>4, <1>5, WalkOnto
<1>7. CASE cs = {}
  BY <1>7 DEF Fan, OneOrbit
<1>8. CASE cs # {}
  <2>1. first \in cs
    <3> DEFINE is == {c.i : c \in cs}
    <3>1. is \subseteq Nat /\ is # {}
      BY <1>2, <1>3, <1>8
    <3>2. PICK m \in is : \A k \in is : m <= k
      <4> HIDE DEF is
      <4>1. QED
        BY <3>1, LeastNumber
    <3>3. \E c \in cs : \A d \in cs : c.i <= d.i
      BY <3>2
    <3>4. QED
      BY <3>3
  <2> DEFINE met == Met(f, g, first, n)
             along == {c \in orbits.cyclic : orbits.label[c] = orbits.label[first]
                                             /\ ~Degenerate(x, c)}
             steps == IF f[first] = first THEN 1
                      ELSE 1 + Cardinality(along) - (IF Degenerate(x, f[first]) THEN 0 ELSE 1)
  <2>2. Fan(x, v, f, orbits) <=> steps = Cardinality(cs)
    <3>1. Fan(x, v, f, orbits)
            <=> \/ cs = {}
                \/ (f[first] = first \/ first \in orbits.cyclic) /\ steps = Cardinality(cs)
      BY Zenon DEF Fan
    <3> HIDE DEF cs, steps, first, orbits, f
    <3>2. first \in orbits.cyclic
      BY <1>2, <1>6, <2>1
    <3>3. QED
      BY <1>8, <3>1, <3>2
  <2> HIDE DEF first, cs, f, orbits, n, H
  <2>3. first \in H /\ first \in met /\ met \in SUBSET H /\ ClosedUnder(f, met)
    BY <1>2, <1>5, <2>1, MetClosed DEF n
  <2>4. met \subseteq cs
    BY <1>2, <1>5, <2>1, <2>3, MetWithin DEF n
  <2>5. along = met
    <3>1. ASSUME NEW c \in H PROVE orbits.label[c] = orbits.label[first] <=> c \in met
      BY <1>3, <1>4, <1>5, <2>3, LabelsMeet DEF n
    <3> HIDE DEF met
    <3>2. QED
      BY <1>2, <1>6, <2>3, <2>4, <3>1
  <2>6. steps = Cardinality(met)
    <3> HIDE DEF met, along
    <3>1. CASE f[first] = first
      <4>1. {first} \in SUBSET H /\ ClosedUnder(f, {first})
        BY <2>3, <3>1 DEF ClosedUnder
      <4>2. \A d \in met : d \in {first}
        BY <1>5, <2>3, <4>1, MetWithin DEF n, met
      <4>3. met = {first}
        BY <2>3, <4>2
      <4>4. Cardinality(met) = 1
        BY <4>3, FS_Singleton
      <4>5. QED
        BY <3>1, <4>4
    <3>2. CASE f[first] # first
      <4>1. ~Degenerate(x, f[first])
        BY <1>1, <1>2, <2>1, <2>3
      <4>2. Cardinality(met) \in Nat
        <5>1. IsFiniteSet(met)
          BY <1>1, <2>3, FS_Subset DEF Permutes
        <5>2. QED
          BY <5>1, FS_CardinalityType
      <4>3. QED
        BY <2>5, <3>2, <4>1, <4>2
    <3>3. QED
      BY <3>1, <3>2
  <2> HIDE DEF met, along, steps
  <2>7. Fan(x, v, f, orbits) <=> met = cs
    <3>1. IsFiniteSet(cs)
      BY <1>1, <1>2, FS_Subset DEF Permutes
    <3>2. Cardinality(cs) = Cardinality(met) => cs = met
      BY <2>4, <3>1, FS_Subset
    <3>3. QED
      BY <2>2, <2>6, <3>2
  <2>8. ASSUME met = cs PROVE OneOrbit(f, cs)
    <3> SUFFICES ASSUME NEW A \in SUBSET cs, A # {}, ClosedUnder(f, A) PROVE A = cs
      BY DEF OneOrbit
    <3>1. A \in SUBSET H
      BY <1>2
    <3>2. \A d \in met : first \in A <=> d \in A
      BY <1>5, <2>3, <3>1, MetWithin DEF n, met
    <3>3. QED
      BY <2>8, <3>2
  <2>9. ASSUME OneOrbit(f, cs) PROVE met = cs
    BY <2>3, <2>4, <2>9 DEF OneOrbit
  <2>10. QED
    BY <2>7, <2>8, <2>9 DEF f, cs, orbits
<1>9. QED
  BY <1>7, <1>8

(***************************************************************************)
(* The corners of a vertex stand for the coedges that leave it; a corner   *)
(* arrives where the next one around the vertex leaves.                    *)
(***************************************************************************)
Outgoing(x, k) == x.lps[k[1]].ces[k[2]]

LEMMA CornersLeave ==
  ASSUME Settled(b), NEW v
  PROVE  /\ \A k \in Corners(v) :
              /\ Outgoing(b, k) \in Leaving(b, v)
              /\ LeavesBy(k) = Use(b, Outgoing(b, k))
              /\ ArrivesBy(k) = Use(b, Turn(b)[Outgoing(b, k)])
         /\ \A k, m \in Corners(v) : Outgoing(b, k) = Outgoing(b, m) => k = m
         /\ \A c \in Leaving(b, v) : \E k \in Corners(v) : Outgoing(b, k) = c
<1>0. Shaped(b) /\ Incident(b) /\ LoopsClosed(b) /\ Covered(b)
  BY DEF Settled
<1> DEFINE Place(k, l, j) == k = <<l, j>> /\ l \in DOMAIN b.lps /\ j \in DOMAIN b.lps[l].ces
<1>1. ASSUME NEW k \in Corners(v)
      PROVE  /\ \E l, j : Place(k, l, j)
             /\ Start(b, Outgoing(b, k)) = v /\ ~Degenerate(b, Outgoing(b, k))
  BY DEF Corners, Outgoing
<1>2. ASSUME NEW l, NEW j, Place(<<l, j>>, l, j)
      PROVE  /\ Outgoing(b, <<l, j>>) = b.lps[l].ces[j]
             /\ Outgoing(b, <<l, j>>) \in Handles(b.ces)
             /\ LoopsWith(b, Outgoing(b, <<l, j>>)) = {l}
             /\ Prev(b, Outgoing(b, <<l, j>>)) = b.lps[l].ces[Before(b.lps[l].ces, j)]
  <2>1. l \in DOMAIN b.lps /\ j \in DOMAIN b.lps[l].ces
    BY <1>2
  <2>2. Outgoing(b, <<l, j>>) = b.lps[l].ces[j]
    BY DEF Outgoing
  <2>3. b.lps[l].ces[j] \in Handles(b.ces)
    BY <1>0, <2>1, LoopAt
  <2>4. /\ LoopsWith(b, b.lps[l].ces[j]) = {l}
        /\ Prev(b, b.lps[l].ces[j]) = b.lps[l].ces[Before(b.lps[l].ces, j)]
    BY <1>0, <2>1, PrevAt
  <2>5. QED
    BY <2>2, <2>3, <2>4
<1>3. ASSUME NEW k \in Corners(v)
      PROVE  /\ Outgoing(b, k) \in Leaving(b, v)
             /\ LeavesBy(k) = Use(b, Outgoing(b, k))
             /\ ArrivesBy(k) = Use(b, Turn(b)[Outgoing(b, k)])
  <2>1. PICK l, j : Place(k, l, j)
    BY <1>1
  <2> DEFINE c == Outgoing(b, k)
             p == Prev(b, c)
  <2>2. c \in Handles(b.ces) /\ p = b.lps[l].ces[Before(b.lps[l].ces, j)] /\ c = b.lps[l].ces[j]
    BY <1>2, <2>1
  <2>3. c \in Leaving(b, v)
    BY <1>1, <2>2 DEF Leaving
  <2>4. LeavesBy(k) = Use(b, c)
    BY <2>1, <2>2 DEF LeavesBy, Use
  <2>5. ArrivesBy(k) = <<Coedge(b, p).edge, ~Coedge(b, p).fwd>>
    BY <2>1, <2>2 DEF ArrivesBy
  <2>6. Turn(b)[c] = Twin(b, p) /\ p \in Handles(b.ces)
    BY <2>2, TurnOfSolid, PrevOfSolid
  <2> HIDE DEF p, c
  <2>7. Use(b, Twin(b, p)) = <<Coedge(b, p).edge, ~Coedge(b, p).fwd>>
    BY <2>6, TwinOfSolid DEF Use
  <2>8. QED
    BY <2>3, <2>4, <2>5, <2>6, <2>7 DEF c
<1>4. ASSUME NEW k \in Corners(v), NEW m \in Corners(v), Outgoing(b, k) = Outgoing(b, m) PROVE k = m
  <2>1. PICK l, j : Place(k, l, j)
    BY <1>1
  <2>2. PICK h, i : Place(m, h, i)
    BY <1>1
  <2>3. l = h
    BY <1>2, <1>4, <2>1, <2>2
  <2>4. b.lps[l].ces[j] = b.lps[l].ces[i]
    BY <1>2, <1>4, <2>1, <2>2, <2>3
  <2>5. IsInjective(b.lps[l].ces)
    BY <1>0, <2>1, LoopAt
  <2>6. j = i
    BY <2>1, <2>2, <2>3, <2>4, <2>5 DEF IsInjective
  <2>7. QED
    BY <2>1, <2>2, <2>3, <2>6
<1>5. ASSUME NEW c \in Leaving(b, v) PROVE \E k \in Corners(v) : Outgoing(b, k) = c
  <2>1. c \in Handles(b.ces) /\ Start(b, c) = v /\ ~Degenerate(b, c)
    BY DEF Leaving
  <2>2. PICK l \in DOMAIN b.lps : \E j \in DOMAIN b.lps[l].ces : b.lps[l].ces[j] = c
    BY <1>0, <2>1, PlaceOf
  <2>3. PICK j \in DOMAIN b.lps[l].ces : b.lps[l].ces[j] = c
    BY <2>2
  <2>4. <<l, j>> \in Corners(v)
    BY <2>1, <2>3 DEF Corners
  <2>5. QED
    BY <2>3, <2>4 DEF Outgoing
<1>6. QED
  BY <1>3, <1>4, <1>5

(***************************************************************************)
(* The link of a vertex is one cycle just when the coedges that leave it   *)
(* are one orbit.                                                          *)
(***************************************************************************)
CornersTouch(k, m) == {LeavesBy(k), ArrivesBy(k)} \cap {LeavesBy(m), ArrivesBy(m)} # {}
CornersWhole(v) ==
  \A part \in SUBSET Corners(v) :
    part = {} \/ part = Corners(v)
      \/ \E k \in part, m \in Corners(v) \ part : CornersTouch(k, m)
EndsTwice(v) ==
  \A x \in {LeavesBy(k) : k \in Corners(v)} \cup {ArrivesBy(k) : k \in Corners(v)} :
    Cardinality({k \in Corners(v) : LeavesBy(k) = x})
      + Cardinality({k \in Corners(v) : ArrivesBy(k) = x}) = 2

LEMMA LinkInParts ==
  ASSUME NEW v
  PROVE  LinkIsCycle(v) <=> EndsTwice(v) /\ CornersWhole(v)
BY DEF LinkIsCycle, EndsTwice, CornersWhole, CornersTouch, OnePiece

LEMMA LinkIsOneOrbit ==
  ASSUME Settled(b), NEW v
  PROVE  LinkIsCycle(v) <=> OneOrbit(Turn(b), Leaving(b, v))
<1> DEFINE H  == Handles(b.ces)
           f  == Turn(b)
           cs == Leaving(b, v)
           ks == Corners(v)
           Held(k) == Outgoing(b, k)
<1>1. Permutes(f, H) /\ cs \in SUBSET H /\ ClosedUnder(f, cs)
  BY TurnOfSolid, LeavingOfSolid
<1>2. /\ \A k \in ks : /\ Held(k) \in cs
                       /\ LeavesBy(k) = Use(b, Held(k))
                       /\ ArrivesBy(k) = Use(b, f[Held(k)])
      /\ \A k, m \in ks : Held(k) = Held(m) => k = m
      /\ \A c \in cs : \E k \in ks : Held(k) = c
  BY CornersLeave
<1>3. \A c, d \in cs : Use(b, c) = Use(b, d) => c = d
  BY <1>1, UseTells
<1>4. \A c \in cs : f[c] \in cs
  BY <1>1 DEF ClosedUnder
<1>5. \A c, d \in cs : f[c] = f[d] => c = d
  BY <1>1 DEF Permutes
<1>6. \A c \in cs : \E d \in cs : f[d] = c
  BY <1>1, PermutesOnto
<1>7. \A A \in SUBSET cs : ClosedUnder(f, A) => \A c \in cs : f[c] \in A => c \in A
  BY <1>1, ClosedBackward
<1> HIDE DEF H, f, cs, ks, Held
<1>8. EndsTwice(v)
  <2> SUFFICES ASSUME NEW x \in {LeavesBy(k) : k \in ks} \cup {ArrivesBy(k) : k \in ks}
               PROVE  Cardinality({k \in ks : LeavesBy(k) = x})
                        + Cardinality({k \in ks : ArrivesBy(k) = x}) = 2
    BY DEF EndsTwice, ks
  <2>1. PICK c \in cs : x = Use(b, c)
    BY <1>2, <1>4
  <2>2. PICK k \in ks : Held(k) = c
    BY <1>2
  <2>3. {m \in ks : LeavesBy(m) = x} = {k}
    BY <1>2, <1>3, <2>1, <2>2
  <2>4. PICK d \in cs : f[d] = c
    BY <1>6
  <2>5. PICK h \in ks : Held(h) = d
    BY <1>2
  <2>6. {m \in ks : ArrivesBy(m) = x} = {h}
    BY <1>2, <1>3, <1>4, <1>5, <2>1, <2>4, <2>5
  <2>7. Cardinality({k}) = 1 /\ Cardinality({h}) = 1
    BY FS_Singleton
  <2>8. QED
    BY <2>3, <2>6, <2>7
<1>9. ASSUME CornersWhole(v) PROVE OneOrbit(f, cs)
  <2> SUFFICES ASSUME NEW A \in SUBSET cs, A # {}, A # cs, ClosedUnder(f, A) PROVE FALSE
    BY DEF OneOrbit
  <2> DEFINE part == {k \in ks : Held(k) \in A}
  <2>1. part # {} /\ part # ks
    BY <1>2
  <2>2. PICK k \in part, m \in ks \ part : CornersTouch(k, m)
    BY <1>9, <2>1 DEF CornersWhole, ks
  <2> DEFINE c == Held(k)
             d == Held(m)
  <2>3. c \in A /\ c \in cs /\ d \in cs /\ d \notin A
    BY <1>2, <2>2
  <2>4. {Use(b, c), Use(b, f[c])} \cap {Use(b, d), Use(b, f[d])} # {}
    BY <1>2, <2>2 DEF CornersTouch
  <2> HIDE DEF c, d
  <2>5. c = d \/ c = f[d] \/ f[c] = d \/ f[c] = f[d]
    BY <1>3, <1>4, <2>3, <2>4
  <2>6. c = f[d] \/ f[c] = d
    BY <1>5, <2>3, <2>5
  <2>7. QED
    BY <1>7, <2>3, <2>6 DEF ClosedUnder
<1>10. ASSUME OneOrbit(f, cs) PROVE CornersWhole(v)
  <2> SUFFICES ASSUME NEW part \in SUBSET ks, part # {}, part # ks
               PROVE  \E k \in part, m \in ks \ part : CornersTouch(k, m)
    BY DEF CornersWhole, ks
  <2> DEFINE A == {Held(k) : k \in part}
  <2>1. A \in SUBSET cs /\ A # {}
    BY <1>2
  <2>2. A # cs
    <3>1. PICK m \in ks : m \notin part
      OBVIOUS
    <3>2. Held(m) \notin A /\ Held(m) \in cs
      BY <1>2, <3>1
    <3>3. QED
      BY <3>2
  <2>3. PICK c \in A : f[c] \notin A
    BY <1>10, <2>1, <2>2 DEF OneOrbit, ClosedUnder
  <2>4. PICK k \in part : c = Held(k)
    BY <2>3
  <2>5. f[c] \in cs
    BY <1>4, <2>1, <2>3
  <2>6. PICK m \in ks : Held(m) = f[c]
    BY <1>2, <2>5
  <2>7. m \notin part
    BY <2>3, <2>6
  <2>8. ArrivesBy(k) = LeavesBy(m)
    BY <1>2, <2>4, <2>6
  <2>9. CornersTouch(k, m)
    BY <2>8 DEF CornersTouch
  <2>10. QED
    BY <2>7, <2>9
<1>11. QED
  BY <1>8, <1>9, <1>10, LinkInParts DEF f, cs

-----------------------------------------------------------------------------
(***************************************************************************)
(* The orbits of a map are its least closed parts. Those of a permutation  *)
(* of a finite set are apart and cover the set.                            *)
(***************************************************************************)
OrbitsOf(f, S) == {A \in SUBSET S : A # {} /\ ClosedUnder(f, A) /\ OneOrbit(f, A)}

LEMMA OrbitsApart ==
  ASSUME NEW f, NEW S, NEW A \in OrbitsOf(f, S), NEW B \in OrbitsOf(f, S), A \cap B # {}
  PROVE  A = B
<1>1. ClosedUnder(f, A \cap B)
  BY DEF OrbitsOf, ClosedUnder
<1>2. A \cap B = A /\ A \cap B = B
  BY <1>1 DEF OrbitsOf, OneOrbit
<1>3. QED
  BY <1>2

LEMMA OrbitThrough ==
  ASSUME NEW f, NEW S, Permutes(f, S), NEW c \in S
  PROVE  \E A \in OrbitsOf(f, S) : c \in A
<1> DEFINE Held(X) == c \in X /\ ClosedUnder(f, X)
           A == {d \in S : \A X \in SUBSET S : Held(X) => d \in X}
<1>1. A \in SUBSET S /\ c \in A /\ A # {}
  OBVIOUS
<1>2. ClosedUnder(f, A)
  BY DEF ClosedUnder, Permutes
<1>3. OneOrbit(f, A)
  <2> SUFFICES ASSUME NEW part \in SUBSET A, part # {}, part # A, ClosedUnder(f, part) PROVE FALSE
    BY DEF OneOrbit
  <2>1. part \in SUBSET S
    BY <1>1
  <2>2. CASE c \in part
    <3>1. A \subseteq part
      BY <2>1, <2>2
    <3>2. QED
      BY <3>1
  <2>3. CASE c \notin part
    <3>1. ClosedUnder(f, S \ part)
      BY <2>1, ClosedBackward DEF ClosedUnder, Permutes
    <3>2. A \subseteq S \ part
      BY <2>3, <3>1
    <3>3. QED
      BY <3>2
  <2>4. QED
    BY <2>2, <2>3
<1> HIDE DEF A
<1>4. QED
  BY <1>1, <1>2, <1>3 DEF OrbitsOf

LEMMA OrbitsFinite ==
  ASSUME NEW f, NEW S, Permutes(f, S)
  PROVE  IsFiniteSet(OrbitsOf(f, S))
<1>1. IsFiniteSet(SUBSET S)
  BY FS_SUBSET DEF Permutes
<1>2. OrbitsOf(f, S) \in SUBSET (SUBSET S)
  BY DEF OrbitsOf
<1>3. QED
  BY <1>1, <1>2, FS_Subset

(***************************************************************************)
(* A permutation with two of its values exchanged: two orbits become one,  *)
(* or one becomes two, so that their number changes by one.                *)
(***************************************************************************)
Exchanged(f, S, a, c) ==
  [d \in S |-> IF f[d] = a THEN c ELSE IF f[d] = c THEN a ELSE f[d]]

LEMMA ExchangePermutes ==
  ASSUME NEW f, NEW S, Permutes(f, S), NEW a \in S, NEW c \in S
  PROVE  /\ Permutes(Exchanged(f, S, a, c), S)
         /\ Exchanged(Exchanged(f, S, a, c), S, a, c) = f
<1> DEFINE g == Exchanged(f, S, a, c)
<1>1. g \in [S -> S] /\ \A d \in S : g[d] = IF f[d] = a THEN c ELSE IF f[d] = c THEN a ELSE f[d]
  BY DEF Exchanged, Permutes
<1> HIDE DEF g
<1>2. Permutes(g, S)
  BY <1>1 DEF Permutes
<1>3. Exchanged(g, S, a, c) = [d \in S |-> f[d]]
  BY <1>1 DEF Exchanged
<1>4. f = [d \in S |-> f[d]]
  BY DEF Permutes
<1>5. QED
  BY <1>2, <1>3, <1>4 DEF g

(* A part that holds both values, or neither, is closed under both. *)
LEMMA ExchangeWithin ==
  ASSUME NEW f, NEW S, Permutes(f, S), NEW a \in S, NEW c \in S,
         NEW X \in SUBSET S, a \in X <=> c \in X
  PROVE  ClosedUnder(f, X) <=> ClosedUnder(Exchanged(f, S, a, c), X)
BY DEF ClosedUnder, Exchanged, Permutes

(* Two orbits become one. *)
LEMMA ExchangeMerges ==
  ASSUME NEW f, NEW S, Permutes(f, S), NEW A \in OrbitsOf(f, S), NEW B \in OrbitsOf(f, S), A # B,
         NEW a \in A, NEW c \in B
  PROVE  OrbitsOf(Exchanged(f, S, a, c), S) = (OrbitsOf(f, S) \ {A, B}) \cup {A \cup B}
<1> DEFINE g == Exchanged(f, S, a, c)
<1>1. /\ A \in SUBSET S /\ B \in SUBSET S /\ a \in S /\ c \in S
      /\ A \cap B = {} /\ a \notin B /\ c \notin A
  BY OrbitsApart DEF OrbitsOf
<1>2. \A d \in S : /\ f[d] # a /\ f[d] # c => g[d] = f[d]
                   /\ f[d] = a => g[d] = c
                   /\ f[d] = c => g[d] = a
  BY <1>1 DEF Exchanged
<1>3. \A X \in SUBSET S : (a \in X <=> c \in X) => (ClosedUnder(f, X) <=> ClosedUnder(g, X))
  BY <1>1, ExchangeWithin
<1> HIDE DEF g
<1>4. /\ A # {} /\ ClosedUnder(f, A) /\ OneOrbit(f, A)
      /\ B # {} /\ ClosedUnder(f, B) /\ OneOrbit(f, B)
  BY DEF OrbitsOf
<1>5. A \cup B \in OrbitsOf(g, S)
  <2>1. ClosedUnder(f, A \cup B)
    BY <1>4 DEF ClosedUnder
  <2>2. ClosedUnder(g, A \cup B)
    BY <1>1, <1>3, <2>1
  <2>3. ASSUME NEW X \in SUBSET (A \cup B), X # {}, ClosedUnder(g, X) PROVE X = A \cup B
    <3>0. X \in SUBSET S
      BY <1>1
    <3>1. ASSUME a \in X, c \notin X PROVE FALSE
      <4>1. ClosedUnder(f, X \cap A)
        <5> SUFFICES ASSUME NEW d \in X \cap A PROVE f[d] \in X \cap A
          BY DEF ClosedUnder
        <5>1. f[d] \in A /\ d \in S /\ g[d] \in X
          BY <1>1, <1>4, <2>3 DEF ClosedUnder
        <5>2. QED
          BY <1>1, <1>2, <3>1, <5>1
      <4>2. X \cap A = A
        BY <1>4, <3>1, <4>1 DEF OneOrbit
      <4>3. PICK u \in A : f[u] = a
        BY <1>1, <1>4, PermutesOnto
      <4>4. QED
        BY <1>1, <1>2, <2>3, <3>1, <4>2, <4>3 DEF ClosedUnder
    <3>2. ASSUME c \in X, a \notin X PROVE FALSE
      <4>1. ClosedUnder(f, X \cap B)
        <5> SUFFICES ASSUME NEW d \in X \cap B PROVE f[d] \in X \cap B
          BY DEF ClosedUnder
        <5>1. f[d] \in B /\ d \in S /\ g[d] \in X
          BY <1>1, <1>4, <2>3 DEF ClosedUnder
        <5>2. QED
          BY <1>1, <1>2, <3>2, <5>1
      <4>2. X \cap B = B
        BY <1>4, <3>2, <4>1 DEF OneOrbit
      <4>3. PICK u \in B : f[u] = c
        BY <1>1, <1>4, PermutesOnto
      <4>4. QED
        BY <1>1, <1>2, <2>3, <3>2, <4>2, <4>3 DEF ClosedUnder
    <3>3. ClosedUnder(f, X)
      BY <1>3, <2>3, <3>0, <3>1, <3>2
    <3>4. ClosedUnder(f, X \cap A) /\ ClosedUnder(f, X \cap B)
      BY <1>4, <3>3 DEF ClosedUnder
    <3>5. X \cap A \in {{}, A} /\ X \cap B \in {{}, B}
      BY <1>4, <3>4 DEF OneOrbit
    <3>6. QED
      BY <2>3, <3>1, <3>2, <3>5
  <2>4. QED
    BY <1>1, <1>4, <2>2, <2>3 DEF OrbitsOf, OneOrbit
<1>6. ASSUME NEW C \in SUBSET S, a \notin C, c \notin C
      PROVE  C \in OrbitsOf(f, S) <=> C \in OrbitsOf(g, S)
  <2>1. \A X \in SUBSET C : ClosedUnder(f, X) <=> ClosedUnder(g, X)
    BY <1>3, <1>6
  <2>2. QED
    BY <2>1 DEF OrbitsOf, OneOrbit
<1>7. ASSUME NEW C \in OrbitsOf(f, S), C # A, C # B PROVE C \in OrbitsOf(g, S)
  <2>1. a \notin C /\ c \notin C /\ C \in SUBSET S
    BY <1>7, OrbitsApart DEF OrbitsOf
  <2>2. QED
    BY <1>6, <2>1
<1>8. ASSUME NEW C \in OrbitsOf(g, S), C # A \cup B PROVE C \in OrbitsOf(f, S) \ {A, B}
  <2>1. C \in SUBSET S
    BY DEF OrbitsOf
  <2>3. C \cap (A \cup B) = {}
    BY <1>5, <1>8, OrbitsApart
  <2>4. a \notin C /\ c \notin C
    BY <2>3
  <2>5. C \in OrbitsOf(f, S)
    BY <1>6, <2>1, <2>4
  <2>6. QED
    BY <2>4, <2>5
<1>9. QED
  BY <1>5, <1>7, <1>8 DEF g

(* One orbit becomes two. *)
LEMMA ExchangeSplits ==
  ASSUME NEW f, NEW S, Permutes(f, S), NEW A \in OrbitsOf(f, S), NEW a \in A, NEW c \in A, a # c,
         NEW D \in OrbitsOf(Exchanged(f, S, a, c), S), a \in D
  PROVE  c \notin D
<1> SUFFICES ASSUME c \in D PROVE FALSE
  OBVIOUS
<1> DEFINE g == Exchanged(f, S, a, c)
           Leads(X) == a \in X /\ \A d \in X : f[d] \in X \/ f[d] = c
           M == {d \in S : \A X \in SUBSET S : Leads(X) => d \in X}
<1>1. A \in SUBSET S /\ D \in SUBSET S /\ a \in S /\ c \in S /\ \A d \in S : f[d] \in S
  BY DEF OrbitsOf, Permutes
<1>2. \A d \in S : /\ f[d] # a /\ f[d] # c => g[d] = f[d]
                   /\ f[d] = c => g[d] = a
  BY <1>1 DEF Exchanged
<1>3. M \in SUBSET S /\ Leads(M)
  BY <1>1
<1>4. \A X \in SUBSET S : Leads(X) => M \subseteq X
  OBVIOUS
<1>5. c \notin M
  <2>1. Leads(S \ {c})
    BY <1>1
  <2>2. QED
    BY <1>4, <2>1
<1>6. ASSUME NEW m \in M, m # a PROVE \E d \in M : f[d] = m
  <2> SUFFICES ASSUME \A d \in M : f[d] # m PROVE FALSE
    OBVIOUS
  <2>1. Leads(M \ {m})
    BY <1>3, <1>6
  <2>2. QED
    BY <1>3, <1>4, <2>1
<1>7. a \in M /\ \A d \in M : f[d] \in M \/ f[d] = c
  BY <1>3
<1>8. IsFiniteSet(M)
  BY <1>3, FS_Subset DEF Permutes
<1> HIDE DEF M, g
<1>9. CASE \E w \in M : f[w] = c
  <2>1. \A u \in M : f[u] # a
    <3> SUFFICES ASSUME NEW u \in M, f[u] = a PROVE FALSE
      OBVIOUS
    <3> DEFINE onto == [d \in M |-> f[d]]
    <3>1. \A d \in M : f[d] \in M \cup {c}
      BY <1>7
    <3>2. \A m \in M \cup {c} : \E d \in M : f[d] = m
      BY <1>6, <1>9
    <3>3. onto \in Surjection(M, M \cup {c})
      BY <3>1, <3>2 DEF Surjection
    <3> HIDE DEF onto
    <3>4. Cardinality(M \cup {c}) <= Cardinality(M)
      BY <1>8, <3>3, FS_Surjection
    <3>5. Cardinality(M \cup {c}) = Cardinality(M) + 1 /\ Cardinality(M) \in Nat
      BY <1>5, <1>8, FS_AddElement, FS_CardinalityType
    <3>6. QED
      BY <3>4, <3>5
  <2>2. \A d \in M : g[d] \in M
    BY <1>2, <1>3, <1>7, <2>1
  <2>3. ClosedUnder(g, M \cap D)
    BY <2>2 DEF OrbitsOf, ClosedUnder, g
  <2>4. M \cap D = D
    BY <1>7, <2>3 DEF OrbitsOf, OneOrbit, g
  <2>5. QED
    BY <1>5, <2>4
<1>10. CASE \A w \in M : f[w] # c
  <2>1. ClosedUnder(f, M \cap A)
    BY <1>7, <1>10 DEF OrbitsOf, ClosedUnder
  <2>2. M \cap A = A
    BY <1>7, <2>1 DEF OrbitsOf, OneOrbit
  <2>3. QED
    BY <1>5, <2>2
<1>11. QED
  BY <1>9, <1>10

(* Either way the number of orbits changes by one. *)
LEMMA ExchangeCounts ==
  ASSUME NEW f, NEW S, Permutes(f, S), NEW a \in S, NEW c \in S, a # c
  PROVE  /\ IsFiniteSet(OrbitsOf(f, S)) /\ IsFiniteSet(OrbitsOf(Exchanged(f, S, a, c), S))
         /\ \/ Cardinality(OrbitsOf(Exchanged(f, S, a, c), S)) = Cardinality(OrbitsOf(f, S)) - 1
            \/ Cardinality(OrbitsOf(f, S)) = Cardinality(OrbitsOf(Exchanged(f, S, a, c), S)) - 1
<1>1. ASSUME NEW h, Permutes(h, S), NEW A \in OrbitsOf(h, S),
             NEW B \in OrbitsOf(h, S), A # B, a \in A, c \in B
      PROVE  Cardinality(OrbitsOf(Exchanged(h, S, a, c), S)) = Cardinality(OrbitsOf(h, S)) - 1
  <2> DEFINE P == OrbitsOf(h, S)
             Q == OrbitsOf(Exchanged(h, S, a, c), S)
  <2>1. Q = (P \ {A, B}) \cup {A \cup B}
    BY <1>1, ExchangeMerges
  <2>2. IsFiniteSet(P)
    BY <1>1, OrbitsFinite
  <2>3. A \cup B \notin P
    <3>1. A \cap B = {} /\ A # {} /\ B # {}
      BY <1>1, OrbitsApart DEF OrbitsOf
    <3>2. A \cap (A \cup B) # {} /\ A # A \cup B
      BY <3>1
    <3>3. QED
      BY <1>1, <3>2, OrbitsApart
  <2> HIDE DEF P, Q
  <2>4. A \in P /\ B \in P
    BY <1>1 DEF P
  <2>5. IsFiniteSet(P \ {A}) /\ Cardinality(P \ {A}) = Cardinality(P) - 1
    BY <2>2, <2>4, FS_RemoveElement
  <2>6. IsFiniteSet((P \ {A}) \ {B}) /\ Cardinality((P \ {A}) \ {B}) = Cardinality(P) - 1 - 1
    <3> DEFINE R == P \ {A}
    <3>1. B \in R /\ IsFiniteSet(R) /\ Cardinality(R) = Cardinality(P) - 1
      BY <1>1, <2>4, <2>5
    <3> HIDE DEF R
    <3>2. IsFiniteSet(R \ {B}) /\ Cardinality(R \ {B}) = Cardinality(R) - 1
      BY <3>1, FS_RemoveElement
    <3>3. QED
      BY <3>1, <3>2 DEF R
  <2>7. P \ {A, B} = (P \ {A}) \ {B}
    OBVIOUS
  <2>8. Cardinality(Q) = Cardinality(P) - 1 - 1 + 1
    BY <2>1, <2>3, <2>6, <2>7, FS_AddElement
  <2>9. Cardinality(P) \in Nat
    BY <2>2, FS_CardinalityType
  <2>10. QED
    BY <2>8, <2>9 DEF P, Q
<1> DEFINE g == Exchanged(f, S, a, c)
<1>2. Permutes(g, S) /\ Exchanged(g, S, a, c) = f
  BY ExchangePermutes
<1>3. \A h : Permutes(h, S) => IsFiniteSet(OrbitsOf(h, S))
  BY OrbitsFinite
<1>4. PICK A \in OrbitsOf(f, S) : a \in A
  BY OrbitThrough
<1>5. PICK B \in OrbitsOf(f, S) : c \in B
  BY OrbitThrough
<1>6. CASE A # B
  BY <1>1, <1>2, <1>3, <1>4, <1>5, <1>6
<1>7. CASE A = B
  <2>1. PICK C \in OrbitsOf(g, S) : a \in C
    BY <1>2, OrbitThrough
  <2>2. PICK D \in OrbitsOf(g, S) : c \in D
    BY <1>2, OrbitThrough
  <2>3. c \notin C
    BY <1>4, <1>5, <1>7, <2>1, ExchangeSplits
  <2> HIDE DEF g
  <2>4. Cardinality(OrbitsOf(f, S)) = Cardinality(OrbitsOf(g, S)) - 1
    BY <1>1, <1>2, <2>1, <2>2, <2>3
  <2>5. QED
    BY <1>2, <1>3, <2>4 DEF g
<1>8. QED
  BY <1>6, <1>7

(***************************************************************************)
(* Values that come in pairs, two with one key. Flipping a permutation at  *)
(* some keys exchanges the two values of each; one exchange after the      *)
(* other, the parity of the orbits changes with the number of keys.        *)
(***************************************************************************)
Paired(t, key, S) ==
  /\ t \in [S -> S]
  /\ \A c \in S : t[c] # c /\ t[t[c]] = c
  /\ \A c, d \in S : key[c] = key[d] <=> (d = c \/ d = t[c])

Flipped(f, t, key, S, T) == [c \in S |-> IF key[f[c]] \in T THEN t[f[c]] ELSE f[c]]

LEMMA FlippedPermutes ==
  ASSUME NEW f, NEW S, NEW t, NEW key, NEW T, Permutes(f, S), Paired(t, key, S)
  PROVE  /\ Permutes(Flipped(f, t, key, S, T), S)
         /\ \A c \in S : key[Flipped(f, t, key, S, T)[c]] = key[f[c]]
<1> DEFINE g == Flipped(f, t, key, S, T)
<1>1. /\ f \in [S -> S] /\ IsFiniteSet(S) /\ \A p, q \in S : f[p] = f[q] => p = q
      /\ \A c \in S : t[c] \in S /\ t[t[c]] = c /\ key[t[c]] = key[c]
  BY DEF Permutes, Paired
<1>2. \A c \in S : g[c] = IF key[f[c]] \in T THEN t[f[c]] ELSE f[c]
  BY DEF Flipped
<1>3. g \in [S -> S]
  BY <1>1 DEF Flipped
<1> HIDE DEF g
<1>4. \A c \in S : f[c] \in S /\ key[g[c]] = key[f[c]]
  BY <1>1, <1>2
<1>5. ASSUME NEW c \in S, NEW d \in S, g[c] = g[d] PROVE c = d
  <2>1. key[f[c]] = key[f[d]]
    BY <1>4, <1>5
  <2>2. f[c] = f[d]
    BY <1>1, <1>2, <1>4, <1>5, <2>1
  <2>3. QED
    BY <1>1, <2>2
<1>6. QED
  BY <1>1, <1>3, <1>4, <1>5 DEF Permutes, g

LEMMA FlipOneMore ==
  ASSUME NEW f, NEW S, NEW t, NEW key, NEW T, Permutes(f, S), Paired(t, key, S),
         NEW a \in S, key[a] \notin T
  PROVE  Flipped(f, t, key, S, T \cup {key[a]}) = Exchanged(Flipped(f, t, key, S, T), S, a, t[a])
<1> DEFINE g == Flipped(f, t, key, S, T)
           h == Flipped(f, t, key, S, T \cup {key[a]})
           x == Exchanged(g, S, a, t[a])
<1>1. /\ \A c \in S : f[c] \in S
      /\ t[a] \in S /\ t[a] # a /\ t[t[a]] = a
      /\ \A c \in S : t[c] \in S /\ t[t[c]] = c /\ key[t[c]] = key[c]
      /\ \A c \in S : key[c] = key[a] => c = a \/ c = t[a]
  BY DEF Permutes, Paired
<1>2. \A c \in S : g[c] = IF key[f[c]] \in T THEN t[f[c]] ELSE f[c]
  BY DEF Flipped
<1>3. \A c \in S : h[c] = IF key[f[c]] \in T \/ key[f[c]] = key[a] THEN t[f[c]] ELSE f[c]
  BY DEF Flipped
<1>4. \A c \in S : x[c] = IF g[c] = a THEN t[a] ELSE IF g[c] = t[a] THEN a ELSE g[c]
  BY DEF Exchanged
<1>5. h = [c \in S |-> h[c]] /\ x = [c \in S |-> x[c]]
  BY DEF Flipped, Exchanged
<1> HIDE DEF g, h, x
<1>6. ASSUME NEW c \in S PROVE h[c] = x[c]
  <2>1. CASE key[f[c]] = key[a]
    BY <1>1, <1>2, <1>3, <1>4, <2>1
  <2>2. CASE key[f[c]] # key[a]
    <3>1. g[c] # a /\ g[c] # t[a]
      BY <1>1, <1>2, <2>2
    <3>2. QED
      BY <1>2, <1>3, <1>4, <2>2, <3>1
  <2>3. QED
    BY <2>1, <2>2
<1>7. QED
  BY <1>5, <1>6 DEF h, x, g

LEMMA PairsFlip ==
  ASSUME NEW f, NEW S, NEW t, NEW key, Permutes(f, S), Paired(t, key, S),
         NEW T \in SUBSET {key[c] : c \in S}
  PROVE  /\ IsFiniteSet(T)
         /\ (Cardinality(OrbitsOf(Flipped(f, t, key, S, T), S)) + Cardinality(T)
               + Cardinality(OrbitsOf(f, S))) % 2 = 0
<1> DEFINE K == {key[c] : c \in S}
           orbits(U) == Cardinality(OrbitsOf(Flipped(f, t, key, S, U), S))
           before == Cardinality(OrbitsOf(f, S))
           done == {n \in Nat : \A U \in SUBSET K : IsFiniteSet(U) /\ Cardinality(U) = n
                                  => orbits(U) \in Nat /\ (orbits(U) + n + before) % 2 = 0}
<1>1. IsFiniteSet(K) /\ IsFiniteSet(S)
  <2>1. IsFiniteSet(S)
    BY DEF Permutes
  <2> DEFINE onto == [c \in S |-> key[c]]
  <2>2. onto \in Surjection(S, K)
    BY DEF Surjection
  <2> HIDE DEF onto, K
  <2>3. QED
    BY <2>1, <2>2, FS_Surjection
<1>2. \A U \in SUBSET K : IsFiniteSet(U) /\ Cardinality(U) \in Nat
  BY <1>1, FS_Subset, FS_CardinalityType
<1>3. ASSUME NEW h, Permutes(h, S) PROVE Cardinality(OrbitsOf(h, S)) \in Nat
  <2>1. IsFiniteSet(OrbitsOf(h, S))
    BY <1>3, OrbitsFinite
  <2>2. QED
    BY <2>1, FS_CardinalityType
<1>4. before \in Nat /\ \A U : orbits(U) \in Nat
  BY <1>3, FlippedPermutes
<1>5. orbits({}) = before
  <2>1. Flipped(f, t, key, S, {}) = f
    BY DEF Flipped, Permutes
  <2>2. QED
    BY <2>1
<1>6. ASSUME NEW U \in SUBSET K, NEW e \in U
      PROVE  orbits(U) = orbits(U \ {e}) - 1 \/ orbits(U \ {e}) = orbits(U) - 1
  <2>1. PICK a \in S : key[a] = e
    OBVIOUS
  <2>2. U = (U \ {e}) \cup {key[a]} /\ key[a] \notin U \ {e}
    BY <2>1
  <2>3. t[a] \in S /\ t[a] # a
    BY DEF Paired
  <2>4. Flipped(f, t, key, S, U) = Exchanged(Flipped(f, t, key, S, U \ {e}), S, a, t[a])
    BY <2>2, FlipOneMore
  <2>5. Permutes(Flipped(f, t, key, S, U \ {e}), S)
    BY FlippedPermutes
  <2>6. QED
    BY <2>3, <2>4, <2>5, ExchangeCounts
<1> HIDE DEF orbits, before, K
<1>7. 0 \in done
  <2>1. ASSUME NEW U \in SUBSET K, IsFiniteSet(U), Cardinality(U) = 0
        PROVE  orbits(U) \in Nat /\ (orbits(U) + 0 + before) % 2 = 0
    <3>1. U = {}
      BY <2>1, FS_EmptySet
    <3>2. QED
      BY <1>4, <1>5, <3>1
  <2>2. QED
    BY <2>1
<1>8. ASSUME NEW n \in Nat, n \in done PROVE n + 1 \in done
  <2>1. ASSUME NEW U \in SUBSET K, IsFiniteSet(U), Cardinality(U) = n + 1
        PROVE  orbits(U) \in Nat /\ (orbits(U) + (n + 1) + before) % 2 = 0
    <3>1. PICK e \in U : TRUE
      BY <2>1, FS_EmptySet
    <3>2. U \ {e} \in SUBSET K /\ IsFiniteSet(U \ {e}) /\ Cardinality(U \ {e}) = n
      BY <2>1, FS_RemoveElement
    <3>3. (orbits(U \ {e}) + n + before) % 2 = 0
      BY <1>8, <3>2
    <3>4. orbits(U) = orbits(U \ {e}) - 1 \/ orbits(U \ {e}) = orbits(U) - 1
      BY <1>6
    <3>5. QED
      BY <1>4, <3>3, <3>4
  <2>2. QED
    BY <2>1
<1> HIDE DEF done
<1>9. Nat \subseteq done
  BY <1>7, <1>8, Counting
<1>10. T \in SUBSET K
  BY DEF K
<1>11. Cardinality(T) \in done
  BY <1>2, <1>9, <1>10
<1>12. (orbits(T) + Cardinality(T) + before) % 2 = 0
  BY <1>2, <1>10, <1>11 DEF done
<1>13. QED
  BY <1>2, <1>10, <1>12 DEF orbits, before

LEMMA SameSizeBack ==
  ASSUME NEW S, NEW T, IsFiniteSet(T), NEW f \in [S -> T],
         \A p, q \in S : f[p] = f[q] => p = q,
         \A t \in T : \E p \in S : f[p] = t
  PROVE  IsFiniteSet(S) /\ Cardinality(S) = Cardinality(T)
<1> DEFINE g == [t \in T |-> CHOOSE p \in S : f[p] = t]
<1>1. \A t \in T : g[t] \in S /\ f[g[t]] = t
  OBVIOUS
<1>2. g \in [T -> S]
  BY <1>1
<1> HIDE DEF g
<1>3. \A t, u \in T : g[t] = g[u] => t = u
  BY <1>1
<1>4. \A p \in S : \E t \in T : g[t] = p
  <2> SUFFICES ASSUME NEW p \in S PROVE g[f[p]] = p /\ f[p] \in T
    OBVIOUS
  <2>1. f[p] \in T
    OBVIOUS
  <2>2. QED
    BY <1>1, <2>1
<1>5. QED
  BY <1>2, <1>3, <1>4, SameSize

(***************************************************************************)
(* Going back place by place one meets every place of a loop.              *)
(***************************************************************************)
LEMMA PlacesAround ==
  ASSUME NEW R, NEW ces \in Seq(R), NEW J \in SUBSET DOMAIN ces, J # {},
         \A j \in J : Before(ces, j) \in J
  PROVE  J = DOMAIN ces
<1> DEFINE n == Len(ces)
<1>1. n \in Nat /\ DOMAIN ces = 1..n
  OBVIOUS
<1> HIDE DEF n
<1>2. \A j \in J : IF j = 1 THEN n \in J ELSE j - 1 \in J
  BY DEF Before, n
<1>3. PICK least \in J : \A k \in J : least <= k
  BY <1>1, LeastNumber
<1>4. least = 1
  <2> SUFFICES ASSUME least # 1 PROVE FALSE
    OBVIOUS
  <2>1. least - 1 \in J /\ least \in 1..n
    BY <1>1, <1>2
  <2>2. QED
    BY <1>3, <2>1
<1>5. n \in J
  BY <1>2, <1>4
<1> SUFFICES ASSUME J # DOMAIN ces PROVE FALSE
  OBVIOUS
<1> DEFINE gaps == {n - k : k \in (1..n) \ J}
<1>6. gaps \subseteq Nat /\ gaps # {}
  <2>1. PICK k \in 1..n : k \notin J
    BY <1>1
  <2>2. n - k \in gaps
    BY <2>1
  <2>3. \A m \in 1..n : n - m \in Nat
    BY <1>1
  <2>4. QED
    BY <2>2, <2>3
<1>7. PICK gap \in gaps : \A k \in gaps : gap <= k
  <2> HIDE DEF gaps
  <2>1. QED
    BY <1>6, LeastNumber
<1>8. PICK k \in (1..n) \ J : gap = n - k
  OBVIOUS
<1>9. k \in 1..n /\ k # n /\ k + 1 \in 1..n
  BY <1>1, <1>5
<1>10. k + 1 \in J
  <2> SUFFICES ASSUME k + 1 \notin J PROVE FALSE
    OBVIOUS
  <2>1. n - (k + 1) \in gaps
    BY <1>9
  <2> HIDE DEF gaps
  <2>2. gap <= n - (k + 1)
    BY <1>7, <2>1
  <2>3. QED
    BY <1>1, <1>8, <1>9, <2>2
<1>11. k + 1 # 1 /\ (k + 1) - 1 = k
  BY <1>1, <1>9
<1>12. k \in J
  BY <1>2, <1>10, <1>11
<1>13. QED
  BY <1>8, <1>12

(***************************************************************************)
(* The coedges of a solid that are not at a pole. Going back along the     *)
(* loops (pv_loop) and turning about the vertices (nxt_of) permute them,   *)
(* and turning is going back followed by the exchange of the two coedges   *)
(* of every edge.                                                          *)
(***************************************************************************)
Sides(x) == {c \in Handles(x.ces) : ~Degenerate(x, c)}
BackAlong(x) == [c \in Sides(x) |-> Prev(x, c)]
Across(x)    == [c \in Sides(x) |-> Twin(x, c)]
EdgeUsed(x)  == [c \in Sides(x) |-> Coedge(x, c).edge]
Turned(x)    == [c \in Sides(x) |-> Turn(x)[c]]
EdgesUsed(x) == {EdgeUsed(x)[c] : c \in Sides(x)}

LEMMA SidesOfSolid ==
  ASSUME NEW x, Settled(x)
  PROVE  /\ Permutes(BackAlong(x), Sides(x))
         /\ Paired(Across(x), EdgeUsed(x), Sides(x))
         /\ Turned(x) = Flipped(BackAlong(x), Across(x), EdgeUsed(x), Sides(x), EdgesUsed(x))
<1> DEFINE S == Sides(x)
           H == Handles(x.ces)
<1>1. S \in SUBSET H /\ IsFiniteSet(S)
  <2>1. IsFiniteSet(H)
    BY CoedgesFinite DEF Settled
  <2>2. S \in SUBSET H
    BY DEF Sides
  <2>3. QED
    BY <2>1, <2>2, FS_Subset
<1>2. ASSUME NEW c \in S
      PROVE  Prev(x, c) \in S /\ \A d \in S : Prev(x, c) = Prev(x, d) => c = d
  BY PrevOfSolid DEF Sides
<1>3. Permutes(BackAlong(x), S)
  <2>1. BackAlong(x) \in [S -> S] /\ \A c \in S : BackAlong(x)[c] = Prev(x, c)
    BY <1>2 DEF BackAlong
  <2>2. QED
    BY <1>1, <1>2, <2>1 DEF Permutes
<1>4. ASSUME NEW c \in S
      PROVE  /\ Twin(x, c) \in S /\ Twin(x, c) # c /\ Twin(x, Twin(x, c)) = c
             /\ \A d \in S : Coedge(x, c).edge = Coedge(x, d).edge <=> (d = c \/ d = Twin(x, c))
  <2>1. c \in H /\ ~Degenerate(x, c)
    BY DEF Sides
  <2>2. /\ Twin(x, c) \in H /\ Twin(x, Twin(x, c)) = c
        /\ Uses(x, Coedge(x, c).edge) = {c, Twin(x, c)}
        /\ Coedge(x, Twin(x, c)).edge = Coedge(x, c).edge
        /\ Coedge(x, Twin(x, c)).fwd = ~Coedge(x, c).fwd
    BY <2>1, TwinOfSolid
  <2>3. Coedge(x, c).fwd \in BOOLEAN
    BY <2>1, CoedgeAt DEF Settled
  <2>4. Twin(x, c) # c
    BY <2>2, <2>3
  <2>5. Twin(x, c) \in S
    BY <2>1, <2>2 DEF Sides, Degenerate, EdgeOf
  <2>6. \A d \in H : Coedge(x, d).edge = Coedge(x, c).edge <=> d \in {c, Twin(x, c)}
    BY <2>2 DEF Uses
  <2>7. QED
    BY <1>1, <2>2, <2>4, <2>5, <2>6
<1>5. /\ Across(x) \in [S -> S]
      /\ \A c \in S : Across(x)[c] = Twin(x, c) /\ EdgeUsed(x)[c] = Coedge(x, c).edge
  BY <1>4 DEF Across, EdgeUsed
<1>6. Paired(Across(x), EdgeUsed(x), S)
  BY <1>4, <1>5 DEF Paired
<1>7. ASSUME NEW c \in S
      PROVE  Turn(x)[c] = IF EdgeUsed(x)[BackAlong(x)[c]] \in EdgesUsed(x)
                          THEN Across(x)[BackAlong(x)[c]] ELSE BackAlong(x)[c]
  <2>1. BackAlong(x)[c] = Prev(x, c) /\ Prev(x, c) \in S
    BY <1>2 DEF BackAlong
  <2>2. EdgeUsed(x)[Prev(x, c)] \in EdgesUsed(x)
    BY <2>1 DEF EdgesUsed
  <2>3. Turn(x)[c] = Twin(x, Prev(x, c))
    BY <1>1, TurnOfSolid
  <2>4. QED
    BY <1>5, <2>1, <2>2, <2>3
<1>8. Turned(x) = Flipped(BackAlong(x), Across(x), EdgeUsed(x), S, EdgesUsed(x))
  BY <1>7 DEF Turned, Flipped
<1>9. QED
  BY <1>3, <1>6, <1>8

(***************************************************************************)
(* Every edge away from the poles has its pair of coedges (use_rule_ok).   *)
(***************************************************************************)
LEMMA EdgesCounted ==
  ASSUME NEW x, Settled(x)
  PROVE  Cardinality({i \in DOMAIN x.es : ~x.es[i].degenerate}) = Cardinality(EdgesUsed(x))
<1> DEFINE D == {i \in DOMAIN x.es : ~x.es[i].degenerate}
           f == [i \in D |-> Handle(x.es, i)]
           R == [gen : Nat, v0 : HandleShape, v1 : HandleShape, degenerate : BOOLEAN]
<1>1. IsFiniteSet(D)
  <2>1. x.es \in Seq(R)
    BY DEF Settled, Shaped
  <2> HIDE DEF R
  <2>2. IsFiniteSet(DOMAIN x.es)
    BY <2>1, PlacesFinite
  <2>3. QED
    BY <2>2, FS_Subset
<1>2. \A i \in DOMAIN x.es : Handle(x.es, i).i = i /\ At(x.es, Handle(x.es, i)) = x.es[i]
  BY DEF Handle, At
<1>3. ASSUME NEW i \in D PROVE Handle(x.es, i) \in EdgesUsed(x)
  <2> DEFINE e == Handle(x.es, i)
  <2>1. e \in Handles(x.es)
    BY DEF Handles
  <2>2. Cardinality(Uses(x, e)) = 2
    BY <2>1 DEF Settled, EdgesPaired, TwiceOpposite
  <2>3. Uses(x, e) # {}
    BY <2>2, FS_EmptySet
  <2>4. PICK c \in Handles(x.ces) : Coedge(x, c).edge = e
    BY <2>3 DEF Uses
  <2>5. EdgeOf(x, c) = x.es[i]
    BY <1>2, <2>4 DEF EdgeOf
  <2>6. c \in Sides(x)
    BY <2>5 DEF Sides, Degenerate
  <2>7. QED
    BY <2>4, <2>6 DEF EdgesUsed, EdgeUsed
<1>4. ASSUME NEW e \in EdgesUsed(x) PROVE \E i \in D : f[i] = e
  <2>1. PICK c \in Sides(x) : e = Coedge(x, c).edge
    BY DEF EdgesUsed, EdgeUsed
  <2>2. e \in Handles(x.es)
    BY <2>1, CoedgeAt DEF Settled, Sides
  <2>3. PICK i \in DOMAIN x.es : e = Handle(x.es, i)
    BY <2>2 DEF Handles
  <2>4. EdgeOf(x, c) = x.es[i]
    BY <1>2, <2>1, <2>3 DEF EdgeOf
  <2>5. i \in D
    BY <2>1, <2>4 DEF Sides, Degenerate
  <2>6. QED
    BY <2>3, <2>5
<1>5. f \in [D -> EdgesUsed(x)]
  BY <1>3
<1>6. \A p, q \in D : f[p] = f[q] => p = q
  BY <1>2
<1> HIDE DEF f
<1>7. QED
  BY <1>1, <1>4, <1>5, <1>6, SameSize

(***************************************************************************)
(* A loop away from the poles is an orbit of going back along it, and      *)
(* every orbit is the coedges of one loop.                                 *)
(***************************************************************************)
LEMMA LoopIsOrbit ==
  ASSUME NEW x, Settled(x), NEW l \in DOMAIN x.lps,
         \E c \in Range(x.lps[l].ces) : ~Degenerate(x, c)
  PROVE  Range(x.lps[l].ces) \in OrbitsOf(BackAlong(x), Sides(x))
<1> DEFINE ces == x.lps[l].ces
           A   == Range(x.lps[l].ces)
<1>0. Shaped(x) /\ Incident(x) /\ LoopsClosed(x) /\ Covered(x)
  BY DEF Settled
<1>1. /\ ces \in Seq(HandleShape)
      /\ \A j, k \in DOMAIN ces : ces[j] = ces[k] => j = k
      /\ \A j \in DOMAIN ces : ces[j] \in Handles(x.ces)
  BY <1>0, LoopAt DEF IsInjective
<1>2. \A j \in DOMAIN ces : Prev(x, ces[j]) = ces[Before(ces, j)]
  BY <1>0, PrevAt
<1>3. Len(ces) = 1 \/ \A j \in DOMAIN ces : ~Degenerate(x, ces[j])
  BY <1>0 DEF LoopsClosed, PoleAlone
<1>4. A = {ces[j] : j \in DOMAIN ces}
  BY DEF Range
<1> HIDE DEF ces, A
<1>5. PICK i \in DOMAIN ces : ~Degenerate(x, ces[i])
  BY <1>4 DEF A
<1>6. \A j \in DOMAIN ces : ces[j] \in Sides(x)
  <2>1. DOMAIN ces = 1..Len(ces) /\ Len(ces) \in Nat
    BY <1>1
  <2>2. \A j \in DOMAIN ces : ~Degenerate(x, ces[j])
    BY <1>3, <1>5, <2>1
  <2>3. QED
    BY <1>1, <2>2 DEF Sides
<1>7. \A j \in DOMAIN ces : Before(ces, j) \in DOMAIN ces
  BY <1>1, AroundLoop
<1>8. \A j \in DOMAIN ces : BackAlong(x)[ces[j]] = ces[Before(ces, j)]
  BY <1>2, <1>6 DEF BackAlong
<1>9. A \in SUBSET Sides(x) /\ A # {} /\ ClosedUnder(BackAlong(x), A)
  BY <1>4, <1>5, <1>6, <1>7, <1>8 DEF ClosedUnder
<1>10. ASSUME NEW part \in SUBSET A, part # {}, ClosedUnder(BackAlong(x), part) PROVE part = A
  <2> DEFINE J == {j \in DOMAIN ces : ces[j] \in part}
  <2>1. J \in SUBSET DOMAIN ces /\ J # {}
    BY <1>4, <1>10
  <2>2. \A j \in J : Before(ces, j) \in J
    BY <1>7, <1>8, <1>10 DEF ClosedUnder
  <2> HIDE DEF J
  <2>3. J = DOMAIN ces
    BY <1>1, <2>1, <2>2, PlacesAround
  <2>4. QED
    BY <1>4, <2>3 DEF J
<1>11. A \in OrbitsOf(BackAlong(x), Sides(x))
  BY <1>9, <1>10 DEF OrbitsOf, OneOrbit
<1>12. QED
  BY <1>11 DEF A

LEMMA LoopsCounted ==
  ASSUME NEW x, Settled(x)
  PROVE  Cardinality({l \in DOMAIN x.lps : \E c \in Range(x.lps[l].ces) : ~Degenerate(x, c)})
           = Cardinality(OrbitsOf(BackAlong(x), Sides(x)))
<1> DEFINE L == {l \in DOMAIN x.lps : \E c \in Range(x.lps[l].ces) : ~Degenerate(x, c)}
           T == OrbitsOf(BackAlong(x), Sides(x))
           f == [l \in L |-> Range(x.lps[l].ces)]
<1>0. Shaped(x) /\ Incident(x) /\ LoopsClosed(x) /\ Covered(x)
  BY DEF Settled
<1>1. \A l \in L : l \in DOMAIN x.lps /\ f[l] = Range(x.lps[l].ces) /\ f[l] \in T /\ f[l] # {}
  BY LoopIsOrbit DEF OrbitsOf
<1>2. f \in [L -> T]
  BY <1>1
<1>3. \A l \in DOMAIN x.lps : \A c \in Range(x.lps[l].ces) : LoopsWith(x, c) = {l}
  <2> SUFFICES ASSUME NEW l \in DOMAIN x.lps, NEW j \in DOMAIN x.lps[l].ces
               PROVE  LoopsWith(x, x.lps[l].ces[j]) = {l}
    BY DEF Range
  <2>1. QED
    BY <1>0, PrevAt
<1>4. ASSUME NEW A \in T PROVE \E l \in L : f[l] = A
  <2>1. PICK c \in A : c \in Sides(x)
    BY DEF OrbitsOf
  <2>2. c \in Handles(x.ces) /\ ~Degenerate(x, c)
    BY <2>1 DEF Sides
  <2>3. PICK l \in DOMAIN x.lps : \E j \in DOMAIN x.lps[l].ces : x.lps[l].ces[j] = c
    BY <1>0, <2>2, PlaceOf
  <2>4. c \in Range(x.lps[l].ces)
    BY <2>3 DEF Range
  <2>5. l \in L
    BY <2>2, <2>4
  <2>6. f[l] \in T /\ c \in f[l]
    BY <1>1, <2>4, <2>5
  <2> HIDE DEF f
  <2>7. f[l] \cap A # {}
    BY <2>1, <2>6
  <2>8. f[l] = A
    BY <2>6, <2>7, OrbitsApart
  <2>9. QED
    BY <2>5, <2>8
<1>5. IsFiniteSet(T)
  BY SidesOfSolid, OrbitsFinite
<1> HIDE DEF f, L, T
<1>6. ASSUME NEW l \in L, NEW m \in L, f[l] = f[m] PROVE l = m
  <2>1. PICK c \in f[l] : TRUE
    BY <1>1
  <2>2. LoopsWith(x, c) = {l} /\ LoopsWith(x, c) = {m}
    BY <1>1, <1>3, <1>6, <2>1
  <2>3. QED
    BY <2>2
<1>7. Cardinality(L) = Cardinality(T)
  BY <1>2, <1>4, <1>5, <1>6, SameSizeBack
<1>8. QED
  BY <1>7 DEF L, T

(***************************************************************************)
(* The vertices with a corner are the orbits of turning about them, once   *)
(* every link is one cycle.                                                *)
(***************************************************************************)
LEMMA VerticesCounted ==
  ASSUME Settled(b), \A v \in Handles(b.vs) : LinkIsCycle(v)
  PROVE  Cardinality({v \in Handles(b.vs) : Corners(v) # {}})
           = Cardinality(OrbitsOf(Turned(b), Sides(b)))
<1> DEFINE V == {v \in Handles(b.vs) : Corners(v) # {}}
           T == OrbitsOf(Turned(b), Sides(b))
           f == [v \in V |-> Leaving(b, v)]
<1>1. ASSUME NEW A \in SUBSET Sides(b)
      PROVE  ClosedUnder(Turned(b), A) <=> ClosedUnder(Turn(b), A)
  BY DEF ClosedUnder, Turned
<1>2. ASSUME NEW v \in V PROVE Leaving(b, v) \in T /\ Leaving(b, v) # {}
  <2>1. Leaving(b, v) \in SUBSET Sides(b)
    BY DEF Leaving, Sides
  <2>2. Leaving(b, v) # {}
    BY CornersLeave
  <2>3. ClosedUnder(Turn(b), Leaving(b, v)) /\ OneOrbit(Turn(b), Leaving(b, v))
    BY LeavingOfSolid, LinkIsOneOrbit
  <2>4. ClosedUnder(Turned(b), Leaving(b, v)) /\ OneOrbit(Turned(b), Leaving(b, v))
    BY <1>1, <2>1, <2>3 DEF OneOrbit
  <2>5. QED
    BY <2>1, <2>2, <2>4 DEF OrbitsOf
<1>3. f \in [V -> T] /\ \A v \in V : f[v] = Leaving(b, v)
  BY <1>2
<1>4. ASSUME NEW A \in T PROVE \E v \in V : f[v] = A
  <2>1. PICK c \in A : c \in Sides(b)
    BY DEF OrbitsOf
  <2> DEFINE v == Start(b, c)
  <2>2. c \in Handles(b.ces) /\ c \in Leaving(b, v)
    BY <2>1 DEF Sides, Leaving
  <2>3. v \in Handles(b.vs)
    <3>1. Shaped(b) /\ Incident(b)
      BY DEF Settled
    <3>2. PICK i \in DOMAIN b.es : Coedge(b, c).edge = Handle(b.es, i)
      BY <2>2, <3>1, CoedgeAt DEF Handles
    <3>3. EdgeOf(b, c) = b.es[i]
      BY <3>2 DEF EdgeOf, At, Handle
    <3>4. b.es[i].v0 \in HandleShape /\ b.es[i].v1 \in HandleShape
      <4> DEFINE R == [gen : Nat, v0 : HandleShape, v1 : HandleShape, degenerate : BOOLEAN]
      <4>1. b.es \in Seq(R)
        BY <3>1 DEF Shaped
      <4> HIDE DEF R
      <4>2. b.es[i] \in R
        BY <4>1
      <4>3. QED
        BY <4>2 DEF R
    <3>5. b.es[i].v0 \in Handles(b.vs) /\ b.es[i].v1 \in Handles(b.vs)
      BY <3>1, <3>4, LiveHandles DEF Incident
    <3>6. QED
      BY <3>3, <3>5 DEF Start
  <2> HIDE DEF v
  <2>4. v \in V
    BY <2>2, <2>3, CornersLeave
  <2>5. f[v] \in T /\ c \in f[v]
    BY <1>3, <2>2, <2>4
  <2> HIDE DEF f
  <2>6. f[v] \cap A # {}
    BY <2>1, <2>5
  <2>7. f[v] = A
    BY <2>5, <2>6, OrbitsApart
  <2>8. QED
    BY <2>4, <2>7
<1>5. IsFiniteSet(T)
  <2>1. Permutes(Turned(b), Sides(b))
    BY SidesOfSolid, FlippedPermutes
  <2>2. QED
    BY <2>1, OrbitsFinite
<1>6. ASSUME NEW v \in V, NEW w \in V, f[v] = f[w] PROVE v = w
  <2>1. PICK c \in Leaving(b, v) : TRUE
    BY <1>2
  <2>2. c \in Leaving(b, w)
    BY <1>3, <1>6, <2>1
  <2>3. QED
    BY <2>1, <2>2 DEF Leaving
<1> HIDE DEF f, V, T
<1>7. Cardinality(V) = Cardinality(T)
  BY <1>3, <1>4, <1>5, <1>6, SameSizeBack
<1>8. QED
  BY <1>7 DEF V, T

-----------------------------------------------------------------------------
(***************************************************************************)
(* Type correctness: a check is exhausted only before its first stage and  *)
(* accepts only after its last (ck_done, ck_l).                            *)
(***************************************************************************)
THEOREM BrepTypes == Spec => []TypeOK
<1>1. Init => TypeOK
  BY StagesNamed DEF Init, TypeOK, StageNames
<1>2. TypeOK /\ [Next]_vars => TypeOK'
  <2> SUFFICES ASSUME TypeOK, [Next]_vars PROVE TypeOK'
    OBVIOUS
  <2>1. /\ Range(Stages)' = Range(Stages)
        /\ Range(Stages) = StageNames
    BY StagesNamed DEF Range, Stages
  <2>2. ASSUME NEW at \in StageNames, NEW ok, NEW failure \in {"invalid", "exhausted"},
               NEW next \in StageNames, Decide(at, ok, failure, next),
               failure = "exhausted" => at = "bound"
        PROVE  TypeOK'
    BY <2>1, <2>2 DEF TypeOK, Decide
  <2>3. CASE Orientation
    BY <2>1, <2>3 DEF TypeOK, Orientation, StageNames
  <2>4. CASE UNCHANGED vars
    BY <2>1, <2>4 DEF TypeOK, vars
  <2>5. CASE Bound
    BY <2>2, <2>5 DEF Bound, StageNames
  <2>6. CASE Assemble
    BY <2>2, <2>6 DEF Assemble, StageNames
  <2>7. CASE Incidence
    BY <2>2, <2>7 DEF Incidence, StageNames
  <2>8. CASE EdgeUses
    BY <2>2, <2>8 DEF EdgeUses, StageNames
  <2>9. CASE Loops
    BY <2>2, <2>9 DEF Loops, StageNames
  <2>10. CASE FaceKinds
    BY <2>2, <2>10 DEF FaceKinds, StageNames
  <2>11. CASE Ownership
    BY <2>2, <2>11 DEF Ownership, StageNames
  <2>12. CASE Embedding
    BY <2>2, <2>12 DEF Embedding, StageNames
  <2>13. CASE Links
    BY <2>2, <2>13 DEF Links, StageNames
  <2>14. CASE Connection
    BY <2>2, <2>14 DEF Connection, StageNames
  <2>15. CASE Coincidence
    BY <2>2, <2>15 DEF Coincidence, StageNames
  <2>16. CASE Crossings
    BY <2>2, <2>16 DEF Crossings, StageNames
  <2>17. QED
    BY <2>3, <2>4, <2>5, <2>6, <2>7, <2>8, <2>9, <2>10, <2>11, <2>12, <2>13, <2>14,
       <2>15, <2>16 DEF Next
<1>3. QED
  BY <1>1, <1>2, PTL DEF Spec

(***************************************************************************)
(* What the stages behind a check have established.                        *)
(***************************************************************************)
Established ==
  /\ b \in Bodies
  /\ stage \notin {"bound", "assemble", "incidence"} => Incident(b)
  /\ stage \notin {"bound", "assemble", "incidence", "uses"} => EdgesPaired(b, profile)
  /\ stage \notin {"bound", "assemble", "incidence", "uses", "loops"} => LoopsClosed(b)
  /\ stage \notin {"bound", "assemble"} => WellShaped(b)
  /\ stage \in {"embedding", "links", "connection"} => Owned(b, profile)
  /\ stage \in {"coincidence", "crossings", "orientation"} =>
       Owned(b, profile) /\ ShellsConnected(b)
  /\ stage = "connection" /\ result = "invalid" => ~ShellsConnected(b)
  /\ stage \in {"connection", "coincidence", "crossings", "orientation"} =>
       profile = "open" \/ VerticesLinked(b)
  /\ stage = "links" /\ result = "invalid" => profile # "open" /\ ~VerticesLinked(b)

LEMMA StagesEstablish == Spec => []Established
<1>1. Init => Established
  BY DEF Init, Established
<1>2. Established /\ [Next]_vars => Established'
  <2> SUFFICES ASSUME Established, [Next]_vars PROVE Established'
    OBVIOUS
  <2>1. ASSUME b' = b, profile' = profile
        PROVE  /\ Incident(b)' = Incident(b) /\ LoopsClosed(b)' = LoopsClosed(b)
               /\ EdgesPaired(b, profile)' = EdgesPaired(b, profile)
               /\ WellShaped(b)' = WellShaped(b) /\ Owned(b, profile)' = Owned(b, profile)
               /\ ShellsConnected(b)' = ShellsConnected(b)
               /\ VerticesLinked(b)' = VerticesLinked(b)
    BY <2>1
  <2>2. CASE Bound
    BY <2>1, <2>2 DEF Established, Bound, Decide
  <2>3. CASE Assemble
    BY <2>1, <2>3 DEF Established, Assemble, Assembles, Decide
  <2>4. CASE Incidence
    BY <2>1, <2>4 DEF Established, Incidence, Decide
  <2>5. CASE EdgeUses
    BY <2>1, <2>5 DEF Established, EdgeUses, Decide
  <2>6. CASE Loops
    BY <2>1, <2>6 DEF Established, Loops, Decide
  <2>7. CASE FaceKinds
    BY <2>1, <2>7 DEF Established, FaceKinds, Decide
  <2>8. CASE Ownership
    BY <2>1, <2>8 DEF Established, Ownership, Decide
  <2>9. CASE Embedding
    BY <2>1, <2>9 DEF Established, Embedding, Decide
  <2>10. CASE Links
    BY <2>1, <2>10 DEF Established, Links, Decide
  <2>11. CASE Connection
    BY <2>1, <2>11 DEF Established, Connection, Decide
  <2>12. CASE Coincidence
    BY <2>1, <2>12 DEF Established, Coincidence, Decide
  <2>13. CASE Crossings
    BY <2>1, <2>13 DEF Established, Crossings, Decide
  <2>14. CASE Orientation
    BY <2>1, <2>14 DEF Established, Orientation
  <2>15. CASE UNCHANGED vars
    BY <2>1, <2>15 DEF Established, vars
  <2>16. QED
    BY <2>2, <2>3, <2>4, <2>5, <2>6, <2>7, <2>8, <2>9,
       <2>10, <2>11, <2>12, <2>13, <2>14, <2>15 DEF Next
<1>3. QED
  BY <1>1, <1>2, PTL DEF Spec

(***************************************************************************)
(* The rim of an accepted open body closes up, for every body: pairing     *)
(* (use_rule_ok) and chaining (loop_chain_ok) leave no other rim.          *)
(***************************************************************************)
THEOREM OpenRimsClose == Spec => []RimCloses
<1>1. TypeOK /\ Established => RimCloses
  <2> SUFFICES ASSUME TypeOK, Established, result = "ok", profile = "open", Covered(b)
               PROVE  RimBalanced(b)
    BY DEF RimCloses
  <2>1. stage = "orientation"
    BY DEF TypeOK
  <2>2. Incident(b) /\ EdgesPaired(b, "open") /\ LoopsClosed(b)
    BY <2>1 DEF Established
  <2>3. Shaped(b)
    BY BodiesAssumption DEF Established
  <2>4. QED
    BY <2>2, <2>3, RimOfPaired
<1>2. QED
  BY <1>1, BrepTypes, StagesEstablish, PTL

LEMMA PastConnection == Past("connection") = {"coincidence", "crossings", "orientation"}
<1>1. /\ DOMAIN Stages = 1..13
      /\ \A k \in 1..13 : Stages[k] = "connection" <=> k = 10
      /\ Stages[11] = "coincidence" /\ Stages[12] = "crossings" /\ Stages[13] = "orientation"
  BY DEF Stages
<1>2. ASSUME NEW k \in 1..13 PROVE (\E j \in 1..(k - 1) : Stages[j] = "connection") <=> k >= 11
  BY <1>1
<1>3. {k \in DOMAIN Stages : \E j \in 1..(k - 1) : Stages[j] = "connection"} = {11, 12, 13}
  BY <1>1, <1>2
<1>4. Past("connection") = {Stages[i] : i \in {11, 12, 13}}
  BY <1>3, Zenon DEF Past
<1>5. QED
  BY <1>1, <1>4

(***************************************************************************)
(* The shell stage refuses exactly the bodies with a shell whose faces are *)
(* not in one piece across shared edges, for every body, although it joins *)
(* only neighbours in the sorted list of edges (ep_edges, sh_conn_ok).     *)
(***************************************************************************)
THEOREM ShellsDecided == Spec => []ShellVerdict
<1> DEFINE Verdict == ShellsConnected(b) <=> \A i \in DOMAIN b.shs : InOnePiece(b.shs[i].faces)
<1>1. ASSUME b \in Bodies, WellShaped(b), Owned(b, profile)
      PROVE  Verdict
  <2>1. ASSUME NEW i \in DOMAIN b.shs
        PROVE  ShellConnected(b, b.shs[i].faces) <=> InOnePiece(b.shs[i].faces)
    <3> DEFINE fs == b.shs[i].faces
               R  == [gen : Nat, faces : Seq(HandleShape), kind : {"outer", "inner", "open"}]
               lists == [k \in DOMAIN b.shs |-> b.shs[k].faces]
    <3>1. fs \in Seq(HandleShape)
      <4>1. b.shs \in Seq(R)
        BY <1>1, BodiesAssumption DEF Shaped
      <4> HIDE DEF R
      <4>2. b.shs[i] \in R
        BY <4>1
      <4>3. QED
        BY <4>2 DEF R
    <3>2. fs # <<>>
      BY <1>1 DEF WellShaped
    <3>3. IsInjective(fs)
      <4>1. ListedOnce(lists)
        BY <1>1, Zenon DEF Owned
      <4>2. lists[i] = fs /\ i \in DOMAIN lists
        OBVIOUS
      <4> HIDE DEF lists
      <4>3. \A j, n \in DOMAIN fs : fs[j] = fs[n] => j = n
        BY <4>1, <4>2 DEF ListedOnce
      <4>4. QED
        BY <4>3 DEF IsInjective
    <3> HIDE DEF fs
    <3>4. ShellConnected(b, fs) <=> Connected(b, fs)
      BY <3>1, <3>2, <3>3, ConnectedShell
    <3>5. QED
      BY <3>4, OnePieceOfShell DEF fs
  <2>2. QED
    BY <2>1 DEF ShellsConnected
<1>2. Established => ShellVerdict
  <2> SUFFICES ASSUME Established PROVE ShellVerdict
    OBVIOUS
  <2>1. CASE stage \in {"connection", "coincidence", "crossings", "orientation"}
    <3>1. b \in Bodies /\ WellShaped(b) /\ Owned(b, profile)
      BY <2>1 DEF Established
    <3>2. Verdict
      BY <1>1, <3>1
    <3>3. /\ stage \in {"coincidence", "crossings", "orientation"} => ShellsConnected(b)
          /\ stage = "connection" /\ result = "invalid" => ~ShellsConnected(b)
      BY DEF Established
    <3>4. QED
      BY <3>2, <3>3, PastConnection, Zenon DEF ShellVerdict
  <2>2. CASE stage \notin {"connection", "coincidence", "crossings", "orientation"}
    BY <2>2, PastConnection DEF ShellVerdict
  <2>3. QED
    BY <2>1, <2>2
<1>3. QED
  BY <1>2, StagesEstablish, PTL

LEMMA PastLinks ==
  Past("links") = {"connection", "coincidence", "crossings", "orientation"}
<1>1. /\ DOMAIN Stages = 1..13
      /\ \A k \in 1..13 : Stages[k] = "links" <=> k = 9
      /\ Stages[10] = "connection" /\ Stages[11] = "coincidence"
      /\ Stages[12] = "crossings" /\ Stages[13] = "orientation"
  BY DEF Stages
<1>2. ASSUME NEW k \in 1..13 PROVE (\E j \in 1..(k - 1) : Stages[j] = "links") <=> k >= 10
  BY <1>1
<1>3. {k \in DOMAIN Stages : \E j \in 1..(k - 1) : Stages[j] = "links"} = {10, 11, 12, 13}
  BY <1>1, <1>2
<1>4. Past("links") = {Stages[i] : i \in {10, 11, 12, 13}}
  BY <1>3, Zenon DEF Past
<1>5. QED
  BY <1>1, <1>4

(***************************************************************************)
(* What the vertex stage decides is the shape of the links, for every body *)
(* whose earlier stages passed.                                            *)
(***************************************************************************)
LEMMA LinksOfSolid ==
  ASSUME b \in Bodies, Incident(b), EdgesPaired(b, "solid"), LoopsClosed(b)
  PROVE  VerticesLinked(b) <=> LinksAreCycles
<1>1. CASE Covered(b)
  <2>1. Settled(b)
    BY <1>1, BodiesAssumption DEF Settled
  <2>2. VerticesLinked(b)
          <=> \A v \in Handles(b.vs) : Fan(b, v, Turn(b), Orbits(Turn(b)))
    BY <1>1, Zenon DEF VerticesLinked
  <2>3. \A v \in Handles(b.vs) : Fan(b, v, Turn(b), Orbits(Turn(b))) <=> LinkIsCycle(v)
    BY <2>1, FanIsOneOrbit, LinkIsOneOrbit
  <2>4. QED
    BY <1>1, <2>2, <2>3, Zenon DEF LinksAreCycles
<1>2. CASE ~Covered(b)
  BY <1>2, Zenon DEF VerticesLinked, LinksAreCycles
<1>3. QED
  BY <1>1, <1>2

(***************************************************************************)
(* The vertex stage refuses exactly the solids with a coedge that is not   *)
(* in one loop or a vertex whose link is not one cycle, for every body:    *)
(* the length of the orbit of one coedge, counted over a label found by    *)
(* pointer jumping (orb_of, vx_orbit_ok), decides the shape of the link.   *)
(***************************************************************************)
THEOREM LinksDecided == Spec => []LinkVerdict
<1>1. Established => LinkVerdict
  <2> SUFFICES ASSUME Established, profile = "solid" PROVE LinkVerdict
    BY DEF LinkVerdict
  <2>1. CASE stage \in {"links", "connection", "coincidence", "crossings", "orientation"}
    <3>1. b \in Bodies /\ Incident(b) /\ EdgesPaired(b, "solid") /\ LoopsClosed(b)
      BY <2>1 DEF Established
    <3>2. VerticesLinked(b) <=> LinksAreCycles
      BY <3>1, LinksOfSolid
    <3>3. /\ stage \in {"connection", "coincidence", "crossings", "orientation"} =>
               VerticesLinked(b)
          /\ stage = "links" /\ result = "invalid" => ~VerticesLinked(b)
      BY DEF Established
    <3>4. QED
      BY <3>2, <3>3, PastLinks, Zenon DEF LinkVerdict
  <2>2. CASE stage \notin {"links", "connection", "coincidence", "crossings", "orientation"}
    BY <2>2, PastLinks DEF LinkVerdict
  <2>3. QED
    BY <2>1, <2>2
<1>2. QED
  BY <1>1, StagesEstablish, PTL

(***************************************************************************)
(* The loops of an accepted solid, each capped by a disc, have an even     *)
(* number V - E + L, for every body, although no stage counts it: pairing  *)
(* (use_rule_ok), chaining (loop_chain_ok), coverage (cov_go) and links    *)
(* (vx_orbit_ok) give it together.                                         *)
(***************************************************************************)
THEOREM EulerIsEven == Spec => []EulerEven
<1>1. TypeOK /\ Established => EulerEven
  <2> DEFINE V == {x \in Handles(b.vs) : Corners(x) # {}}
             E == {i \in DOMAIN b.es : ~b.es[i].degenerate}
             L == {i \in DOMAIN b.lps : \E c \in Range(b.lps[i].ces) : ~Degenerate(b, c)}
  <2> SUFFICES ASSUME TypeOK, Established, result = "ok", profile = "solid"
               PROVE  (Cardinality(V) + Cardinality(E) + Cardinality(L)) % 2 = 0
    BY DEF EulerEven
  <2>1. stage = "orientation"
    BY DEF TypeOK
  <2>2. /\ b \in Bodies /\ Incident(b) /\ EdgesPaired(b, "solid") /\ LoopsClosed(b)
        /\ VerticesLinked(b)
    BY <2>1 DEF Established
  <2>3. LinksAreCycles
    BY <2>2, LinksOfSolid
  <2>4. Settled(b) /\ \A v \in Handles(b.vs) : LinkIsCycle(v)
    BY <2>2, <2>3, BodiesAssumption DEF Settled, LinksAreCycles
  <2>5. Cardinality(V) = Cardinality(OrbitsOf(Turned(b), Sides(b)))
    BY <2>4, VerticesCounted
  <2>6. Cardinality(E) = Cardinality(EdgesUsed(b))
    BY <2>4, EdgesCounted
  <2>7. Cardinality(L) = Cardinality(OrbitsOf(BackAlong(b), Sides(b)))
    BY <2>4, LoopsCounted
  <2>8. EdgesUsed(b) \in SUBSET {EdgeUsed(b)[c] : c \in Sides(b)}
    BY DEF EdgesUsed
  <2>9. (Cardinality(OrbitsOf(Turned(b), Sides(b))) + Cardinality(EdgesUsed(b))
           + Cardinality(OrbitsOf(BackAlong(b), Sides(b)))) % 2 = 0
    BY <2>4, <2>8, SidesOfSolid, PairsFlip
  <2>10. QED
    BY <2>5, <2>6, <2>7, <2>9
<1>2. QED
  BY <1>1, BrepTypes, StagesEstablish, PTL
=============================================================================
