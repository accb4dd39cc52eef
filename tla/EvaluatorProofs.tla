-------------------------- MODULE EvaluatorProofs --------------------------
(***************************************************************************)
(* What the evaluator promises, for every set of faithful designs, every   *)
(* request and every interleaving of the nodes of a level.                 *)
(*                                                                         *)
(* The cache is coherent: every set of entries the server holds supports   *)
(* itself, so two entries with one id and one key were made from equal     *)
(* words and from inputs with equal ids and keys; those inputs carry equal *)
(* results, and equal words build equal bodies.                            *)
(*                                                                         *)
(* The answers are fresh: the levels put a node after its inputs, the      *)
(* nodes kept for a request are closed under inputs, so every entry of a   *)
(* pass is the one the reference gives its node, whether it was built or   *)
(* reused.  The levels, the worklist and the reference are recursive; what *)
(* they compute is proved by induction on positions and on fuel.           *)
(***************************************************************************)
EXTENDS FaithfulDesigns, TLAPS, WellFoundedInduction, FiniteSetTheorems

(***************************************************************************)
(* Values and results are typed.                                           *)
(***************************************************************************)
LEMMA ShapesShaped ==
  ASSUME NEW d \in Shapes
  PROVE  /\ \A i \in DOMAIN d.ns : NodeShaped(d.ns[i])
         /\ Len(d.ns) \in Nat /\ DOMAIN d.ns = 1 .. Len(d.ns)
         /\ \A i \in DOMAIN d.ps : d.ps[i].v \in Int
         /\ Ordered(d.ns)
         /\ \E e \in Designs : d.ns = e.ns
<1>0. ASSUME NEW e \in Designs
      PROVE  Len(e.ns) \in Nat /\ DOMAIN e.ns = 1 .. Len(e.ns)
  <2>1. e.ns \in Seq({e.ns[i] : i \in DOMAIN e.ns})
    BY DesignsShaped
  <2>. QED
    BY <2>1
<1>1. CASE d \in Designs
  BY <1>0, <1>1, DesignsShaped
<1>2. CASE d \in {Bumped(e, b) : e \in Designs, b \in Bumps}
  <2>1. PICK e \in Designs, b \in Bumps : d = Bumped(e, b)
    BY <1>2
  <2>2. e = [ps |-> e.ps, ns |-> e.ns] /\ Len(e.ns) \in Nat /\ DOMAIN e.ns = 1 .. Len(e.ns)
        /\ (\A i \in DOMAIN e.ns : NodeShaped(e.ns[i])) /\ Ordered(e.ns)
        /\ \A i \in DOMAIN e.ps : e.ps[i].v \in Int
    BY <1>0, DesignsShaped
  <2>3. b[2] \in Int
    BY RequestsShaped
  <2>4. d.ns = e.ns
    BY <2>1, <2>2 DEF Bumped
  <2>5. d.ps = [i \in DOMAIN e.ps |->
                  IF e.ps[i].id = b[1] THEN [e.ps[i] EXCEPT !.v = b[2]] ELSE e.ps[i]]
    BY <2>1, <2>2 DEF Bumped
  <2>6. ASSUME NEW i \in DOMAIN d.ps
        PROVE  d.ps[i].v \in Int
    BY <2>2, <2>3, <2>5
  <2>. QED
    BY <2>2, <2>4, <2>6
<1>. QED
  BY <1>1, <1>2 DEF Shapes

LEMMA ValueTyped ==
  ASSUME NEW d \in Shapes, NEW o, OpShaped(o)
  PROVE  Value(o.x, d.ps) \in Int
BY ShapesShaped DEF Value, OpShaped, NaN

LEMMA BuiltTyped ==
  ASSUME NEW v \in Int, NEW m \in Materials
  PROVE  Built(v, m) \in Results
<1>1. TRUE \in BOOLEAN
  BY Zenon
<1>. QED
  BY <1>1 DEF Whys, Built, Results

LEMMA RefusedTyped ==
  ASSUME NEW why \in Whys
  PROVE  Refused(why) \in Results
<1>1. FALSE \in BOOLEAN
  BY Zenon
<1>. QED
  BY <1>1 DEF Refused, Results, Materials

LEMMA BuildTyped ==
  ASSUME NEW d \in Shapes, NEW o, OpShaped(o), NEW va \in Int, NEW vb \in Int
  PROVE  Build(o, va, vb, d) \in Results
<1>1. Value(o.x, d.ps) \in Int
  BY ValueTyped
<1>2. o.k \notin SectionKinds /\ o.k # "unknown"
  BY DEF OpShaped
<1>3. va - vb \in Int /\ va + Value(o.x, d.ps) \in Int /\ va - Value(o.x, d.ps) \in Int
  BY <1>1
<1>5. {"create", "add", "remove", "same"} \subseteq Materials
  BY DEF Materials
<1>6. {"empty-result", "not-finite", "not-positive"} \subseteq Whys
  BY DEF Whys
<1>7. BuildBoolean(o, va, vb) \in Results
  BY <1>3, <1>5, <1>6, BuiltTyped, RefusedTyped DEF BuildBoolean
<1>. QED
  BY <1>1, <1>2, <1>3, <1>5, <1>6, <1>7, BuiltTyped, RefusedTyped DEF Build

LEMMA PublishTyped ==
  ASSUME NEW r \in Results, NEW it
  PROVE  Publish(r, it) \in Results
<1>1. Refused("intent") \in Results
  BY RefusedTyped DEF Whys
<1>. QED
  BY <1>1, Zenon DEF Publish

(***************************************************************************)
(* Equal words are words of one operation on one set of inputs, and build  *)
(* the same body (op_w against op_build).                                  *)
(***************************************************************************)
LEMMA WordsDetermine ==
  ASSUME NEW d \in Shapes, NEW e \in Shapes,
         NEW i \in DOMAIN d.ns, NEW j \in DOMAIN e.ns,
         Words(d.ns[i].op, d.ps) = Words(e.ns[j].op, e.ps)
  PROVE  /\ d.ns[i].op.k = e.ns[j].op.k
         /\ HasBase(d.ns[i].op) => d.ns[i].op.a = e.ns[j].op.a
         /\ HasBase2(d.ns[i].op) => d.ns[i].op.b = e.ns[j].op.b
         /\ Value(d.ns[i].op.x, d.ps) = Value(e.ns[j].op.x, e.ps)
<1> DEFINE o == d.ns[i].op
           p == e.ns[j].op
<1>1. OpShaped(o) /\ OpShaped(p)
  BY ShapesShaped DEF NodeShaped
<1>2. o.k \notin {"unknown", "skin"} /\ p.k \notin {"unknown", "skin"}
  BY <1>1 DEF OpShaped, SectionKinds
<1>3. CASE o.k = "import" /\ p.k = "import"
  <2>1. Digest[o.x.v] = Digest[p.x.v]
    BY <1>3, Zenon DEF Words
  <2>2. o.x.v \in Payloads /\ p.x.v \in Payloads
    BY ShapesShaped DEF Payloads
  <2>3. o.x.v = p.x.v
    BY <2>1, <2>2, DigestTellsApart
  <2>. QED
    BY <1>1, <1>3, <2>3 DEF OpShaped, Value, HasBase, HasBase2, BasedKinds, BooleanKinds
<1>4. CASE o.k # "import" /\ p.k # "import"
  BY <1>2, <1>4 DEF Words
<1>5. CASE o.k = "import" /\ p.k # "import"
  BY <1>2, <1>5 DEF Words
<1>6. CASE o.k # "import" /\ p.k = "import"
  BY <1>2, <1>6 DEF Words
<1>. QED
  BY <1>3, <1>4, <1>5, <1>6

BuildsAlike(o, d, p, e) ==
  \A va, vb, wa, wb :
    (HasBase(o) => va = wa) /\ (HasBase2(o) => vb = wb)
    => Build(o, va, vb, d) = Build(p, wa, wb, e)

LEMMA EqualBuilds ==
  ASSUME NEW d \in Shapes, NEW e \in Shapes,
         NEW i \in DOMAIN d.ns, NEW j \in DOMAIN e.ns,
         Words(d.ns[i].op, d.ps) = Words(e.ns[j].op, e.ps)
  PROVE  BuildsAlike(d.ns[i].op, d, e.ns[j].op, e)
<1> DEFINE o == d.ns[i].op
           p == e.ns[j].op
<1>. SUFFICES ASSUME NEW va, NEW vb, NEW wa, NEW wb,
                     HasBase(o) => va = wa, HasBase2(o) => vb = wb
              PROVE  Build(o, va, vb, d) = Build(p, wa, wb, e)
  BY DEF BuildsAlike
<1>1. OpShaped(o) /\ OpShaped(p)
  BY ShapesShaped DEF NodeShaped
<1>2. o.k \notin SectionKinds
  BY <1>1 DEF OpShaped
<1>3. o.k = p.k /\ Value(o.x, d.ps) = Value(p.x, e.ps)
  BY WordsDetermine
<1>4. CASE o.k \in BooleanKinds
  BY <1>2, <1>3, <1>4 DEF Build, BuildBoolean, HasBase, HasBase2, BasedKinds
<1>5. CASE o.k \in {"pad", "pocket", "move"}
  BY <1>2, <1>3, <1>5 DEF Build, HasBase, BasedKinds, BooleanKinds
<1>6. CASE o.k \notin BasedKinds
  BY <1>2, <1>3, <1>6 DEF Build, BasedKinds, BooleanKinds
<1>. QED
  BY <1>4, <1>5, <1>6 DEF BasedKinds

(***************************************************************************)
(* Entries.  Keys of entries are never empty; only the entry that refuses  *)
(* a design with repeated ids has no key.                                  *)
(***************************************************************************)
LEMMA DerivedHasKey ==
  ASSUME NEW S, NEW c, Derived(c, S)
  PROVE  c.key # NoKey
<1>1. PICK d \in Shapes : \E i \in DOMAIN d.ns : \E a, b \in S \cup {NoEntry} :
        Yields(c, d, i, a, b, S)
  BY DEF Derived
<1>2. PICK i \in DOMAIN d.ns : \E a, b \in S \cup {NoEntry} : Yields(c, d, i, a, b, S)
  BY <1>1
<1>3. PICK a \in S \cup {NoEntry}, b \in S \cup {NoEntry} : Yields(c, d, i, a, b, S)
  BY <1>2
<1>4. c.key = KeyFrom(d.ns[i], d.ps, a, b)
  BY <1>3 DEF Yields
<1>. QED
  BY <1>4 DEF KeyFrom, NoKey

LEMMA DerivedGrows ==
  ASSUME NEW S, NEW T, S \subseteq T, NEW c, Derived(c, S)
  PROVE  Derived(c, T)
<1>1. PICK d \in Shapes : \E i \in DOMAIN d.ns : \E a, b \in S \cup {NoEntry} :
        Yields(c, d, i, a, b, S)
  BY DEF Derived
<1>2. PICK i \in DOMAIN d.ns : \E a, b \in S \cup {NoEntry} : Yields(c, d, i, a, b, S)
  BY <1>1
<1>3. PICK a \in S \cup {NoEntry}, b \in S \cup {NoEntry} : Yields(c, d, i, a, b, S)
  BY <1>2
<1>4. a \in T \cup {NoEntry} /\ b \in T \cup {NoEntry} /\ Yields(c, d, i, a, b, T)
  BY <1>3 DEF Yields, IsInput
<1>. QED
  BY <1>4 DEF Derived

(***************************************************************************)
(* Two entries of one id and one key, derived within a coherent set,       *)
(* carry one result.                                                       *)
(***************************************************************************)
CoherentSet(T) == \A c, e \in T : c.id = e.id /\ c.key = e.key => c.r = e.r

KeyedSet(T) == \A c \in T : c.key = NoKey => ~c.r.ok

LEMMA DerivedAgree ==
  ASSUME NEW T, CoherentSet(T), KeyedSet(T), NEW c, NEW e,
         Derived(c, T), Derived(e, T), c.id = e.id, c.key = e.key
  PROVE  c.r = e.r
<1>1. PICK d \in Shapes : \E i \in DOMAIN d.ns : \E a, b \in T \cup {NoEntry} :
        Yields(c, d, i, a, b, T)
  BY DEF Derived
<1>2. PICK i \in DOMAIN d.ns : \E a, b \in T \cup {NoEntry} : Yields(c, d, i, a, b, T)
  BY <1>1
<1>3. PICK a \in T \cup {NoEntry}, b \in T \cup {NoEntry} : Yields(c, d, i, a, b, T)
  BY <1>2
<1>4. PICK f \in Shapes : \E j \in DOMAIN f.ns : \E u, v \in T \cup {NoEntry} :
        Yields(e, f, j, u, v, T)
  BY DEF Derived
<1>5. PICK j \in DOMAIN f.ns : \E u, v \in T \cup {NoEntry} : Yields(e, f, j, u, v, T)
  BY <1>4
<1>6. PICK u \in T \cup {NoEntry}, v \in T \cup {NoEntry} : Yields(e, f, j, u, v, T)
  BY <1>5
<1> DEFINE n == d.ns[i]
           m == f.ns[j]
<1>7. /\ c.key = KeyFrom(n, d.ps, a, b) /\ c.r = ResultFrom(n, d, a, b)
      /\ e.key = KeyFrom(m, f.ps, u, v) /\ e.r = ResultFrom(m, f, u, v)
  BY <1>3, <1>6 DEF Yields
<1> HIDE DEF n, m
<1>. KeyFrom(n, d.ps, a, b) = KeyFrom(m, f.ps, u, v)
  BY <1>7
<1>8. /\ Words(n.op, d.ps) = Words(m.op, f.ps)
      /\ n.it = m.it
      /\ (IF HasBase(n.op) THEN a.key ELSE NoKey) = (IF HasBase(m.op) THEN u.key ELSE NoKey)
      /\ (IF HasBase2(n.op) THEN b.key ELSE NoKey) = (IF HasBase2(m.op) THEN v.key ELSE NoKey)
  BY Zenon DEF KeyFrom
<1> USE DEF n, m
<1>9. /\ n.op.k = m.op.k
      /\ HasBase(n.op) => n.op.a = m.op.a
      /\ HasBase2(n.op) => n.op.b = m.op.b
  BY <1>8, WordsDetermine
<1>10. (HasBase(n.op) <=> HasBase(m.op)) /\ (HasBase2(n.op) <=> HasBase2(m.op))
  BY <1>9 DEF HasBase, HasBase2
<1>11. ASSUME NEW x, NEW y, NEW id, IsInput(x, T, id), IsInput(y, T, id), x.key = y.key
       PROVE  x.r = y.r \/ (~x.r.ok /\ ~y.r.ok)
  <2>1. NoEntry.key = NoKey /\ ~NoEntry.r.ok
    BY DEF NoEntry, Refused
  <2>. QED
    BY <1>11, <2>1 DEF IsInput, CoherentSet, KeyedSet
<1>12. HasBase(n.op) => a.r = u.r \/ (~a.r.ok /\ ~u.r.ok)
  BY <1>3, <1>6, <1>8, <1>9, <1>10, <1>11 DEF Yields
<1>13. HasBase2(n.op) => b.r = v.r \/ (~b.r.ok /\ ~v.r.ok)
  BY <1>3, <1>6, <1>8, <1>9, <1>10, <1>11 DEF Yields
<1>14. ResultFrom(n, d, a, b) = ResultFrom(m, f, u, v)
  <2>1. CASE (HasBase(n.op) => a.r.ok) /\ (HasBase2(n.op) => b.r.ok)
    <3>1. (HasBase(n.op) => a.r = u.r) /\ (HasBase2(n.op) => b.r = v.r)
      BY <2>1, <1>12, <1>13
    <3>2. Build(n.op, a.r.vol, b.r.vol, d) = Build(m.op, u.r.vol, v.r.vol, f)
      <4>1. /\ HasBase(n.op) => a.r.vol = u.r.vol
            /\ HasBase2(n.op) => b.r.vol = v.r.vol
        BY <3>1
      <4>2. BuildsAlike(n.op, d, m.op, f)
        BY <1>8, EqualBuilds
      <4> HIDE DEF n, m
      <4>. QED
        BY <4>1, <4>2 DEF BuildsAlike
    <3>3. (HasBase(m.op) => u.r.ok) /\ (HasBase2(m.op) => v.r.ok)
      BY <2>1, <3>1, <1>10
    <3>. QED
      BY <2>1, <3>2, <3>3, <1>8 DEF ResultFrom
  <2>2. CASE ~((HasBase(n.op) => a.r.ok) /\ (HasBase2(n.op) => b.r.ok))
    <3>1. ~((HasBase(m.op) => u.r.ok) /\ (HasBase2(m.op) => v.r.ok))
      BY <2>2, <1>10, <1>12, <1>13
    <3>. QED
      BY <2>2, <3>1 DEF ResultFrom
  <2>. QED
    BY <2>1, <2>2
<1>. QED
  BY <1>7, <1>14

(***************************************************************************)
(* What the inductive invariant says of the entries alive.                 *)
(***************************************************************************)
LEMMA FindIsInput ==
  ASSUME NEW S, NEW id
  PROVE  IsInput(Find(S, id), S, id) /\ Find(S, id) \in S \cup {NoEntry}
BY DEF IsInput, Find, Has, NoEntry

LEMMA AliveFacts ==
  ASSUME IInv
  PROVE  /\ CoherentSet(Alive)
         /\ \A c \in Alive : c = DuplicateEntry \/ Derived(c, Alive)
         /\ KeyedSet(Alive)
<1>1. CoherentSet(Alive)
  BY DEF IInv, Coherent, CoherentSet
<1>2. \A c \in Alive : c = DuplicateEntry \/ Derived(c, Alive)
  <2>1. cache \subseteq Alive /\ old \subseteq Alive /\ acc \subseteq Alive
    BY DEF Alive
  <2>. QED
    BY <2>1, DerivedGrows DEF IInv, SelfSupported, Alive
<1>3. KeyedSet(Alive)
  <2>1. ~DuplicateEntry.r.ok
    BY DEF DuplicateEntry, Refused
  <2>. QED
    BY <1>2, <2>1, DerivedHasKey DEF KeyedSet
<1>. QED
  BY <1>1, <1>2, <1>3

(***************************************************************************)
(* The entry a node is given is derived from the entries of the earlier    *)
(* levels, whether it was built or reused.                                 *)
(***************************************************************************)
LEMMA UsableIsOk ==
  ASSUME IInv, pc = "pass", NEW i \in todo, NEW id,
         \/ HasBase(design.ns[i].op) /\ id = design.ns[i].op.a
         \/ HasBase2(design.ns[i].op) /\ id = design.ns[i].op.b
  PROVE  Usable(design.ns, Kept, i, acc, id) <=> Find(acc, id).r.ok
<1>1. design \in Shapes /\ i \in DOMAIN design.ns /\ DOMAIN ws \subseteq DOMAIN design.ns
  BY DEF IInv, PassOfDesign
<1>2. Ordered(design.ns)
  BY <1>1, ShapesShaped
<1>3. ASSUME Find(acc, id).r.ok
      PROVE  Has(acc, id) /\ Earlier(design.ns, Kept, i, id) # {}
  <2>1. Has(acc, id)
    BY <1>3 DEF Find, Refused
  <2>2. PICK c \in acc : c.id = id
    BY <2>1 DEF Has
  <2>3. PICK j \in DOMAIN ws : c.id = design.ns[j].id
    BY <2>2 DEF IInv, PassOfDesign
  <2>4. j < i
    BY <1>1, <1>2, <2>2, <2>3 DEF Ordered
  <2>5. j \in Earlier(design.ns, Kept, i, id)
    BY <2>2, <2>3, <2>4 DEF Earlier, Kept
  <2>. QED
    BY <2>1, <2>5
<1>. QED
  BY <1>3 DEF Usable

EntryAfresh(d, i, S) ==
  [id |-> d.ns[i].id, key |-> KeyOf(d.ns[i], d.ps, S),
   r |-> ResultFrom(d.ns[i], d, Find(S, d.ns[i].op.a), Find(S, d.ns[i].op.b))]

LEMMA NewEntry ==
  ASSUME IInv, pc = "pass", NEW i \in todo
  PROVE  /\ EntryOf(design, Kept, i, acc, old) = EntryAfresh(design, i, acc)
         /\ Derived(EntryAfresh(design, i, acc), acc)
<1> DEFINE d == design
           n == d.ns[i]
           a == Find(acc, n.op.a)
           b == Find(acc, n.op.b)
           key == KeyOf(n, d.ps, acc)
           fresh == ResultFrom(n, d, a, b)
           c == [id |-> n.id, key |-> key, r |-> fresh]
<1>1. d \in Shapes /\ i \in DOMAIN d.ns
  BY DEF IInv, PassOfDesign
<1>2. /\ a \in acc \cup {NoEntry} /\ IsInput(a, acc, n.op.a)
      /\ b \in acc \cup {NoEntry} /\ IsInput(b, acc, n.op.b)
  BY FindIsInput
<1>3. key = KeyFrom(n, d.ps, a, b)
  BY DEF KeyOf, KeyFrom
<1>4. Derived(c, acc)
  <2>1. Yields(c, d, i, a, b, acc)
    BY <1>2, <1>3 DEF Yields
  <2>. QED
    BY <1>1, <1>2, <2>1 DEF Derived
<1>5. InputsUsable(d.ns, Kept, i, acc) <=>
        (HasBase(n.op) => a.r.ok) /\ (HasBase2(n.op) => b.r.ok)
  BY UsableIsOk DEF InputsUsable
<1>6. EntryOf(d, Kept, i, acc, old) = c
  <2>1. CASE ~InputsUsable(d.ns, Kept, i, acc)
    BY <1>5, <2>1 DEF EntryOf, ResultOf, ResultFrom
  <2>2. CASE InputsUsable(d.ns, Kept, i, acc) /\ ~Reusable(old, n.id, key)
    BY <1>5, <2>2 DEF EntryOf, ResultOf, ResultFrom, BuildNode
  <2>3. CASE InputsUsable(d.ns, Kept, i, acc) /\ Reusable(old, n.id, key)
    <3> DEFINE e == Find(old, n.id)
    <3>1. e \in old /\ e.id = n.id /\ e.key = key
      BY <2>3 DEF Reusable, Find, Has
    <3>2. acc \subseteq Alive /\ old \subseteq Alive
      BY DEF Alive
    <3>3. Derived(c, Alive)
      BY <1>4, <3>2, DerivedGrows
    <3>4. c.key # NoKey
      BY <1>4, DerivedHasKey
    <3>5. e # DuplicateEntry
      BY <3>1, <3>4 DEF DuplicateEntry
    <3>6. Derived(e, Alive)
      BY <3>1, <3>2, <3>5, AliveFacts
    <3>7. e.r = c.r
      BY <3>1, <3>3, <3>6, AliveFacts, DerivedAgree
    <3>. QED
      BY <2>3, <3>7 DEF EntryOf, ResultOf
  <2>. QED
    BY <2>1, <2>2, <2>3
<1>7. c = EntryAfresh(d, i, acc)
  BY DEF EntryAfresh
<1>. QED
  BY <1>4, <1>6, <1>7

LEMMA DerivedTyped ==
  ASSUME NEW S, \A e \in S : EntryTyped(e), NEW c, Derived(c, S)
  PROVE  EntryTyped(c)
<1>1. PICK d \in Shapes : \E i \in DOMAIN d.ns : \E a, b \in S \cup {NoEntry} :
        Yields(c, d, i, a, b, S)
  BY DEF Derived
<1>2. PICK i \in DOMAIN d.ns : \E a, b \in S \cup {NoEntry} : Yields(c, d, i, a, b, S)
  BY <1>1
<1>3. PICK a \in S \cup {NoEntry}, b \in S \cup {NoEntry} : Yields(c, d, i, a, b, S)
  BY <1>2
<1>4. NodeShaped(d.ns[i])
  BY ShapesShaped
<1>5. \A e \in S \cup {NoEntry} : e.r \in Results /\ e.r.vol \in Int
  <2>1. NoEntry.r \in Results
    BY RefusedTyped DEF NoEntry, Whys
  <2>2. \A r \in Results : r.vol \in Int
    BY DEF Results
  <2>. QED
    BY <2>1, <2>2 DEF EntryTyped
<1>6. Build(d.ns[i].op, a.r.vol, b.r.vol, d) \in Results
  BY <1>4, <1>5, BuildTyped DEF NodeShaped
<1>7. InputFailed \in Results
  BY RefusedTyped DEF InputFailed, Whys
<1>8. ResultFrom(d.ns[i], d, a, b) \in Results
  BY <1>6, <1>7, PublishTyped DEF ResultFrom
<1>9. c = [id |-> d.ns[i].id, key |-> KeyFrom(d.ns[i], d.ps, a, b),
          r |-> ResultFrom(d.ns[i], d, a, b)]
  BY <1>3 DEF Yields
<1>10. DOMAIN KeyFrom(d.ns[i], d.ps, a, b) = 1..4
  BY DEF KeyFrom
<1>. QED
  BY <1>4, <1>8, <1>9, <1>10 DEF EntryTyped, NodeShaped

-----------------------------------------------------------------------------
(***************************************************************************)
(* The invariant is inductive.                                             *)
(***************************************************************************)
LEMMA InitIInv == Init => IInv
<1>. SUFFICES ASSUME Init
              PROVE  IInv
  OBVIOUS
<1>1. TypeOK
  BY RequestsShaped DEF Init, TypeOK, NoDesign, Ids
<1>2. Coherent /\ SelfSupported
  BY DEF Init, Coherent, Alive, SelfSupported
<1>3. PassOfDesign
  BY DEF Init, PassOfDesign, NoDesign, NoBump
<1>. QED
  BY <1>1, <1>2, <1>3 DEF IInv

(***************************************************************************)
(* Dropping entries keeps the rest coherent.                               *)
(***************************************************************************)
LEMMA FewerCoherent ==
  ASSUME IInv, Alive' \subseteq Alive \cup {DuplicateEntry}
  PROVE  Coherent'
<1>1. \A c \in Alive : c.key = NoKey => c = DuplicateEntry
  BY AliveFacts, DerivedHasKey
<1>2. DuplicateEntry.key = NoKey
  BY DEF DuplicateEntry
<1>3. \A c, e \in Alive' : c.id = e.id /\ c.key = e.key => c.r = e.r
  BY <1>1, <1>2 DEF IInv, Coherent
<1>. QED
  BY <1>3 DEF Coherent

(***************************************************************************)
(* Starting a pass over a design of Shapes.                                *)
(***************************************************************************)
LEMMA KeepWithin ==
  ASSUME NEW d, NEW v, NEW st, NEW want
  PROVE  Keep(d, v, st, want) \subseteq DOMAIN d.ns
BY DEF Keep, KeptFor

LEMMA StartPassFacts ==
  ASSUME NEW v, NEW st, NEW d, NEW want, NEW reuse, StartPass(v, st, d, want, reuse)
  PROVE  /\ DOMAIN ws' \subseteq DOMAIN design'.ns /\ todo' \subseteq DOMAIN ws'
         /\ now' = {} /\ acc' = {} /\ built' = {} /\ old' = reuse
         /\ design' = d /\ stage' = st /\ lvl' = 1
<1>1. DOMAIN ws' = Keep(d, v, st, want)
  BY DEF StartPass, Levels
<1>2. todo' \subseteq DOMAIN ws'
  BY DEF StartPass, AtLevel
<1>. QED
  BY <1>1, <1>2, KeepWithin DEF StartPass

LEMMA RequestKeeps ==
  ASSUME IInv, NEW v \in {"query", "apply", "sens"}, NEW d \in Designs, NEW want, NEW b,
         b \in Bumps \cup {NoBump}, v = "sens" => b \in Bumps,
         NEW reuse, reuse = cache \/ reuse = {}, Request(v, d, want, b, reuse)
  PROVE  IInv'
<1>1. /\ DOMAIN ws' \subseteq DOMAIN design'.ns /\ todo' \subseteq DOMAIN ws'
      /\ now' = {} /\ acc' = {} /\ built' = {} /\ old' = reuse
      /\ design' = d /\ stage' = 1 /\ lvl' = 1
  BY StartPassFacts DEF Request
<1>2. TypeOK'
  BY <1>1, RequestsShaped DEF IInv, TypeOK, Request
<1>3. Coherent'
  <2>1. Alive' \subseteq Alive
    BY <1>1 DEF Alive, Request
  <2>. QED
    BY <2>1, FewerCoherent
<1>4. SelfSupported'
  BY <1>1 DEF IInv, SelfSupported, Request
<1>5. PassOfDesign'
  BY <1>1 DEF PassOfDesign, Shapes, Request
<1>. QED
  BY <1>2, <1>3, <1>4, <1>5 DEF IInv

LEMMA EvalNodeKeeps ==
  ASSUME IInv, NEW i \in todo, EvalNode(i)
  PROVE  IInv'
<1> DEFINE c == EntryOf(design, Kept, i, acc, old)
<1>1. pc = "pass" /\ i \in DOMAIN ws /\ i \in DOMAIN design.ns
  BY DEF EvalNode, IInv, PassOfDesign
<1>2. Derived(c, acc)
  BY <1>1, NewEntry
<1>3. EntryTyped(c)
  BY <1>2, DerivedTyped DEF IInv, TypeOK
<1>4. c.id = design.ns[i].id
  BY DEF EntryOf
<1>5. now' = now \cup {c} /\ todo' = todo \ {i} /\ built' \subseteq built \cup {design.ns[i].id}
  BY DEF EvalNode
<1>6. UNCHANGED <<pc, verb, ids, bump, stage, design, old, ws, lvl, acc, answer, cache, requests>>
  BY DEF EvalNode, request
<1>7. TypeOK'
  <2>1. built' \subseteq Ids(design'.ns)
    BY <1>1, <1>5, <1>6 DEF IInv, TypeOK, Ids
  <2>2. \A e \in (cache \cup old \cup acc \cup now \cup answer)' : EntryTyped(e)
    BY <1>3, <1>5, <1>6 DEF IInv, TypeOK
  <2>. QED
    BY <1>5, <1>6, <2>1, <2>2 DEF IInv, TypeOK
<1>8. Coherent'
  <2>1. Alive' = Alive \cup {c}
    BY <1>5, <1>6 DEF Alive
  <2>2. Derived(c, Alive) /\ c.key # NoKey
    BY <1>2, DerivedGrows, DerivedHasKey DEF Alive
  <2>3. ASSUME NEW e \in Alive, e.id = c.id, e.key = c.key
        PROVE  e.r = c.r
    <3>1. e # DuplicateEntry
      BY <2>2, <2>3 DEF DuplicateEntry
    <3>. QED
      BY <2>2, <2>3, <3>1, AliveFacts, DerivedAgree
  <2>4. CoherentSet(Alive \cup {c})
    BY <2>3, AliveFacts DEF CoherentSet
  <2>. QED
    BY <2>1, <2>4 DEF Coherent, CoherentSet
<1>9. SelfSupported'
  BY <1>2, <1>5, <1>6 DEF IInv, SelfSupported
<1>10. PassOfDesign'
  BY <1>1, <1>4, <1>5, <1>6 DEF IInv, PassOfDesign
<1>. QED
  BY <1>7, <1>8, <1>9, <1>10 DEF IInv

LEMMA EndLevelKeeps ==
  ASSUME IInv, EndLevel
  PROVE  IInv'
<1>1. /\ acc' = acc \cup now /\ now' = {} /\ lvl' = lvl + 1 /\ todo' \subseteq DOMAIN ws
      /\ UNCHANGED <<pc, verb, ids, bump, stage, design, old, ws, built, answer, cache, requests>>
  BY DEF EndLevel, AtLevel, request
<1>2. TypeOK'
  BY <1>1 DEF IInv, TypeOK
<1>3. Alive' \subseteq Alive
  BY <1>1 DEF Alive
<1>4. Coherent'
  BY <1>3, FewerCoherent
<1>5. SelfSupported'
  <2>1. \A c \in acc \cup now : Derived(c, acc \cup now)
    BY DerivedGrows DEF IInv, SelfSupported
  <2>. QED
    BY <1>1, <2>1 DEF IInv, SelfSupported
<1>6. PassOfDesign'
  BY <1>1 DEF IInv, PassOfDesign
<1>. QED
  BY <1>2, <1>4, <1>5, <1>6 DEF IInv

LEMMA SecondPassKeeps ==
  ASSUME IInv, PassEnds, NEW d \in Shapes,
         StartPass(verb, 2, d, ids, acc \cup now),
         cache' = cache \/ cache' = acc \cup now,
         UNCHANGED <<pc, request, answer, requests>>
  PROVE  IInv'
<1>1. /\ DOMAIN ws' \subseteq DOMAIN design'.ns /\ todo' \subseteq DOMAIN ws'
      /\ now' = {} /\ acc' = {} /\ built' = {} /\ old' = acc \cup now
      /\ design' = d /\ stage' = 2 /\ lvl' = 1
  BY StartPassFacts
<1>2. UNCHANGED <<pc, verb, ids, bump, answer, requests>>
  BY DEF request
<1>3. TypeOK'
  BY <1>1, <1>2 DEF IInv, TypeOK
<1>4. Alive' \subseteq Alive
  BY <1>1 DEF Alive
<1>5. Coherent'
  BY <1>4, FewerCoherent
<1>6. SelfSupported'
  <2>1. \A c \in acc \cup now : Derived(c, acc \cup now)
    BY DerivedGrows DEF IInv, SelfSupported
  <2>. QED
    BY <1>1, <2>1 DEF IInv, SelfSupported
<1>7. PassOfDesign'
  BY <1>1, <1>2 DEF IInv, PassOfDesign
<1>. QED
  BY <1>3, <1>5, <1>6, <1>7 DEF IInv

LEMMA AnswerKeeps ==
  ASSUME IInv, pc = "pass", pc' = "answered",
         answer' \subseteq acc \cup now \cup {DuplicateEntry},
         cache' = cache \/ cache' = acc \cup now \/ cache' = {DuplicateEntry},
         UNCHANGED <<request, pass, requests>>
  PROVE  IInv'
<1>1. UNCHANGED <<verb, ids, bump, stage, design, old, ws, lvl, todo, now, acc, built, requests>>
  BY DEF request, pass
<1>2. EntryTyped(DuplicateEntry)
  BY RefusedTyped DEF EntryTyped, DuplicateEntry, Whys
<1>3. TypeOK'
  BY <1>1, <1>2 DEF IInv, TypeOK
<1>4. Alive' \subseteq Alive \cup {DuplicateEntry}
  BY <1>1 DEF Alive
<1>5. Coherent'
  BY <1>4, FewerCoherent
<1>6. SelfSupported'
  <2>1. \A c \in acc \cup now : Derived(c, acc \cup now)
    BY DerivedGrows DEF IInv, SelfSupported
  <2>. QED
    BY <1>1, <2>1 DEF IInv, SelfSupported
<1>7. PassOfDesign'
  BY <1>1 DEF IInv, PassOfDesign
<1>. QED
  BY <1>3, <1>5, <1>6, <1>7 DEF IInv

LEMMA IdleKeeps ==
  ASSUME IInv, NEW c, Idle(c), c = cache \/ c = {}, UNCHANGED requests
  PROVE  IInv'
<1>1. TypeOK'
  BY DEF IInv, TypeOK, Idle, NoDesign, Ids
<1>2. Alive' \subseteq Alive
  BY DEF Alive, Idle
<1>3. Coherent'
  BY <1>2, FewerCoherent
<1>4. SelfSupported'
  BY DEF IInv, SelfSupported, Idle
<1>5. PassOfDesign'
  BY DEF PassOfDesign, Idle, NoDesign, NoBump
<1>. QED
  BY <1>1, <1>3, <1>4, <1>5 DEF IInv

LEMMA NextIInv == IInv /\ [Next]_vars => IInv'
<1>. SUFFICES ASSUME IInv, [Next]_vars
              PROVE  IInv'
  OBVIOUS
<1>1. CASE Query
  BY <1>1, RequestKeeps DEF Query
<1>2. CASE Apply
  BY <1>2, RequestKeeps DEF Apply
<1>3. CASE Sens
  BY <1>3, RequestKeeps DEF Sens
<1>4. CASE EvalSome
  BY <1>4, EvalNodeKeeps DEF EvalSome
<1>5. CASE EndLevel
  BY <1>5, EndLevelKeeps
<1>6. CASE EndWholePass
  <2>1. design \in Shapes
    BY <1>6 DEF EndWholePass, PassEnds, IInv, PassOfDesign
  <2>. QED
    BY <1>6, <2>1, SecondPassKeeps DEF EndWholePass
<1>7. CASE EndFirstSens
  <2>1. Bumped(design, bump) \in Shapes
    BY <1>7 DEF EndFirstSens, PassEnds, IInv, PassOfDesign, Shapes
  <2>. QED
    BY <1>7, <2>1, SecondPassKeeps DEF EndFirstSens
<1>8. CASE EndApply
  BY <1>8, AnswerKeeps DEF EndApply, PassEnds
<1>9. CASE EndSecondPass
  BY <1>9, AnswerKeeps DEF EndSecondPass, PassEnds
<1>10. CASE RefuseDuplicates
  BY <1>10, AnswerKeeps DEF RefuseDuplicates
<1>11. CASE Reply
  BY <1>11, IdleKeeps DEF Reply
<1>12. CASE Restart
  BY <1>12, IdleKeeps DEF Restart
<1>13. CASE UNCHANGED vars
  BY <1>13 DEF vars, request, pass, IInv, TypeOK, Coherent, Alive, SelfSupported, PassOfDesign
<1>. QED
  BY <1>1, <1>2, <1>3, <1>4, <1>5, <1>6, <1>7, <1>8, <1>9, <1>10, <1>11, <1>12, <1>13
     DEF Next, Step

(***************************************************************************)
(* Entries and variables keep their types.                                 *)
(***************************************************************************)
THEOREM EvaluatorTypes == Spec => []TypeOK
<1>1. IInv => TypeOK
  BY DEF IInv
<1>. QED
  BY InitIInv, NextIInv, <1>1, PTL DEF Spec

(***************************************************************************)
(* No entry the server holds is stale under its key: equal ids and equal   *)
(* keys, whatever designs they were computed for, mean equal results       *)
(* (node_go reuses on a full-key match and on nothing else).               *)
(***************************************************************************)
THEOREM CacheCoherent == Spec => []Coherent
<1>1. IInv => Coherent
  BY DEF IInv
<1>. QED
  BY InitIInv, NextIInv, <1>1, PTL DEF Spec

(***************************************************************************)
(* Each set of entries the server holds can be derived from itself.        *)
(***************************************************************************)
THEOREM CacheSelfSupported == Spec => []SelfSupported
<1>1. IInv => SelfSupported
  BY DEF IInv
<1>. QED
  BY InitIInv, NextIInv, <1>1, PTL DEF Spec
-----------------------------------------------------------------------------
(***************************************************************************)
(* A set of numbers that is not empty has a least one, and a set that has  *)
(* zero and every successor of its numbers has them all: what the          *)
(* recursive definitions of the model compute is proved by these two.      *)
(***************************************************************************)
LEMMA LeastNumber ==
  ASSUME NEW T, T \subseteq Nat, T # {}
  PROVE  \E m \in T : \A k \in T : m <= k
<1> DEFINE R == OpToRel(<, Nat)
<1>1. PICK m \in T : \A k \in T : ~ (<<k, m>> \in R)
  <2>1. IsWellFoundedOn(R, Nat)
    BY NatLessThanWellFounded
  <2> HIDE DEF R
  <2>. QED
    BY <2>1, WFMin
<1>2. \A k, n \in Nat : <<k, n>> \in R <=> k < n
  BY DEF OpToRel
<1> HIDE DEF R
<1>3. \A k \in T : ~ (k < m)
  BY <1>1, <1>2
<1>. QED
  BY <1>3

LEMMA Counting ==
  ASSUME NEW S, 0 \in S, \A n \in Nat : n \in S => n + 1 \in S
  PROVE  Nat \subseteq S
<1>. SUFFICES ASSUME Nat \ S # {} PROVE FALSE
  OBVIOUS
<1>1. PICK m \in Nat \ S : \A k \in Nat \ S : m <= k
  BY LeastNumber
<1>2. m # 0 /\ m - 1 \in Nat
  BY <1>1
<1>3. m - 1 \in S
  BY <1>1, <1>2
<1>. QED
  BY <1>1, <1>2, <1>3

(***************************************************************************)
(* The function by which NeedIds counts its fuel down exists, so NeedIds   *)
(* is its value.                                                           *)
(***************************************************************************)
NeedEquation(g, ns, n) == g = [f \in 0 .. n |-> IF f = 0 THEN Exhausted ELSE Visited(ns, g[f - 1])]

LEMMA NeedExists ==
  ASSUME NEW ns, NEW N \in Nat
  PROVE  \E g : NeedEquation(g, ns, N)
<1> DEFINE S == {n \in Nat : \E g : NeedEquation(g, ns, n)}
<1>1. 0 \in S
  <2>1. NeedEquation([f \in 0 .. 0 |-> Exhausted], ns, 0)
    BY DEF NeedEquation
  <2>. QED
    BY <2>1
<1>2. ASSUME NEW n \in Nat, n \in S PROVE n + 1 \in S
  <2>1. PICK g : NeedEquation(g, ns, n)
    BY <1>2
  <2> DEFINE h == [f \in 0 .. n + 1 |-> IF f = n + 1 THEN Visited(ns, g[n]) ELSE g[f]]
  <2>2. \A f \in 0 .. n + 1 : h[f] = IF f = 0 THEN Exhausted ELSE Visited(ns, h[f - 1])
    BY <2>1 DEF NeedEquation
  <2>3. NeedEquation(h, ns, n + 1)
    BY <2>2 DEF NeedEquation
  <2> HIDE DEF h
  <2>. QED
    BY <2>3
<1> HIDE DEF S
<1>3. N \in S
  BY <1>1, <1>2, Counting
<1>. QED
  BY <1>3 DEF S

LEMMA NeedUnfolds ==
  ASSUME NEW ns, NEW want, Fuel(ns, want) \in Nat
  PROVE  \E g : /\ NeedEquation(g, ns, Fuel(ns, want))
                /\ NeedIds(ns, want) = g[Fuel(ns, want)][[todo |-> want, acc |-> {}]]
<1> DEFINE N == Fuel(ns, want)
           need == CHOOSE g : NeedEquation(g, ns, N)
<1>1. NeedEquation(need, ns, N)
  BY NeedExists, Zenon
<1>2. NeedIds(ns, want) = need[N][[todo |-> want, acc |-> {}]]
  BY Zenon DEF NeedIds, NeedEquation
<1>. QED
  BY <1>1, <1>2, Zenon

(***************************************************************************)
(* The levels of the kept positions satisfy their recursive definition.    *)
(***************************************************************************)
LevelStep(ns, keep, lv, i) == 1 + Deepest({lv[j] : j \in InputPositions(ns, keep, i)})

LevelEquation(lv, ns, keep, D) == lv = [i \in D |-> LevelStep(ns, keep, lv, i)]

LEMMA InputsEarlier ==
  ASSUME NEW ns, NEW keep, NEW i, NEW j \in InputPositions(ns, keep, i)
  PROVE  j \in keep /\ j < i
BY DEF InputPositions, Earlier

LEMMA LevelStepLocal ==
  ASSUME NEW ns, NEW keep, keep \subseteq Nat \ {0}, NEW i \in Nat, NEW g, NEW h,
         \A j \in keep : j < i => g[j] = h[j]
  PROVE  LevelStep(ns, keep, g, i) = LevelStep(ns, keep, h, i)
<1>1. {g[j] : j \in InputPositions(ns, keep, i)} = {h[j] : j \in InputPositions(ns, keep, i)}
  BY InputsEarlier
<1>. QED
  BY <1>1 DEF LevelStep

LEMMA LevelsExist ==
  ASSUME NEW ns, NEW keep, keep \subseteq Nat \ {0}, NEW N \in Nat
  PROVE  \E lv : LevelEquation(lv, ns, keep, 1 .. N)
<1> DEFINE S == {n \in Nat : \E lv : LevelEquation(lv, ns, keep, 1 .. n)}
<1>1. 0 \in S
  <2>1. LevelEquation([i \in 1 .. 0 |-> 0], ns, keep, 1 .. 0)
    BY DEF LevelEquation
  <2>. QED
    BY <2>1
<1>2. ASSUME NEW n \in Nat, n \in S PROVE n + 1 \in S
  <2>1. PICK g : LevelEquation(g, ns, keep, 1 .. n)
    BY <1>2
  <2> DEFINE h == [i \in 1 .. n + 1 |-> IF i = n + 1 THEN LevelStep(ns, keep, g, i) ELSE g[i]]
  <2>2. \A i \in 1 .. n + 1 : \A j \in keep : j < i => g[j] = h[j]
    OBVIOUS
  <2>3. ASSUME NEW i \in 1 .. n + 1
        PROVE  LevelStep(ns, keep, g, i) = LevelStep(ns, keep, h, i)
    <3>1. i \in Nat /\ \A j \in keep : j < i => g[j] = h[j]
      BY <2>2
    <3> HIDE DEF h
    <3>. QED
      BY <3>1, LevelStepLocal
  <2>4. \A i \in 1 .. n : g[i] = LevelStep(ns, keep, g, i)
    BY <2>1 DEF LevelEquation
  <2>5. \A i \in 1 .. n + 1 : h[i] = LevelStep(ns, keep, h, i)
    <3>1. \A i \in 1 .. n + 1 : h[i] = LevelStep(ns, keep, g, i)
      BY <2>4
    <3> HIDE DEF h
    <3>. QED
      BY <2>3, <3>1
  <2>6. h = [i \in 1 .. n + 1 |-> h[i]]
    OBVIOUS
  <2> HIDE DEF h
  <2>7. LevelEquation(h, ns, keep, 1 .. n + 1)
    BY <2>5, <2>6 DEF LevelEquation
  <2>. QED
    BY <2>7
<1> HIDE DEF S
<1>3. N \in S
  BY <1>1, <1>2, Counting
<1>. QED
  BY <1>3 DEF S

LEMMA LevelsUnfold ==
  ASSUME NEW ns, NEW keep, NEW N \in Nat, DOMAIN ns = 1 .. N, keep \subseteq DOMAIN ns
  PROVE  /\ DOMAIN Levels(ns, keep) = keep
         /\ \A i \in keep : Levels(ns, keep)[i] = LevelStep(ns, keep, Levels(ns, keep), i)
<1> DEFINE lv == CHOOSE f : LevelEquation(f, ns, keep, DOMAIN ns)
<1>0. keep \subseteq Nat \ {0} /\ keep \subseteq 1 .. N
  OBVIOUS
<1>1. LevelEquation(lv, ns, keep, DOMAIN ns)
  <2>1. \E f : LevelEquation(f, ns, keep, DOMAIN ns)
    BY <1>0, LevelsExist
  <2>. QED
    BY <2>1, Zenon
<1>2. Levels(ns, keep) = [i \in keep |-> lv[i]]
  BY Zenon DEF Levels, LevelEquation, LevelStep
<1> HIDE DEF lv
<1>3. \A i \in keep : lv[i] = LevelStep(ns, keep, lv, i)
  BY <1>0, <1>1 DEF LevelEquation
<1>4. \A i \in keep : Levels(ns, keep)[i] = lv[i]
  BY <1>2
<1>5. \A i \in keep : LevelStep(ns, keep, Levels(ns, keep), i) = LevelStep(ns, keep, lv, i)
  BY <1>0, <1>4, LevelStepLocal
<1>. QED
  BY <1>2, <1>3, <1>4, <1>5

(***************************************************************************)
(* The deepest of some levels is the largest of them. A level is at least  *)
(* one and at most its position; an input is on an earlier level than its  *)
(* user; the last level is the last.                                       *)
(***************************************************************************)
LEMMA DeepestIsMax ==
  ASSUME NEW S, S \subseteq Nat, NEW n \in Nat, \A k \in S : k <= n
  PROVE  /\ Deepest(S) \in Nat /\ Deepest(S) <= n
         /\ \A k \in S : k <= Deepest(S)
<1>1. CASE S = {}
  BY <1>1 DEF Deepest
<1>2. CASE S # {}
  <2> DEFINE T == {n - k : k \in S}
  <2>1. T \subseteq Nat
    OBVIOUS
  <2>0. T # {}
    <3>1. PICK k \in S : TRUE
      BY <1>2
    <3>. QED
      BY <3>1
  <2>2. PICK m \in T : \A k \in T : m <= k
    BY <2>0, <2>1, LeastNumber
  <2>3. PICK x \in S : m = n - x
    BY <2>2
  <2>4. \A k \in S : k <= x
    BY <2>2, <2>3
  <2>5. Deepest(S) \in S /\ \A k \in S : k <= Deepest(S)
    <3>1. \E y \in S : \A k \in S : k <= y
      BY <2>3, <2>4
    <3>2. Deepest(S) = CHOOSE y \in S : \A k \in S : k <= y
      BY <1>2 DEF Deepest
    <3>. QED
      BY <3>1, <3>2, Zenon
  <2>. QED
    BY <2>5
<1>. QED
  BY <1>1, <1>2

LEMMA LevelsBound ==
  ASSUME NEW ns, NEW keep, NEW N \in Nat, DOMAIN ns = 1 .. N, keep \subseteq DOMAIN ns
  PROVE  \A i \in keep : Levels(ns, keep)[i] \in 1 .. i
<1> DEFINE w == Levels(ns, keep)
           S == {n \in Nat : \A i \in keep : i <= n => w[i] \in 1 .. i}
<1>0. keep \subseteq Nat \ {0}
  OBVIOUS
<1>1. \A i \in keep : w[i] = LevelStep(ns, keep, w, i)
  BY LevelsUnfold
<1> HIDE DEF w
<1>2. 0 \in S
  BY <1>0
<1>3. ASSUME NEW n \in Nat, n \in S PROVE n + 1 \in S
  <2>1. ASSUME NEW i \in keep, i = n + 1 PROVE w[i] \in 1 .. i
    <3> DEFINE D == {w[j] : j \in InputPositions(ns, keep, i)}
    <3>1. \A j \in InputPositions(ns, keep, i) : j \in keep /\ j \in Nat /\ j <= n
      BY <1>0, <2>1, InputsEarlier
    <3>2. \A j \in InputPositions(ns, keep, i) : w[j] \in Nat /\ w[j] <= n
      BY <3>1, <1>3
    <3>3. D \subseteq Nat /\ \A k \in D : k <= n
      BY <3>2
    <3> HIDE DEF D
    <3>4. Deepest(D) \in Nat /\ Deepest(D) <= n
      BY <3>3, DeepestIsMax
    <3>5. w[i] = 1 + Deepest(D)
      BY <1>1 DEF LevelStep, D
    <3>. QED
      BY <2>1, <3>4, <3>5
  <2>2. ASSUME NEW i \in keep, i <= n + 1 PROVE w[i] \in 1 .. i
    BY <1>0, <1>3, <2>1, <2>2
  <2>. QED
    BY <2>2
<1> HIDE DEF S
<1>4. Nat \subseteq S
  BY <1>2, <1>3, Counting
<1>5. ASSUME NEW i \in keep PROVE w[i] \in 1 .. i
  <2>1. i \in S /\ i \in Nat
    BY <1>0, <1>4
  <2>. QED
    BY <2>1 DEF S
<1>. QED
  BY <1>5 DEF w

LEMMA LevelsRise ==
  ASSUME NEW ns, NEW keep, NEW N \in Nat, DOMAIN ns = 1 .. N, keep \subseteq DOMAIN ns,
         NEW i \in keep, NEW j \in InputPositions(ns, keep, i)
  PROVE  Levels(ns, keep)[j] < Levels(ns, keep)[i]
<1> DEFINE w == Levels(ns, keep)
           D == {w[k] : k \in InputPositions(ns, keep, i)}
<1>1. \A k \in InputPositions(ns, keep, i) : w[k] \in Nat /\ w[k] <= N
  <2>1. \A k \in keep : w[k] \in 1 .. k
    BY LevelsBound
  <2> HIDE DEF w
  <2>. QED
    BY <2>1, InputsEarlier
<1>2. D \subseteq Nat /\ (\A k \in D : k <= N) /\ w[j] \in D
  <2> HIDE DEF w
  <2>. QED
    BY <1>1
<1>3. w[i] = 1 + Deepest(D)
  BY LevelsUnfold DEF LevelStep
<1> HIDE DEF w, D
<1>4. Deepest(D) \in Nat /\ w[j] \in Nat /\ w[j] <= Deepest(D)
  BY <1>2, DeepestIsMax
<1>5. w[j] < 1 + Deepest(D)
  BY <1>4
<1>6. w[j] < w[i]
  BY <1>3, <1>5
<1>. QED
  BY <1>6 DEF w

LEMMA LastLevelIsLast ==
  ASSUME NEW ns, NEW keep, NEW N \in Nat, DOMAIN ns = 1 .. N, keep \subseteq DOMAIN ns
  PROVE  /\ LastLevel(Levels(ns, keep)) \in Nat
         /\ \A i \in keep : Levels(ns, keep)[i] <= LastLevel(Levels(ns, keep))
<1> DEFINE w == Levels(ns, keep)
           D == {w[i] : i \in DOMAIN w}
<1>1. DOMAIN w = keep
  BY LevelsUnfold
<1>2. \A i \in keep : w[i] \in Nat /\ w[i] <= N
  <2>1. \A i \in keep : w[i] \in 1 .. i
    BY LevelsBound
  <2> HIDE DEF w
  <2>. QED
    BY <2>1
<1>3. LastLevel(w) = Deepest(D)
  BY DEF LastLevel
<1> HIDE DEF w
<1>4. D \subseteq Nat /\ (\A k \in D : k <= N) /\ \A i \in keep : w[i] \in D
  BY <1>1, <1>2
<1> HIDE DEF D
<1>5. Deepest(D) \in Nat /\ \A i \in keep : w[i] <= Deepest(D)
  BY <1>4, DeepestIsMax
<1>. QED
  BY <1>3, <1>5 DEF w

(***************************************************************************)
(* The reference, unfolded.                                                *)
(***************************************************************************)
RefInput(d, res, i, id) ==
  IF Earlier(d.ns, DOMAIN d.ns, i, id) = {} THEN InputFailed
  ELSE res[CHOOSE j \in Earlier(d.ns, DOMAIN d.ns, i, id) : TRUE]

RefStep(d, res, i) ==
  IF \/ HasBase(d.ns[i].op) /\ ~RefInput(d, res, i, d.ns[i].op.a).ok
     \/ HasBase2(d.ns[i].op) /\ ~RefInput(d, res, i, d.ns[i].op.b).ok
  THEN InputFailed
  ELSE Publish(Build(d.ns[i].op, RefInput(d, res, i, d.ns[i].op.a).vol,
                     RefInput(d, res, i, d.ns[i].op.b).vol, d), d.ns[i].it)

RefEquation(res, d, D) == res = [i \in D |-> RefStep(d, res, i)]

LEMMA RefStepLocal ==
  ASSUME NEW d, NEW N \in Nat, DOMAIN d.ns = 1 .. N, NEW i \in Nat, NEW g, NEW h,
         \A j \in DOMAIN d.ns : j < i => g[j] = h[j]
  PROVE  RefStep(d, g, i) = RefStep(d, h, i)
<1>1. ASSUME NEW id PROVE RefInput(d, g, i, id) = RefInput(d, h, i, id)
  <2>1. CASE Earlier(d.ns, DOMAIN d.ns, i, id) = {}
    BY <2>1 DEF RefInput
  <2>2. CASE Earlier(d.ns, DOMAIN d.ns, i, id) # {}
    <3> DEFINE j == CHOOSE j \in Earlier(d.ns, DOMAIN d.ns, i, id) : TRUE
    <3>1. j \in Earlier(d.ns, DOMAIN d.ns, i, id)
      BY <2>2, Zenon
    <3> HIDE DEF j
    <3>2. g[j] = h[j]
      BY <3>1 DEF Earlier
    <3>3. RefInput(d, g, i, id) = g[j] /\ RefInput(d, h, i, id) = h[j]
      BY <2>2, Zenon DEF RefInput, j
    <3>. QED
      BY <3>2, <3>3
  <2>. QED
    BY <2>1, <2>2
<1>2. /\ RefInput(d, g, i, d.ns[i].op.a) = RefInput(d, h, i, d.ns[i].op.a)
      /\ RefInput(d, g, i, d.ns[i].op.b) = RefInput(d, h, i, d.ns[i].op.b)
  BY <1>1
<1>. QED
  BY <1>2 DEF RefStep

LEMMA RefExists ==
  ASSUME NEW d, NEW M \in Nat, DOMAIN d.ns = 1 .. M, NEW N \in Nat
  PROVE  \E res : RefEquation(res, d, 1 .. N)
<1> DEFINE S == {n \in Nat : \E res : RefEquation(res, d, 1 .. n)}
<1>1. 0 \in S
  <2>1. RefEquation([i \in 1 .. 0 |-> 0], d, 1 .. 0)
    BY DEF RefEquation
  <2>. QED
    BY <2>1
<1>2. ASSUME NEW n \in Nat, n \in S PROVE n + 1 \in S
  <2>1. PICK g : RefEquation(g, d, 1 .. n)
    BY <1>2
  <2> DEFINE h == [i \in 1 .. n + 1 |-> IF i = n + 1 THEN RefStep(d, g, i) ELSE g[i]]
  <2>2. \A i \in 1 .. n + 1 : \A j \in DOMAIN d.ns : j < i => g[j] = h[j]
    OBVIOUS
  <2>3. ASSUME NEW i \in 1 .. n + 1
        PROVE  RefStep(d, g, i) = RefStep(d, h, i)
    <3>1. i \in Nat /\ \A j \in DOMAIN d.ns : j < i => g[j] = h[j]
      BY <2>2
    <3> HIDE DEF h
    <3>. QED
      BY <3>1, RefStepLocal
  <2>4. \A i \in 1 .. n : g[i] = RefStep(d, g, i)
    BY <2>1 DEF RefEquation
  <2>5. \A i \in 1 .. n + 1 : h[i] = RefStep(d, h, i)
    <3>1. \A i \in 1 .. n + 1 : h[i] = RefStep(d, g, i)
      BY <2>4
    <3> HIDE DEF h
    <3>. QED
      BY <2>3, <3>1
  <2>6. h = [i \in 1 .. n + 1 |-> h[i]]
    OBVIOUS
  <2> HIDE DEF h
  <2>7. RefEquation(h, d, 1 .. n + 1)
    BY <2>5, <2>6 DEF RefEquation
  <2>. QED
    BY <2>7
<1> HIDE DEF S
<1>3. N \in S
  BY <1>1, <1>2, Counting
<1>. QED
  BY <1>3 DEF S

LEMMA ReferenceUnfolds ==
  ASSUME NEW d, NEW N \in Nat, DOMAIN d.ns = 1 .. N, NEW i \in DOMAIN d.ns
  PROVE  Reference(d)[i] = RefStep(d, Reference(d), i)
<1> DEFINE res == CHOOSE f : RefEquation(f, d, DOMAIN d.ns)
<1>1. RefEquation(res, d, DOMAIN d.ns)
  <2>1. \E f : RefEquation(f, d, DOMAIN d.ns)
    BY RefExists
  <2>. QED
    BY <2>1, Zenon
<1>2. Reference(d) = res
  BY Zenon DEF Reference, RefEquation, RefStep, RefInput
<1> HIDE DEF res
<1>3. res[i] = RefStep(d, res, i)
  BY <1>1 DEF RefEquation
<1>. QED
  BY <1>2, <1>3
(***************************************************************************)
(* Where ids are distinct, a node built on results of the reference, or on *)
(* none for an input that is not listed before it, has the result of the   *)
(* reference.                                                              *)
(***************************************************************************)
InputRight(d, i, id, r) ==
  \/ ~r.ok /\ \A j \in DOMAIN d.ns : j < i => d.ns[j].id # id
  \/ \E j \in DOMAIN d.ns : j < i /\ d.ns[j].id = id /\ r = Reference(d)[j]

LEMMA ReferenceSays ==
  ASSUME NEW d, NEW N \in Nat, DOMAIN d.ns = 1 .. N, NEW i \in DOMAIN d.ns, Distinct(d.ns),
         NEW a, NEW b, BuildsAlike(d.ns[i].op, d, d.ns[i].op, d),
         HasBase(d.ns[i].op) => InputRight(d, i, d.ns[i].op.a, a.r),
         HasBase2(d.ns[i].op) => InputRight(d, i, d.ns[i].op.b, b.r)
  PROVE  ResultFrom(d.ns[i], d, a, b) = Reference(d)[i]
<1> DEFINE n == d.ns[i]
           ra == RefInput(d, Reference(d), i, n.op.a)
           rb == RefInput(d, Reference(d), i, n.op.b)
<1>1. ASSUME NEW id, NEW r, InputRight(d, i, id, r)
      PROVE  LET q == RefInput(d, Reference(d), i, id) IN q = r \/ (~q.ok /\ ~r.ok)
  <2>1. CASE ~r.ok /\ \A j \in DOMAIN d.ns : j < i => d.ns[j].id # id
    <3>1. Earlier(d.ns, DOMAIN d.ns, i, id) = {}
      BY <2>1 DEF Earlier
    <3>2. RefInput(d, Reference(d), i, id) = InputFailed
      BY <3>1 DEF RefInput
    <3>. QED
      BY <2>1, <3>2 DEF InputFailed, Refused
  <2>2. CASE \E j \in DOMAIN d.ns : j < i /\ d.ns[j].id = id /\ r = Reference(d)[j]
    <3>1. PICK j \in DOMAIN d.ns : j < i /\ d.ns[j].id = id /\ r = Reference(d)[j]
      BY <2>2
    <3>2. Earlier(d.ns, DOMAIN d.ns, i, id) = {j}
      BY <3>1 DEF Earlier, Distinct
    <3>3. (CHOOSE k \in {j} : TRUE) = j
      OBVIOUS
    <3>4. RefInput(d, Reference(d), i, id) = Reference(d)[j]
      BY <3>2, <3>3 DEF RefInput
    <3>. QED
      BY <3>1, <3>4
  <2>. QED
    BY <1>1, <2>1, <2>2 DEF InputRight
<1>2. HasBase(n.op) => ra = a.r \/ (~ra.ok /\ ~a.r.ok)
  BY <1>1
<1>3. HasBase2(n.op) => rb = b.r \/ (~rb.ok /\ ~b.r.ok)
  BY <1>1
<1>4. Reference(d)[i] = IF (HasBase(n.op) => ra.ok) /\ (HasBase2(n.op) => rb.ok)
                        THEN Publish(Build(n.op, ra.vol, rb.vol, d), n.it) ELSE InputFailed
  <2>1. Reference(d)[i] = RefStep(d, Reference(d), i)
    BY ReferenceUnfolds
  <2>. QED
    BY <2>1 DEF RefStep
<1>5. CASE (HasBase(n.op) => a.r.ok) /\ (HasBase2(n.op) => b.r.ok)
  <2>1. (HasBase(n.op) => ra = a.r) /\ (HasBase2(n.op) => rb = b.r)
    BY <1>2, <1>3, <1>5
  <2>2. Build(n.op, a.r.vol, b.r.vol, d) = Build(n.op, ra.vol, rb.vol, d)
    <3>1. (HasBase(n.op) => a.r.vol = ra.vol) /\ (HasBase2(n.op) => b.r.vol = rb.vol)
      BY <2>1
    <3> HIDE DEF ra, rb
    <3>. QED
      BY <3>1 DEF BuildsAlike
  <2>. QED
    BY <1>4, <1>5, <2>1, <2>2 DEF ResultFrom
<1>6. CASE ~((HasBase(n.op) => a.r.ok) /\ (HasBase2(n.op) => b.r.ok))
  BY <1>2, <1>3, <1>4, <1>6 DEF ResultFrom
<1>. QED
  BY <1>5, <1>6

-----------------------------------------------------------------------------
(***************************************************************************)
(* The worklist. A visit takes the first id off it and may push the inputs *)
(* of its node; the ids seen and the ids to see only grow together.        *)
(***************************************************************************)
Elements(s) == {s[k] : k \in 1 .. Len(s)}

LEMMA TailElements ==
  ASSUME NEW t \in Seq(Nat), t # <<>>
  PROVE  /\ Head(t) \in Nat /\ Tail(t) \in Seq(Nat) /\ Len(Tail(t)) = Len(t) - 1
         /\ Elements(t) = {Head(t)} \cup Elements(Tail(t))
<1>1. Head(t) = t[1] /\ Head(t) \in Nat /\ Tail(t) \in Seq(Nat) /\ Len(Tail(t)) = Len(t) - 1 /\ Len(t) \in Nat \ {0}
  OBVIOUS
<1>2. \A k \in 1 .. Len(t) - 1 : Tail(t)[k] = t[k + 1]
  OBVIOUS
<1>3. ASSUME NEW x \in Elements(t) PROVE x \in {Head(t)} \cup Elements(Tail(t))
  <2>1. PICK k \in 1 .. Len(t) : x = t[k]
    BY DEF Elements
  <2>2. CASE k = 1
    BY <1>1, <2>1, <2>2
  <2>3. CASE k # 1
    <3>1. k - 1 \in 1 .. Len(Tail(t)) /\ x = Tail(t)[k - 1]
      BY <1>1, <1>2, <2>1, <2>3
    <3>. QED
      BY <3>1 DEF Elements
  <2>. QED
    BY <2>2, <2>3
<1>4. Head(t) \in Elements(t)
  <2>1. 1 \in 1 .. Len(t)
    BY <1>1
  <2>. QED
    BY <1>1, <2>1 DEF Elements
<1>5. Elements(Tail(t)) \subseteq Elements(t)
  <2>1. \A k \in 1 .. Len(Tail(t)) : k + 1 \in 1 .. Len(t) /\ Tail(t)[k] = t[k + 1]
    BY <1>1, <1>2
  <2>. QED
    BY <2>1 DEF Elements
<1>. QED
  BY <1>1, <1>3, <1>4, <1>5

LEMMA PushElements ==
  ASSUME NEW t \in Seq(Nat), NEW x \in Nat
  PROVE  /\ <<x>> \o t \in Seq(Nat) /\ Len(<<x>> \o t) = Len(t) + 1
         /\ Elements(<<x>> \o t) = {x} \cup Elements(t)
<1> DEFINE s == <<x>> \o t
<1>1. s \in Seq(Nat) /\ Len(s) = Len(t) + 1 /\ s # <<>>
  OBVIOUS
<1>2. Head(s) = x /\ Tail(s) = t
  OBVIOUS
<1> HIDE DEF s
<1>3. Elements(s) = {x} \cup Elements(t)
  BY <1>1, <1>2, TailElements
<1>. QED
  BY <1>1, <1>3 DEF s

Inputs(o) == (IF HasBase(o) THEN {o.a} ELSE {}) \cup (IF HasBase2(o) THEN {o.b} ELSE {})

LEMMA PushedElements ==
  ASSUME NEW t \in Seq(Nat), NEW o, o.a \in Nat, o.b \in Nat
  PROVE  /\ Pushed(o, t) \in Seq(Nat)
         /\ Len(Pushed(o, t)) <= Len(t) + 2
         /\ ~HasBase(o) /\ ~HasBase2(o) => Pushed(o, t) = t
         /\ Elements(Pushed(o, t)) = Inputs(o) \cup Elements(t)
<1> DEFINE t2 == IF HasBase2(o) THEN <<o.b>> \o t ELSE t
<1>1. /\ t2 \in Seq(Nat) /\ Len(t2) <= Len(t) + 1
      /\ ~HasBase2(o) => t2 = t
      /\ Elements(t2) = (IF HasBase2(o) THEN {o.b} ELSE {}) \cup Elements(t)
  <2>1. CASE HasBase2(o)
    BY <2>1, PushElements
  <2>2. CASE ~HasBase2(o)
    BY <2>2
  <2>. QED
    BY <2>1, <2>2
<1>2. Pushed(o, t) = IF HasBase(o) THEN <<o.a>> \o t2 ELSE t2
  BY DEF Pushed
<1> HIDE DEF t2
<1>3. CASE HasBase(o)
  BY <1>1, <1>2, <1>3, PushElements DEF Inputs
<1>4. CASE ~HasBase(o)
  BY <1>1, <1>2, <1>4 DEF Inputs
<1>. QED
  BY <1>3, <1>4

(***************************************************************************)
(* There are no more ids than nodes.                                       *)
(***************************************************************************)
LEMMA FewIds ==
  ASSUME NEW ns, NEW N \in Nat, DOMAIN ns = 1 .. N
  PROVE  IsFiniteSet(Ids(ns)) /\ Cardinality(Ids(ns)) <= N
<1> DEFINE f == [i \in 1 .. N |-> ns[i].id]
<1>1. f \in Surjection(1 .. N, Ids(ns))
  BY DEF Surjection, Ids
<1>2. IsFiniteSet(1 .. N) /\ Cardinality(1 .. N) = N
  BY FS_Interval
<1> HIDE DEF f
<1>. QED
  BY <1>1, <1>2, FS_Surjection

NodesOf(ns) == \A i \in DOMAIN ns : NodeShaped(ns[i])

LEMMA OpAtShaped ==
  ASSUME NEW ns, NodesOf(ns), NEW h \in Nat
  PROVE  /\ OpAt(ns, h).a \in Nat /\ OpAt(ns, h).b \in Nat
         /\ h \notin Ids(ns) => ~HasBase(OpAt(ns, h)) /\ ~HasBase2(OpAt(ns, h))
<1>1. CASE h \in Ids(ns)
  <2>1. PICK i \in DOMAIN ns : OpAt(ns, h) = ns[i].op
    BY <1>1 DEF OpAt, Ids
  <2>. QED
    BY <1>1, <2>1 DEF NodesOf, NodeShaped, OpShaped
<1>2. CASE h \notin Ids(ns)
  <2>1. OpAt(ns, h) = Missing
    BY <1>2 DEF OpAt, Ids
  <2>. QED
    BY <2>1 DEF Missing, HasBase, HasBase2, BasedKinds, BooleanKinds
<1>. QED
  BY <1>1, <1>2

(***************************************************************************)
(* How many visits a worklist can still take: each visit takes one off, an *)
(* id seen for the first time adds two and is not unseen any more.         *)
(***************************************************************************)
Unseen(ns, w) == Ids(ns) \ w.acc
Visits(ns, w) == Len(w.todo) + 2 * Cardinality(Unseen(ns, w))
Reached(w) == w.acc \cup Elements(w.todo)
Supported(ns, w) == \A h \in w.acc : Inputs(OpAt(ns, h)) \subseteq Reached(w)

LEMMA VisitStep ==
  ASSUME NEW ns, NEW N \in Nat, DOMAIN ns = 1 .. N, NodesOf(ns),
         NEW w \in Worklists, w.todo # <<>>, Supported(ns, w)
  PROVE  LET v == Visit(ns, w)
         IN  /\ v \in Worklists /\ Supported(ns, v) /\ Reached(w) \subseteq Reached(v)
             /\ Visits(ns, v) \in Nat /\ Visits(ns, v) + 1 <= Visits(ns, w)
<1> DEFINE h == Head(w.todo)
           t == Tail(w.todo)
           v == Visit(ns, w)
           o == OpAt(ns, h)
<1>1. w.todo \in Seq(Nat) /\ w.acc \subseteq Nat
  BY DEF Worklists
<1>2. /\ h \in Nat /\ t \in Seq(Nat) /\ Len(t) = Len(w.todo) - 1 /\ Len(t) \in Nat
      /\ Elements(w.todo) = {h} \cup Elements(t)
  BY <1>1, TailElements
<1>3. IsFiniteSet(Unseen(ns, w)) /\ Cardinality(Unseen(ns, w)) \in Nat
  BY FewIds, FS_Subset, FS_CardinalityType DEF Unseen
<1>4. CASE h \in w.acc
  <2>1. v = [todo |-> t, acc |-> w.acc]
    BY <1>4 DEF Visit
  <2> HIDE DEF v, t, h
  <2>2. v \in Worklists /\ v.todo = t /\ v.acc = w.acc
    BY <1>1, <1>2, <2>1 DEF Worklists
  <2>3. Reached(v) = Reached(w)
    BY <1>2, <1>4, <2>2 DEF Reached
  <2>4. Unseen(ns, v) = Unseen(ns, w)
    BY <2>2 DEF Unseen
  <2>5. Visits(ns, v) \in Nat /\ Visits(ns, v) + 1 <= Visits(ns, w)
    BY <1>2, <1>3, <2>2, <2>4 DEF Visits
  <2>6. Supported(ns, v)
    BY <2>2, <2>3 DEF Supported
  <2>. QED
    BY <2>2, <2>3, <2>5, <2>6 DEF v
<1>5. CASE h \notin w.acc
  <2>1. v = [todo |-> Pushed(o, t), acc |-> w.acc \cup {h}]
    BY <1>5 DEF Visit
  <2>2. o.a \in Nat /\ o.b \in Nat /\ (h \notin Ids(ns) => ~HasBase(o) /\ ~HasBase2(o))
    BY <1>2, OpAtShaped
  <2>3. /\ Pushed(o, t) \in Seq(Nat) /\ Len(Pushed(o, t)) <= Len(t) + 2
        /\ h \notin Ids(ns) => Pushed(o, t) = t
        /\ Elements(Pushed(o, t)) = Inputs(o) \cup Elements(t)
    <3> HIDE DEF t, o
    <3>. QED
      BY <1>2, <2>2, PushedElements
  <2>0. \A x \in w.acc : Inputs(OpAt(ns, x)) \subseteq Reached(w)
    BY DEF Supported
  <2>00. Inputs(OpAt(ns, h)) = Inputs(o)
    OBVIOUS
  <2> HIDE DEF v, t, h, o
  <2>4. /\ v \in Worklists /\ v.todo = Pushed(o, t) /\ v.acc = w.acc \cup {h}
    BY <1>1, <1>2, <2>1, <2>3 DEF Worklists
  <2>5. Reached(v) = Reached(w) \cup Inputs(o)
    BY <1>2, <2>3, <2>4 DEF Reached
  <2>6. Supported(ns, v)
    BY <2>0, <2>00, <2>4, <2>5 DEF Supported
  <2>7. Len(v.todo) \in Nat
    BY <2>3, <2>4
  <2>8. Visits(ns, v) \in Nat /\ Visits(ns, v) + 1 <= Visits(ns, w)
    <3>1. CASE h \in Ids(ns)
      <4>1. Unseen(ns, v) = Unseen(ns, w) \ {h} /\ h \in Unseen(ns, w)
        BY <1>5, <2>4, <3>1 DEF Unseen
      <4>2. Cardinality(Unseen(ns, v)) = Cardinality(Unseen(ns, w)) - 1
            /\ Cardinality(Unseen(ns, v)) \in Nat
        BY <1>3, <4>1, FS_RemoveElement, FS_CardinalityType
      <4>3. Len(w.todo) \in Nat /\ Len(v.todo) <= Len(w.todo) + 1
        BY <1>1, <1>2, <2>3, <2>4, <2>7
      <4>4. ASSUME NEW p \in Nat, NEW q \in Nat, NEW x \in Nat, NEW y \in Nat,
                   p <= q + 1, x = y - 1
            PROVE  p + 2 * x \in Nat /\ p + 2 * x + 1 <= q + 2 * y
        BY <4>4
      <4>. QED
        BY <1>3, <2>7, <4>2, <4>3, <4>4 DEF Visits
    <3>2. CASE h \notin Ids(ns)
      <4>1. Unseen(ns, v) = Unseen(ns, w)
        BY <2>4, <3>2 DEF Unseen
      <4>. QED
        BY <1>2, <1>3, <2>3, <2>4, <3>2, <4>1 DEF Visits
    <3>. QED
      BY <3>1, <3>2
  <2>. QED
    BY <2>4, <2>5, <2>6, <2>8 DEF v
<1>. QED
  BY <1>4, <1>5

(***************************************************************************)
(* With fuel for every visit it can take, a worklist ends with the ids it  *)
(* started from and the inputs of every node it has seen; NeedIds has that *)
(* fuel.                                                                   *)
(***************************************************************************)
InputClosed(ns, S) == \A h \in S : Inputs(OpAt(ns, h)) \subseteq S

Sufficient(ns, g, f) ==
  \A w \in Worklists :
    Supported(ns, w) /\ Visits(ns, w) <= f
    => Reached(w) \subseteq g[f][w] /\ InputClosed(ns, g[f][w])

LEMMA NeedSuffices ==
  ASSUME NEW ns, NEW N \in Nat, DOMAIN ns = 1 .. N, NodesOf(ns), NEW F \in Nat, NEW g,
         NeedEquation(g, ns, F)
  PROVE  Sufficient(ns, g, F)
<1> DEFINE S == {f \in Nat : f <= F => Sufficient(ns, g, f)}
<1>1. ASSUME NEW w \in Worklists, w.todo = <<>>, Supported(ns, w)
      PROVE  Reached(w) \subseteq w.acc /\ InputClosed(ns, w.acc)
  <2>1. Reached(w) = w.acc
    BY <1>1 DEF Reached, Elements
  <2>. QED
    BY <1>1, <2>1 DEF Supported, InputClosed
<1>2. ASSUME NEW w \in Worklists
      PROVE  Visits(ns, w) \in Nat /\ (Visits(ns, w) <= 0 => w.todo = <<>>)
  <2>1. Cardinality(Unseen(ns, w)) \in Nat
    BY FewIds, FS_Subset, FS_CardinalityType DEF Unseen
  <2>2. w.todo \in Seq(Nat)
    BY DEF Worklists
  <2>3. Len(w.todo) \in Nat /\ (Len(w.todo) = 0 => w.todo = <<>>)
    BY <2>2
  <2>. QED
    BY <2>1, <2>3 DEF Visits
<1>3. 0 \in S
  <2>1. g[0] = Exhausted
    BY DEF NeedEquation
  <2>2. ASSUME NEW w \in Worklists PROVE g[0][w] = w.acc
    BY <2>1 DEF Exhausted
  <2>. QED
    BY <1>1, <1>2, <2>2 DEF Sufficient
<1>4. ASSUME NEW f \in Nat, f \in S PROVE f + 1 \in S
  <2>. SUFFICES ASSUME f + 1 <= F PROVE Sufficient(ns, g, f + 1)
    OBVIOUS
  <2>1. Sufficient(ns, g, f)
    BY <1>4
  <2>2. g[f + 1] = Visited(ns, g[f])
    BY DEF NeedEquation
  <2>3. SUFFICES ASSUME NEW w \in Worklists, Supported(ns, w), Visits(ns, w) <= f + 1
                 PROVE  Reached(w) \subseteq g[f + 1][w] /\ InputClosed(ns, g[f + 1][w])
    BY DEF Sufficient
  <2>4. g[f + 1][w] = IF w.todo = <<>> THEN w.acc ELSE g[f][Visit(ns, w)]
    BY <2>2 DEF Visited
  <2>5. CASE w.todo = <<>>
    BY <1>1, <2>3, <2>4, <2>5
  <2>6. CASE w.todo # <<>>
    <3> DEFINE v == Visit(ns, w)
    <3>1. /\ v \in Worklists /\ Supported(ns, v) /\ Reached(w) \subseteq Reached(v)
          /\ Visits(ns, v) \in Nat /\ Visits(ns, v) + 1 <= Visits(ns, w)
      BY <2>3, <2>6, VisitStep
    <3>2. Visits(ns, w) \in Nat
      BY <1>2
    <3>3. Visits(ns, v) <= f
      BY <2>3, <3>1, <3>2
    <3>4. Reached(v) \subseteq g[f][v] /\ InputClosed(ns, g[f][v])
      BY <2>1, <3>1, <3>3 DEF Sufficient
    <3>. QED
      BY <2>4, <2>6, <3>1, <3>4
  <2>. QED
    BY <2>5, <2>6
<1> HIDE DEF S
<1>5. F \in S
  BY <1>3, <1>4, Counting
<1>. QED
  BY <1>5 DEF S

LEMMA NeedCloses ==
  ASSUME NEW ns, NEW N \in Nat, DOMAIN ns = 1 .. N, Len(ns) = N, NodesOf(ns),
         NEW want \in Seq(Nat)
  PROVE  /\ Elements(want) \subseteq NeedIds(ns, want)
         /\ InputClosed(ns, NeedIds(ns, want))
<1> DEFINE F == Fuel(ns, want)
           w == [todo |-> want, acc |-> {}]
<1>1. F \in Nat /\ F = 3 * N + Len(want) + 1 /\ Len(want) \in Nat
  BY DEF Fuel
<1> HIDE DEF F
<1>2. PICK g : NeedEquation(g, ns, F) /\ NeedIds(ns, want) = g[F][w]
  BY <1>1, NeedUnfolds DEF F
<1>3. Sufficient(ns, g, F)
  BY <1>1, <1>2, NeedSuffices
<1>4. w \in Worklists /\ Supported(ns, w) /\ Reached(w) = Elements(want)
  BY DEF Worklists, Supported, Reached
<1>5. Visits(ns, w) <= F
  <2>1. Unseen(ns, w) = Ids(ns)
    BY DEF Unseen
  <2>2. Cardinality(Ids(ns)) \in Nat /\ Cardinality(Ids(ns)) <= N
    BY FewIds, FS_CardinalityType
  <2>3. Visits(ns, w) = Len(want) + 2 * Cardinality(Ids(ns))
    BY <2>1 DEF Visits
  <2>. QED
    BY <1>1, <2>2, <2>3
<1> HIDE DEF w
<1>. QED
  BY <1>2, <1>3, <1>4, <1>5 DEF Sufficient

-----------------------------------------------------------------------------
(***************************************************************************)
(* What is kept for a request has the inputs of every kept node that the   *)
(* design lists, and the nodes the request names.                          *)
(***************************************************************************)
LEMMA WantTyped ==
  ASSUME NEW want, want \in Asked \cup {<<>>}
  PROVE  want \in Seq(Nat)
<1>1. <<>> \in Seq(Nat)
  OBVIOUS
<1>2. CASE want \in Asked
  BY <1>2, RequestsShaped
<1>. QED
  BY <1>1, <1>2

LEMMA KeptClosed ==
  ASSUME NEW d \in Shapes, Distinct(d.ns), NEW want, want \in Asked \cup {<<>>}, NEW v, NEW st,
         NEW i \in Keep(d, v, st, want), NEW j \in DOMAIN d.ns,
         d.ns[j].id \in Inputs(d.ns[i].op)
  PROVE  j \in Keep(d, v, st, want)
<1> DEFINE ns == d.ns
           N == Len(ns)
<1>1. NodesOf(ns) /\ N \in Nat /\ DOMAIN ns = 1 .. N
  BY ShapesShaped DEF NodesOf
<1>2. want \in Seq(Nat)
  BY WantTyped
<1>3. CASE v = "apply" \/ (v = "query" /\ st = 1) \/ want = <<>>
  BY <1>3 DEF Keep, KeptFor
<1>4. CASE ~(v = "apply" \/ (v = "query" /\ st = 1)) /\ want # <<>>
  <2>1. Keep(d, v, st, want) = {k \in DOMAIN ns : ns[k].id \in NeedIds(ns, want)}
    BY <1>4 DEF Keep, KeptFor
  <2>2. InputClosed(ns, NeedIds(ns, want))
    BY <1>1, <1>2, NeedCloses
  <2>3. i \in DOMAIN ns /\ ns[i].id \in NeedIds(ns, want)
    BY <2>1
  <2>4. OpAt(ns, ns[i].id) = ns[i].op
    <3>1. \E k \in DOMAIN ns : ns[k].id = ns[i].id
      BY <2>3
    <3>2. PICK k \in DOMAIN ns : ns[k].id = ns[i].id /\ OpAt(ns, ns[i].id) = ns[k].op
      BY <3>1 DEF OpAt
    <3>. QED
      BY <2>3, <3>2 DEF Distinct
  <2>5. ns[j].id \in NeedIds(ns, want)
    BY <2>2, <2>3, <2>4 DEF InputClosed
  <2>. QED
    BY <2>1, <2>5
<1>. QED
  BY <1>3, <1>4

LEMMA KeptAsked ==
  ASSUME NEW d \in Shapes, NEW want, want \in Asked \cup {<<>>}, NEW v, NEW st,
         v = "apply" => want = <<>>, v = "query" => st # 1
  PROVE  /\ Len(want) = 0 => Keep(d, v, st, want) = DOMAIN d.ns
         /\ \A k \in DOMAIN want : \A i \in DOMAIN d.ns :
              d.ns[i].id = want[k] => i \in Keep(d, v, st, want)
<1> DEFINE ns == d.ns
           N == Len(ns)
<1>1. NodesOf(ns) /\ N \in Nat /\ DOMAIN ns = 1 .. N
  BY ShapesShaped DEF NodesOf
<1>2. want \in Seq(Nat)
  BY WantTyped
<1>3. CASE want = <<>>
  BY <1>3 DEF Keep, KeptFor
<1>4. CASE want # <<>>
  <2>1. Keep(d, v, st, want) = {i \in DOMAIN ns : ns[i].id \in NeedIds(ns, want)}
    BY <1>4 DEF Keep, KeptFor
  <2>2. Elements(want) \subseteq NeedIds(ns, want)
    BY <1>1, <1>2, NeedCloses
  <2>3. \A k \in DOMAIN want : want[k] \in Elements(want)
    BY <1>2 DEF Elements
  <2>4. Len(want) # 0
    BY <1>2, <1>4
  <2>. QED
    BY <2>1, <2>2, <2>3, <2>4
<1>. QED
  BY <1>3, <1>4

-----------------------------------------------------------------------------
(***************************************************************************)
(* The levels in a pass. An input of a kept node whose level has come has  *)
(* its entry.                                                              *)
(***************************************************************************)
LEMMA PassFacts ==
  ASSUME IInv, Asking, Levelled, pc # "idle", design \in Shapes
  PROVE  /\ Kept \subseteq DOMAIN design.ns
         /\ \A i \in Kept : ws[i] \in Nat \ {0} /\ ws[i] <= LastLevel(ws)
         /\ LastLevel(ws) \in Nat
         /\ \A i \in Kept : \A j \in InputPositions(design.ns, Kept, i) : ws[j] < ws[i]
<1> DEFINE N == Len(design.ns)
<1>1. N \in Nat /\ DOMAIN design.ns = 1 .. N
  BY ShapesShaped
<1>2. Kept \subseteq DOMAIN design.ns /\ ws = Levels(design.ns, Kept)
  BY DEF IInv, PassOfDesign, Kept, Levelled
<1>3. /\ \A i \in Kept : Levels(design.ns, Kept)[i] \in 1 .. i
      /\ LastLevel(Levels(design.ns, Kept)) \in Nat
      /\ \A i \in Kept : Levels(design.ns, Kept)[i] <= LastLevel(Levels(design.ns, Kept))
      /\ \A i \in Kept : \A j \in InputPositions(design.ns, Kept, i) :
           Levels(design.ns, Kept)[j] < Levels(design.ns, Kept)[i]
  BY <1>1, <1>2, LevelsBound, LastLevelIsLast, LevelsRise
<1> HIDE DEF N
<1>4. \A i \in Kept : ws[i] \in Nat \ {0}
  BY <1>1, <1>2, <1>3
<1>. QED
  BY <1>2, <1>3, <1>4

LEMMA EarlierIsInput ==
  ASSUME NEW ns, NEW keep, NEW i, NEW id, id \in Inputs(ns[i].op)
  PROVE  Earlier(ns, keep, i, id) \subseteq InputPositions(ns, keep, i)
BY DEF Inputs, InputPositions

LEMMA SettledInputs ==
  ASSUME IInv, Asking, Levelled, pc # "idle", design \in Shapes, Distinct(design.ns),
         NEW i \in Kept, ws[i] <= lvl, NEW j \in DOMAIN design.ns,
         design.ns[j].id \in Inputs(design.ns[i].op)
  PROVE  j < i /\ Has(acc, design.ns[j].id)
<1>1. Kept \subseteq DOMAIN design.ns /\ Kept = Keep(design, verb, stage, ids)
  BY PassFacts DEF Asking
<1>2. j \in Kept
  BY <1>1, KeptClosed DEF Asking
<1>3. j < i
  BY <1>1, ShapesShaped DEF Ordered, Inputs
<1>4. j \in Earlier(design.ns, Kept, i, design.ns[j].id)
  BY <1>2, <1>3 DEF Earlier
<1>5. ws[j] < ws[i]
  BY <1>4, EarlierIsInput, PassFacts
<1>6. ws[j] < lvl
  <2>1. ws[i] \in Nat /\ ws[j] \in Nat /\ lvl \in Nat
    BY <1>2, PassFacts DEF IInv, TypeOK
  <2>. QED
    BY <1>5, <2>1
<1>. QED
  BY <1>2, <1>3, <1>6 DEF Levelled

OneEach(S) == \A c, e \in S : c.id = e.id => c = e

LEMMA FindOne ==
  ASSUME NEW S, NEW T, S \subseteq T, OneEach(T), NEW id, Has(T, id) => Has(S, id)
  PROVE  Find(S, id) = Find(T, id)
<1>1. CASE Has(T, id)
  <2>1. PICK c \in S : c.id = id
    BY <1>1 DEF Has
  <2>2. Find(S, id) = c /\ Find(T, id) = c
    BY <1>1, <2>1 DEF Find, OneEach, Has
  <2>. QED
    BY <2>2
<1>2. CASE ~Has(T, id)
  BY <1>2 DEF Find, Has
<1>. QED
  BY <1>1, <1>2

LEMMA KeyStays ==
  ASSUME NEW d, NEW i, NEW S, NEW T, S \subseteq T, OneEach(T),
         \A id \in Inputs(d.ns[i].op) : Has(T, id) => Has(S, id)
  PROVE  Right(d, i, S) = Right(d, i, T)
<1>1. /\ HasBase(d.ns[i].op) => Find(S, d.ns[i].op.a) = Find(T, d.ns[i].op.a)
      /\ HasBase2(d.ns[i].op) => Find(S, d.ns[i].op.b) = Find(T, d.ns[i].op.b)
  BY FindOne DEF Inputs
<1>2. KeyOf(d.ns[i], d.ps, S) = KeyOf(d.ns[i], d.ps, T)
  BY <1>1 DEF KeyOf
<1>. QED
  BY <1>2 DEF Right

LEMMA RightIsOne ==
  ASSUME IInv, RightEntries, pc # "idle", design \in Shapes, WellFormed
  PROVE  /\ OneEach(acc \cup now)
         /\ \A c \in acc \cup now : \E i \in DOMAIN design.ns :
              c.id = design.ns[i].id /\ c.r = Reference(design)[i]
<1>1. Kept \subseteq DOMAIN design.ns
  BY DEF IInv, PassOfDesign, Kept
<1>2. \A c \in acc \cup now : \E i \in DOMAIN design.ns : c = Right(design, i, acc)
  BY <1>1 DEF RightEntries
<1>3. \A i \in DOMAIN design.ns : Right(design, i, acc).id = design.ns[i].id
                                 /\ Right(design, i, acc).r = Reference(design)[i]
  BY DEF Right
<1>4. OneEach(acc \cup now)
  BY <1>2, <1>3 DEF OneEach, WellFormed, Distinct
<1>5. ASSUME NEW c \in acc \cup now
      PROVE  \E i \in DOMAIN design.ns : c.id = design.ns[i].id /\ c.r = Reference(design)[i]
  BY <1>2, <1>3
<1>. QED
  BY <1>4, <1>5

(***************************************************************************)
(* The entry a node is given is the one it should have.                    *)
(***************************************************************************)
LEMMA NewRight ==
  ASSUME IInv, Asking, Levelled, RightEntries, pc = "pass", WellFormed, NEW i \in todo
  PROVE  EntryOf(design, Kept, i, acc, old) = Right(design, i, acc)
<1> DEFINE d == design
           n == d.ns[i]
           N == Len(d.ns)
<1>1. d \in Shapes /\ i \in Kept /\ ws[i] = lvl /\ i \in DOMAIN d.ns
  BY DEF IInv, PassOfDesign, Levelled, AtLevel, Kept
<1>2. N \in Nat /\ DOMAIN d.ns = 1 .. N /\ Distinct(d.ns)
  BY <1>1, ShapesShaped DEF WellFormed
<1>3. lvl \in Nat
  BY DEF IInv, TypeOK
<1>4. ASSUME NEW id, id \in Inputs(n.op)
      PROVE  InputRight(d, i, id, Find(acc, id).r)
  <2>1. CASE \E j \in DOMAIN d.ns : d.ns[j].id = id
    <3>1. PICK j \in DOMAIN d.ns : d.ns[j].id = id
      BY <2>1
    <3>2. j < i /\ Has(acc, id)
      BY <1>1, <1>2, <1>3, <1>4, <3>1, SettledInputs
    <3>3. PICK c \in acc : c.id = id /\ Find(acc, id) = c
      BY <3>2 DEF Has, Find
    <3>4. PICK k \in DOMAIN d.ns : c.id = d.ns[k].id /\ c.r = Reference(d)[k]
      BY <1>1, <3>3, RightIsOne
    <3>5. k = j
      BY <1>2, <3>1, <3>3, <3>4 DEF Distinct
    <3>. QED
      BY <3>1, <3>2, <3>3, <3>4, <3>5 DEF InputRight
  <2>2. CASE \A j \in DOMAIN d.ns : d.ns[j].id # id
    <3>1. ~Has(acc, id)
      BY <1>1, <2>2, RightIsOne DEF Has
    <3>2. ~Find(acc, id).r.ok
      BY <3>1 DEF Find, Refused
    <3>. QED
      BY <2>2, <3>2 DEF InputRight
  <2>. QED
    BY <2>1, <2>2
<1>5. BuildsAlike(n.op, d, n.op, d)
  BY <1>1, EqualBuilds
<1>6. (HasBase(n.op) => n.op.a \in Inputs(n.op)) /\ (HasBase2(n.op) => n.op.b \in Inputs(n.op))
  BY DEF Inputs
<1> DEFINE a == Find(acc, n.op.a)
           b == Find(acc, n.op.b)
<1>7. /\ HasBase(n.op) => InputRight(d, i, n.op.a, a.r)
      /\ HasBase2(n.op) => InputRight(d, i, n.op.b, b.r)
  BY <1>4, <1>6
<1>8. ResultFrom(n, d, a, b) = Reference(d)[i]
  <2> HIDE DEF a, b, N
  <2>. QED
    BY <1>1, <1>2, <1>5, <1>7, ReferenceSays
<1>9. EntryOf(d, Kept, i, acc, old) = EntryAfresh(d, i, acc)
  BY NewEntry
<1>. QED
  BY <1>8, <1>9 DEF EntryAfresh, Right

-----------------------------------------------------------------------------
(***************************************************************************)
(* The invariant of fresh answers is inductive, given the first one.       *)
(***************************************************************************)
LEMMA InitFresh == Init => FreshInv
<1>. SUFFICES ASSUME Init
              PROVE  FreshInv
  OBVIOUS
<1>1. Kept = {}
  BY DEF Init, Kept
<1>2. Asking
  BY DEF Init, Asking
<1>3. Levelled
  BY <1>1 DEF Init, Levelled
<1>4. RightEntries /\ Reuses /\ AnswerFresh /\ SecondPassBuildsNothing
  BY DEF Init, RightEntries, Reuses, AnswerFresh, SecondPassBuildsNothing
<1>. QED
  BY <1>2, <1>3, <1>4 DEF FreshInv

AllRight(d, S) ==
  /\ \A i \in DOMAIN d.ns : Right(d, i, S) \in S
  /\ \A c \in S : \E i \in DOMAIN d.ns : c = Right(d, i, S)

(***************************************************************************)
(* Starting a pass, over entries that are all right if it is the second    *)
(* one of a query.                                                         *)
(***************************************************************************)
LEMMA StartFresh ==
  ASSUME NEW v, NEW st \in {1, 2}, NEW d \in Shapes, NEW want, want \in Asked \cup {<<>>}, NEW reuse,
         StartPass(v, st, d, want, reuse),
         pc' = "pass", verb' = v, ids' = want, v = "apply" => want = <<>>,
         v = "query" /\ st = 2 /\ Distinct(d.ns) /\ Distinct(d.ps) => AllRight(d, reuse)
  PROVE  FreshInv'
<1> DEFINE keep == Keep(d, v, st, want)
           w == Levels(d.ns, keep)
           N == Len(d.ns)
<1>1. /\ stage' = st /\ design' = d /\ old' = reuse /\ ws' = w
      /\ lvl' = 1 /\ todo' = AtLevel(w, 1) /\ now' = {} /\ acc' = {} /\ built' = {}
  BY DEF StartPass
<1>2. N \in Nat /\ DOMAIN d.ns = 1 .. N /\ keep \subseteq DOMAIN d.ns
  BY ShapesShaped, KeepWithin
<1>3. DOMAIN w = keep /\ \A i \in keep : w[i] \in 1 .. i
  BY <1>2, LevelsUnfold, LevelsBound
<1> HIDE DEF w, keep, N
<1>4. Kept' = keep
  BY <1>1, <1>3 DEF Kept
<1>5. Asking'
  BY <1>1, <1>4 DEF Asking, keep
<1>6. Levelled'
  <2>1. (ws = Levels(design.ns, Kept))'
    BY <1>1, <1>4 DEF w
  <2>2. \A i \in keep : w[i] \in Nat /\ w[i] >= 1
    BY <1>2, <1>3
  <2>3. \A i \in Kept' : ~(ws'[i] < lvl')
    BY <1>1, <1>4, <2>2
  <2>4. \A i \in Kept' : ws'[i] = lvl' => i \in todo'
    BY <1>1, <1>3, <1>4 DEF AtLevel
  <2>5. (todo \subseteq AtLevel(ws, lvl))'
    BY <1>1
  <2>. QED
    BY <2>1, <2>3, <2>4, <2>5 DEF Levelled
<1>7. RightEntries'
  BY <1>1 DEF RightEntries
<1>8. Reuses'
  BY <1>1 DEF Reuses, WellFormed, AllRight
<1>9. AnswerFresh' /\ SecondPassBuildsNothing'
  BY <1>1 DEF AnswerFresh, SecondPassBuildsNothing
<1>. QED
  BY <1>5, <1>6, <1>7, <1>8, <1>9 DEF FreshInv

(***************************************************************************)
(* What an entry should be does not change when entries are added.         *)
(***************************************************************************)
LEMMA RightStays ==
  ASSUME IInv, Asking, Levelled, pc # "idle", design \in Shapes, Distinct(design.ns),
         NEW i \in Kept, ws[i] <= lvl, NEW T, acc \subseteq T, OneEach(T),
         \A c \in T : c.id \in Ids(design.ns)
  PROVE  Right(design, i, acc) = Right(design, i, T)
<1>1. ASSUME NEW id \in Inputs(design.ns[i].op), Has(T, id)
      PROVE  Has(acc, id)
  <2>1. PICK j \in DOMAIN design.ns : design.ns[j].id = id
    BY <1>1 DEF Has, Ids
  <2>. QED
    BY <1>1, <2>1, SettledInputs
<1>. QED
  BY <1>1, KeyStays

(***************************************************************************)
(* A finished pass holds one entry of each kept node, and each is right.   *)
(***************************************************************************)
LEMMA PassDone ==
  ASSUME IInv, FreshInv, PassEnds
  PROVE  /\ design \in Shapes
         /\ \A i \in Kept : Has(acc \cup now, design.ns[i].id)
         /\ OneEach(acc \cup now)
         /\ \A c \in acc \cup now : \E i \in Kept : c = Right(design, i, acc \cup now)
<1>1. /\ pc = "pass" /\ WellFormed /\ todo = {} /\ lvl >= LastLevel(ws)
      /\ Asking /\ Levelled /\ RightEntries
  BY DEF PassEnds, FreshInv
<1>2. design \in Shapes
  BY <1>1 DEF IInv, PassOfDesign
<1>3. \A i \in Kept : ws[i] <= lvl
  <2>1. lvl \in Nat
    BY DEF IInv, TypeOK
  <2>. QED
    BY <1>1, <1>2, <2>1, PassFacts
<1>4. \A i \in Kept : Has(acc \cup now, design.ns[i].id)
  <2>1. ASSUME NEW i \in Kept PROVE Has(acc \cup now, design.ns[i].id)
    <3>1. ws[i] < lvl \/ ws[i] = lvl
      <4>1. ws[i] \in Nat /\ lvl \in Nat
        BY <1>1, <1>2, PassFacts DEF IInv, TypeOK
      <4>. QED
        BY <1>3, <4>1
    <3>2. Has(acc, design.ns[i].id) \/ Has(now, design.ns[i].id)
      BY <1>1, <3>1 DEF Levelled
    <3>. QED
      BY <3>2 DEF Has
  <2>. QED
    BY <2>1
<1>5. OneEach(acc \cup now)
  BY <1>1, <1>2, RightIsOne
<1>6. ASSUME NEW c \in acc \cup now
      PROVE  \E i \in Kept : c = Right(design, i, acc \cup now)
  <2>1. PICK i \in Kept : ws[i] <= lvl /\ c = Right(design, i, acc)
    BY <1>1 DEF RightEntries
  <2>2. \A e \in acc \cup now : e.id \in Ids(design.ns)
    BY <1>1, <1>2, RightIsOne DEF Ids
  <2>3. Right(design, i, acc) = Right(design, i, acc \cup now)
    BY <1>1, <1>2, <1>5, <2>1, <2>2, RightStays DEF WellFormed
  <2>. QED
    BY <2>1, <2>3
<1>. QED
  BY <1>2, <1>4, <1>5, <1>6

LEMMA EvalNodeFresh ==
  ASSUME IInv, FreshInv, NEW i \in todo, EvalNode(i)
  PROVE  FreshInv'
<1> DEFINE c == Right(design, i, acc)
<1>1. /\ pc = "pass" /\ WellFormed
      /\ Asking /\ Levelled /\ RightEntries /\ Reuses /\ SecondPassBuildsNothing
  BY DEF EvalNode, FreshInv
<1>2. /\ design \in Shapes /\ i \in Kept /\ ws[i] = lvl /\ i \in DOMAIN design.ns
      /\ Distinct(design.ns) /\ lvl \in Nat
  BY <1>1 DEF IInv, TypeOK, PassOfDesign, Levelled, AtLevel, Kept, WellFormed
<1>3. now' = now \cup {c} /\ todo' = todo \ {i}
  BY <1>1, NewRight DEF EvalNode
<1>4. UNCHANGED <<pc, verb, ids, bump, stage, design, old, ws, lvl, acc, answer, cache, requests>>
  BY DEF EvalNode, request
<1>5. c.id = design.ns[i].id
  BY DEF Right
<1> HIDE DEF c
<1>6. Asking'
  BY <1>1, <1>4 DEF Asking, Kept
<1>7. Levelled'
  <2>1. Has(now', design.ns[i].id)
    BY <1>3, <1>5 DEF Has
  <2>2. \A id : Has(now, id) => Has(now', id)
    BY <1>3 DEF Has
  <2>3. Kept' = Kept
    BY <1>4 DEF Kept
  <2>. QED
    BY <1>1, <1>3, <1>4, <2>1, <2>2, <2>3 DEF Levelled
<1>8. RightEntries'
  <2>1. \A e \in acc \cup now : \E k \in Kept : ws[k] <= lvl /\ e = Right(design, k, acc)
    BY <1>1 DEF RightEntries
  <2>2. \E k \in Kept : ws[k] <= lvl /\ c = Right(design, k, acc)
    BY <1>2 DEF c
  <2>. QED
    BY <1>3, <1>4, <2>1, <2>2 DEF RightEntries, Kept
<1>9. ASSUME verb = "query", stage = 2
      PROVE  c \in old /\ built' = built
  <2>1. /\ \A k \in DOMAIN design.ns : Right(design, k, old) \in old
        /\ \A e \in old : \E k \in DOMAIN design.ns : e = Right(design, k, old)
        /\ acc \cup now \subseteq old
    BY <1>1, <1>9 DEF Reuses
  <2>2. \A e \in old : e.id \in Ids(design.ns)
    BY <2>1 DEF Right, Ids
  <2>3. \A k \in DOMAIN design.ns : Right(design, k, old).id = design.ns[k].id
    BY DEF Right
  <2>4. OneEach(old)
    BY <1>2, <2>1, <2>3 DEF OneEach, Distinct
  <2>5. c = Right(design, i, old)
    BY <1>1, <1>2, <2>1, <2>2, <2>4, RightStays DEF c
  <2>6. c \in old
    BY <1>2, <2>1, <2>5
  <2>7. Has(old, design.ns[i].id) /\ Find(old, design.ns[i].id) = c
    BY <1>5, <2>4, <2>6 DEF Has, Find, OneEach
  <2>8. c.key = KeyOf(design.ns[i], design.ps, acc)
    BY DEF c, Right
  <2>9. Reusable(old, design.ns[i].id, KeyOf(design.ns[i], design.ps, acc))
    BY <2>7, <2>8 DEF Reusable
  <2>. QED
    BY <2>6, <2>9 DEF EvalNode
<1>10. Reuses'
  BY <1>1, <1>3, <1>4, <1>9 DEF Reuses, WellFormed
<1>11. AnswerFresh' /\ SecondPassBuildsNothing'
  BY <1>1, <1>4, <1>9 DEF AnswerFresh, SecondPassBuildsNothing
<1>. QED
  BY <1>6, <1>7, <1>8, <1>10, <1>11 DEF FreshInv

LEMMA EndLevelFresh ==
  ASSUME IInv, FreshInv, EndLevel
  PROVE  FreshInv'
<1>1. /\ pc = "pass" /\ WellFormed /\ todo = {}
      /\ Asking /\ Levelled /\ RightEntries /\ Reuses /\ SecondPassBuildsNothing
  BY DEF EndLevel, FreshInv
<1>2. design \in Shapes /\ Distinct(design.ns) /\ lvl \in Nat
  BY <1>1 DEF IInv, TypeOK, PassOfDesign, WellFormed
<1>3. acc' = acc \cup now /\ now' = {} /\ lvl' = lvl + 1 /\ todo' = AtLevel(ws, lvl + 1)
  BY DEF EndLevel
<1>4. UNCHANGED <<pc, verb, ids, bump, stage, design, old, ws, built, answer, cache, requests>>
  BY DEF EndLevel, request
<1>5. Kept' = Kept
  BY <1>4 DEF Kept
<1>6. Asking'
  BY <1>1, <1>4, <1>5 DEF Asking
<1>7. Levelled'
  <2>1. \A i \in Kept : ws[i] \in Nat
    BY <1>1, <1>2, PassFacts
  <2>2. ASSUME NEW i \in Kept, ws[i] < lvl + 1
        PROVE  Has(acc \cup now, design.ns[i].id)
    <3>1. ws[i] < lvl \/ ws[i] = lvl
      BY <1>2, <2>1, <2>2
    <3>2. Has(acc, design.ns[i].id) \/ Has(now, design.ns[i].id)
      BY <1>1, <3>1 DEF Levelled
    <3>. QED
      BY <3>2 DEF Has
  <2>3. \A i \in Kept : ws[i] = lvl + 1 => i \in todo'
    BY <1>3 DEF AtLevel, Kept
  <2>. QED
    BY <1>1, <1>3, <1>4, <1>5, <2>2, <2>3 DEF Levelled
<1>8. RightEntries'
  <2>1. ASSUME NEW c \in acc \cup now
        PROVE  \E i \in Kept : ws[i] <= lvl + 1 /\ c = Right(design, i, acc \cup now)
    <3>1. PICK i \in Kept : ws[i] <= lvl /\ c = Right(design, i, acc)
      BY <1>1 DEF RightEntries
    <3>2. OneEach(acc \cup now) /\ \A e \in acc \cup now : e.id \in Ids(design.ns)
      BY <1>1, <1>2, RightIsOne DEF Ids
    <3>3. Right(design, i, acc) = Right(design, i, acc \cup now)
      BY <1>1, <1>2, <3>1, <3>2, RightStays
    <3>4. ws[i] \in Nat
      BY <1>1, <1>2, PassFacts
    <3>5. ws[i] <= lvl + 1
      BY <1>2, <3>1, <3>4
    <3>. QED
      BY <3>1, <3>3, <3>5
  <2>. QED
    BY <1>3, <1>4, <1>5, <2>1 DEF RightEntries
<1>9. Reuses'
  BY <1>1, <1>3, <1>4 DEF Reuses, WellFormed
<1>10. AnswerFresh' /\ SecondPassBuildsNothing'
  BY <1>1, <1>4 DEF AnswerFresh, SecondPassBuildsNothing
<1>. QED
  BY <1>6, <1>7, <1>8, <1>9, <1>10 DEF FreshInv

LEMMA AnswerIsFresh ==
  ASSUME IInv, FreshInv, PassEnds, verb = "query" => stage = 2,
         pc' = "answered", answer' = acc \cup now, UNCHANGED <<request, pass>>
  PROVE  FreshInv'
<1>1. /\ pc = "pass" /\ WellFormed
      /\ Asking /\ Levelled /\ RightEntries /\ Reuses /\ SecondPassBuildsNothing
  BY DEF PassEnds, FreshInv
<1>2. UNCHANGED <<verb, ids, bump, stage, design, old, ws, lvl, todo, now, acc, built>>
  BY DEF request, pass
<1>3. Asking' /\ Levelled' /\ RightEntries' /\ Reuses' /\ SecondPassBuildsNothing'
  BY <1>1, <1>2 DEF Asking, Levelled, RightEntries, Reuses, SecondPassBuildsNothing, WellFormed, Kept
<1>4. /\ design \in Shapes /\ Distinct(design.ns) /\ Kept \subseteq DOMAIN design.ns
      /\ \A i \in Kept : Has(acc \cup now, design.ns[i].id)
      /\ \A c \in acc \cup now : \E i \in Kept : c = Right(design, i, acc \cup now)
  BY <1>1, PassDone DEF WellFormed, IInv, PassOfDesign, Kept
<1>5. /\ Len(ids) = 0 => Kept = DOMAIN design.ns
      /\ \A k \in DOMAIN ids : \A i \in DOMAIN design.ns :
           design.ns[i].id = ids[k] => i \in Kept
  <2>1. Kept = Keep(design, verb, stage, ids) /\ ids \in Asked \cup {<<>>}
        /\ (verb = "apply" => ids = <<>>)
    BY <1>1 DEF Asking
  <2>. QED
    BY <1>4, <2>1, KeptAsked
<1>6. \A c \in acc \cup now : \E i \in Kept :
        c.id = design.ns[i].id /\ c.r = Reference(design)[i]
  BY <1>4 DEF Right
<1>7. Len(ids) = 0 => {c.id : c \in acc \cup now} = Ids(design.ns)
  <2>1. {c.id : c \in acc \cup now} \subseteq Ids(design.ns)
    BY <1>4, <1>6 DEF Ids
  <2>2. ASSUME Len(ids) = 0, NEW x \in Ids(design.ns)
        PROVE  x \in {c.id : c \in acc \cup now}
    BY <1>4, <1>5, <2>2 DEF Ids, Has
  <2>. QED
    BY <2>1, <2>2
<1>8. \A k \in DOMAIN ids : ids[k] \in Ids(design.ns) => Has(acc \cup now, ids[k])
  BY <1>4, <1>5 DEF Ids
<1>9. ASSUME NEW c \in acc \cup now, NEW i \in DOMAIN design.ns, design.ns[i].id = c.id
      PROVE  c.r = Reference(design)[i]
  BY <1>4, <1>6, <1>9 DEF Distinct
<1>10. AnswerFresh'
  BY <1>2, <1>7, <1>8, <1>9 DEF AnswerFresh
<1>. QED
  BY <1>3, <1>10 DEF FreshInv

LEMMA NextFresh ==
  ASSUME IInv, FreshInv, [Next]_vars
  PROVE  FreshInv'
<1>1. CASE Query \/ Apply \/ Sens
  <2>1. PICK v, d, want, b, reuse :
          /\ v \in {"query", "apply", "sens"} /\ d \in Designs /\ want \in Asked \cup {<<>>}
          /\ (v = "apply" => want = <<>>) /\ Request(v, d, want, b, reuse)
    BY <1>1 DEF Query, Apply, Sens
  <2>2. d \in Shapes
    BY <2>1 DEF Shapes
  <2>3. StartPass(v, 1, d, want, reuse) /\ pc' = "pass" /\ verb' = v /\ ids' = want
        /\ 1 \in {1, 2} /\ 1 # 2 /\ (v = "apply" => want = <<>>)
    BY <2>1 DEF Request
  <2>. QED
    BY <2>1, <2>2, <2>3, StartFresh
<1>2. CASE EvalSome
  BY <1>2, EvalNodeFresh DEF EvalSome
<1>3. CASE EndLevel
  BY <1>3, EndLevelFresh
<1>4. CASE EndWholePass
  <2>1. /\ design \in Shapes /\ ids \in Asked \cup {<<>>} /\ Kept = DOMAIN design.ns
        /\ OneEach(acc \cup now)
        /\ \A i \in Kept : Has(acc \cup now, design.ns[i].id)
        /\ \A c \in acc \cup now : \E i \in Kept : c = Right(design, i, acc \cup now)
    BY <1>4, PassDone DEF EndWholePass, PassEnds, FreshInv, Asking, Keep
  <2>2. ASSUME NEW i \in DOMAIN design.ns
        PROVE  Right(design, i, acc \cup now) \in acc \cup now
    <3>1. PICK c \in acc \cup now : c.id = design.ns[i].id
      BY <2>1 DEF Has
    <3>2. PICK k \in DOMAIN design.ns : c = Right(design, k, acc \cup now)
      BY <2>1
    <3>3. design.ns[k].id = design.ns[i].id
      BY <3>1, <3>2 DEF Right
    <3>4. k = i
      BY <1>4, <3>3 DEF EndWholePass, PassEnds, WellFormed, Distinct
    <3>. QED
      BY <3>2, <3>4
  <2>3. AllRight(design, acc \cup now)
    BY <2>1, <2>2 DEF AllRight
  <2>4. /\ StartPass(verb, 2, design, ids, acc \cup now) /\ verb = "query"
        /\ pc' = "pass" /\ verb' = verb /\ ids' = ids
    BY <1>4 DEF EndWholePass, PassEnds, request
  <2>. QED
    BY <2>1, <2>3, <2>4, StartFresh
<1>5. CASE EndFirstSens
  <2>1. Bumped(design, bump) \in Shapes
    BY <1>5 DEF EndFirstSens, PassEnds, IInv, PassOfDesign, Shapes
  <2>2. /\ StartPass(verb, 2, Bumped(design, bump), ids, acc \cup now) /\ verb = "sens"
        /\ pc' = "pass" /\ verb' = verb /\ ids' = ids /\ ids \in Asked \cup {<<>>}
    BY <1>5 DEF EndFirstSens, PassEnds, request, FreshInv, Asking
  <2>. QED
    BY <2>1, <2>2, StartFresh
<1>6. CASE EndApply
  BY <1>6, AnswerIsFresh DEF EndApply, PassEnds
<1>7. CASE EndSecondPass
  BY <1>7, AnswerIsFresh DEF EndSecondPass, PassEnds
<1>8. CASE RefuseDuplicates
  <2>1. pc # "idle" /\ ~WellFormed /\ pc' = "answered"
        /\ UNCHANGED <<verb, ids, bump, stage, design, old, ws, lvl, todo, now, acc, built>>
    BY <1>8 DEF RefuseDuplicates, request, pass
  <2>. QED
    BY <2>1 DEF FreshInv, Asking, Levelled, RightEntries, Reuses, AnswerFresh,
                SecondPassBuildsNothing, WellFormed, Kept
<1>9. CASE Reply \/ Restart
  <2>1. PICK c : Idle(c)
    BY <1>9 DEF Reply, Restart
  <2>2. Kept' = {} /\ pc' = "idle" /\ todo' = {} /\ verb' = "none" /\ ids' = <<>>
    BY <2>1 DEF Idle, Kept
  <2>3. Asking'
    BY <2>2 DEF Asking
  <2>4. Levelled'
    BY <2>2 DEF Levelled
  <2>5. RightEntries' /\ Reuses' /\ AnswerFresh' /\ SecondPassBuildsNothing'
    BY <2>2 DEF RightEntries, Reuses, AnswerFresh, SecondPassBuildsNothing
  <2>. QED
    BY <2>3, <2>4, <2>5 DEF FreshInv
<1>10. CASE UNCHANGED vars
  BY <1>10 DEF vars, request, pass, FreshInv, Asking, Levelled, RightEntries, Reuses, AnswerFresh,
               SecondPassBuildsNothing, WellFormed, Kept
<1>. QED
  BY <1>1, <1>2, <1>3, <1>4, <1>5, <1>6, <1>7, <1>8, <1>9, <1>10 DEF Next, Step

(***************************************************************************)
(* The inputs of a node to do are on earlier levels, and those are done.   *)
(***************************************************************************)
LEMMA FreshSettles ==
  ASSUME IInv, FreshInv
  PROVE  InputsSettled
<1>1. Asking /\ Levelled
  BY DEF FreshInv
<1>. SUFFICES ASSUME NEW i \in todo, NEW id \in Inputs(design.ns[i].op),
                     NEW j \in Earlier(design.ns, Kept, i, id)
              PROVE  Has(acc, id)
  BY DEF InputsSettled, Inputs
<1>2. pc # "idle"
  BY <1>1 DEF Levelled
<1>3. i \in Kept /\ ws[i] = lvl /\ j \in Kept /\ design.ns[j].id = id
  BY <1>1 DEF Levelled, AtLevel, Kept, Earlier
<1>4. design # NoDesign
  BY <1>3 DEF IInv, PassOfDesign, Kept, NoDesign
<1>5. ws[j] < lvl
  BY <1>1, <1>2, <1>3, <1>4, EarlierIsInput, PassFacts DEF IInv, PassOfDesign
<1>. QED
  BY <1>1, <1>3, <1>5 DEF Levelled

(***************************************************************************)
(* Whatever the cache held, whatever part of the design was needed and in  *)
(* whatever order the nodes of a level ran, a request is answered with     *)
(* what evaluating the whole design in list order from nothing gives       *)
(* (srv_query, srv_commit, sens).                                          *)
(***************************************************************************)
THEOREM AnswersAreFresh == Spec => []AnswerFresh
<1>1. Init => IInv /\ FreshInv
  BY InitIInv, InitFresh
<1>2. IInv /\ FreshInv /\ [Next]_vars => (IInv /\ FreshInv)'
  BY NextIInv, NextFresh
<1>3. FreshInv => AnswerFresh
  BY DEF FreshInv
<1>. QED
  BY <1>1, <1>2, <1>3, PTL DEF Spec

(***************************************************************************)
(* No node runs before an input of it that is listed earlier and kept has  *)
(* its entry, so the nodes of a level may run in parallel (ews, ev_lvls).  *)
(***************************************************************************)
THEOREM InputsAreSettled == Spec => []InputsSettled
<1>1. Init => IInv /\ FreshInv
  BY InitIInv, InitFresh
<1>2. IInv /\ FreshInv /\ [Next]_vars => (IInv /\ FreshInv)'
  BY NextIInv, NextFresh
<1>3. IInv /\ FreshInv => InputsSettled
  BY FreshSettles
<1>. QED
  BY <1>1, <1>2, <1>3, PTL DEF Spec

(***************************************************************************)
(* The second pass of a query builds nothing: it finds every node it needs *)
(* in what the first pass left (srv_query hands cs to run_go).             *)
(***************************************************************************)
THEOREM SecondPassReuses == Spec => []SecondPassBuildsNothing
<1>1. Init => IInv /\ FreshInv
  BY InitIInv, InitFresh
<1>2. IInv /\ FreshInv /\ [Next]_vars => (IInv /\ FreshInv)'
  BY NextIInv, NextFresh
<1>3. FreshInv => SecondPassBuildsNothing
  BY DEF FreshInv
<1>. QED
  BY <1>1, <1>2, <1>3, PTL DEF Spec
=============================================================================
