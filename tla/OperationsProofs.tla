----------------------------- MODULE OperationsProofs -----------------------------
(***************************************************************************)
(* Proofs about an evaluation, for every document.                         *)
(*                                                                         *)
(* What an operation id resolves to, and that bodies go into the results    *)
(* of one operation only, does not depend on the handlers' plans: the steps *)
(* that touch the pool are Consume and Produce.  That every consumed body   *)
(* is used, that it is older than what it went into, and that every body of *)
(* the answer is named, does: the second half shows of each handler's plan  *)
(* that it takes before it bears, bears when it takes, and reads only       *)
(* bodies it has looked for.                                                *)
(***************************************************************************)
EXTENDS Operations, SequenceTheorems, WellFoundedInduction, TLAPS

\* The bodies are a sequence, and only bodies are consumed.
PoolShape == (\E A : bodies \in Seq(A)) /\ consumed \subseteq DOMAIN bodies
PoolInv == PoolShape /\ PoolSound

\* A body in the pool went into bodies of one operation only, the one under way if
\* that operation still holds it.
EatenOnce ==
  \A b \in DOMAIN bodies : \A x \in bodies[b].eaten :
    /\ x \in consumed
    /\ x \in held => bodies[b].op = Current
    /\ \A c \in DOMAIN bodies : x \in bodies[c].eaten => bodies[c].op = bodies[b].op
EatenInv ==
  /\ held \subseteq consumed
  /\ status = "ready" => held = {}
  /\ EatenOnce

\* Appending a body leaves the others where they are.
LEMMA AppendBody ==
  ASSUME NEW A, NEW s \in Seq(A), NEW e
  PROVE  /\ Append(s, e) \in Seq(A \cup {e})
         /\ DOMAIN s = 1 .. Len(s) /\ Len(s) \in Nat
         /\ DOMAIN Append(s, e) = DOMAIN s \cup {Len(s) + 1}
         /\ Len(s) + 1 \notin DOMAIN s
         /\ Append(s, e)[Len(s) + 1] = e
         /\ \A i \in DOMAIN s : Append(s, e)[i] = s[i] /\ i <= Len(s) + 1
<1>1. s \in Seq(A \cup {e})
  OBVIOUS
<1>2. /\ Append(s, e) \in Seq(A \cup {e}) /\ Len(Append(s, e)) = Len(s) + 1
      /\ \A i \in 1 .. Len(s) : Append(s, e)[i] = s[i]
      /\ Append(s, e)[Len(s) + 1] = e
  BY <1>1, AppendProperties
<1>3. DOMAIN s = 1 .. Len(s) /\ Len(s) \in Nat
  OBVIOUS
<1>4. DOMAIN Append(s, e) = 1 .. Len(s) + 1
  BY <1>2
<1> QED
  BY <1>2, <1>3, <1>4

\* Produce makes the id stand for the body produced.
LEMMA ProduceKeepsPool ==
  ASSUME PoolInv, NEW e, Produce(e)
  PROVE  PoolInv'
<1>1. PICK A : bodies \in Seq(A)
  BY DEF PoolInv, PoolShape
<1> DEFINE n == Len(bodies) + 1
<1>2. /\ bodies' = Append(bodies, e) /\ consumed' = consumed
      /\ available' = [id \in DOMAIN available \cup {e.op} |->
                         IF id = e.op THEN n ELSE available[id]]
  BY DEF Produce
<1>3. /\ bodies' \in Seq(A \cup {e}) /\ DOMAIN bodies' = DOMAIN bodies \cup {n}
      /\ n \notin DOMAIN bodies /\ bodies'[n] = e /\ n \in Nat /\ DOMAIN bodies \subseteq Nat
      /\ \A i \in DOMAIN bodies : bodies'[i] = bodies[i] /\ i <= n
  BY <1>1, <1>2, AppendBody
<1> HIDE DEF n
<1>4. PoolShape'
  BY <1>2, <1>3 DEF PoolInv, PoolShape
<1>5. AvailableSound'
  <2> SUFFICES ASSUME NEW id \in DOMAIN available'
               PROVE  /\ available'[id] \in BodiesOf(id)' \ consumed'
                      /\ \A b \in BodiesOf(id)' : b <= available'[id]
    BY DEF AvailableSound
  <2>1. CASE id = e.op
    BY <1>2, <1>3, <2>1 DEF PoolInv, PoolShape, BodiesOf
  <2>2. CASE id # e.op
    <3>1. available'[id] = available[id] /\ id \in DOMAIN available
      BY <1>2, <2>2
    <3>2. BodiesOf(id)' = BodiesOf(id)
      BY <1>3, <2>2 DEF BodiesOf
    <3> QED
      BY <1>2, <3>1, <3>2 DEF PoolInv, PoolSound, AvailableSound
  <2> QED
    BY <2>1, <2>2
<1>6. LastBodyAccounted'
  <2> SUFFICES ASSUME NEW b \in DOMAIN bodies', bodies'[b].op \notin DOMAIN available'
               PROVE  \E c \in BodiesOf(bodies[b].op)' : c >= b /\ c \in consumed'
    BY DEF LastBodyAccounted
  <2>1. b \in DOMAIN bodies /\ bodies'[b] = bodies[b]
    BY <1>2, <1>3
  <2>2. PICK c \in BodiesOf(bodies[b].op) : c >= b /\ c \in consumed
    BY <1>2, <2>1 DEF PoolInv, PoolSound, LastBodyAccounted
  <2> QED
    BY <1>2, <1>3, <2>1, <2>2 DEF BodiesOf
<1> QED
  BY <1>4, <1>5, <1>6 DEF PoolInv, PoolSound

\* Consume takes the last body of an id, and the id with it.
LEMMA ConsumeKeepsPool ==
  ASSUME PoolInv, NEW id, Consume(id)
  PROVE  PoolInv' /\ available[id] \in DOMAIN bodies \ consumed
<1>1. /\ id \in DOMAIN available /\ consumed' = consumed \cup {available[id]}
      /\ available' = [x \in DOMAIN available \ {id} |-> available[x]]
      /\ bodies' = bodies
  BY DEF Consume
<1>2. /\ available[id] \in BodiesOf(id) \ consumed
      /\ \A b \in BodiesOf(id) : b <= available[id]
  BY <1>1 DEF PoolInv, PoolSound, AvailableSound
<1>3. PICK A : bodies \in Seq(A)
  BY DEF PoolInv, PoolShape
<1>4. DOMAIN bodies \subseteq Nat
  BY <1>3
<1>5. PoolShape' /\ available[id] \in DOMAIN bodies \ consumed
  BY <1>1, <1>2, <1>3 DEF PoolInv, PoolShape, BodiesOf
<1>6. AvailableSound'
  <2> SUFFICES ASSUME NEW x \in DOMAIN available'
               PROVE  /\ available'[x] \in BodiesOf(x)' \ consumed'
                      /\ \A b \in BodiesOf(x)' : b <= available'[x]
    BY DEF AvailableSound
  <2>1. x \in DOMAIN available /\ x # id /\ available'[x] = available[x]
    BY <1>1
  <2>2. BodiesOf(x)' = BodiesOf(x)
    BY <1>1 DEF BodiesOf
  <2>3. available[x] \in BodiesOf(x) \ consumed /\ \A b \in BodiesOf(x) : b <= available[x]
    BY <2>1 DEF PoolInv, PoolSound, AvailableSound
  <2>4. available[x] # available[id]
    BY <1>2, <2>1, <2>3 DEF BodiesOf
  <2> QED
    BY <1>1, <2>1, <2>2, <2>3, <2>4
<1>7. LastBodyAccounted'
  <2> SUFFICES ASSUME NEW b \in DOMAIN bodies, bodies[b].op \notin DOMAIN available'
               PROVE  \E c \in BodiesOf(bodies[b].op) : c >= b /\ c \in consumed'
    BY <1>1 DEF LastBodyAccounted, BodiesOf
  <2>1. CASE bodies[b].op = id
    BY <1>1, <1>2, <1>4, <2>1 DEF BodiesOf
  <2>2. CASE bodies[b].op # id
    BY <1>1, <2>2 DEF PoolInv, PoolSound, LastBodyAccounted
  <2> QED
    BY <2>1, <2>2
<1> QED
  BY <1>5, <1>6, <1>7 DEF PoolInv, PoolSound

\* A failure discards the pool.
LEMMA DiscardKeepsPool ==
  ASSUME NEW code, Discard(code)
  PROVE  PoolInv'
<1>1. bodies' = << >> /\ consumed' = {} /\ available' = [id \in {} |-> 0]
  BY DEF Discard
<1>2. bodies' \in Seq({}) /\ DOMAIN bodies' = {} /\ DOMAIN available' = {}
  BY <1>1
<1> QED
  BY <1>1, <1>2 DEF PoolInv, PoolShape, PoolSound, AvailableSound, LastBodyAccounted

\* Every step that neither takes, bears nor fails leaves the pool alone.
Quiet == UNCHANGED poolVars
LEMMA PoolSteps ==
  ASSUME [Next]_vars
  PROVE  \/ Quiet
         \/ \E code : Discard(code)
         \/ Taken
         \/ \E e : Produce(e)
BY DEF Next, vars, docVars, Quiet, poolVars, nameVars, Begin, Suppress, Refused, NotThere,
       Unattributed, Attributed, Copied, BornStep, KeptStep, LeftProfile, LeftPath, Finish,
       Cancel, Return, Fail

\* The invariant on the pool holds at the start, after every step, and so always.
LEMMA PoolInvHolds == Spec => []PoolInv
<1>1. Init => PoolInv
  <2> SUFFICES ASSUME Init PROVE PoolInv
    OBVIOUS
  <2>1. bodies = << >> /\ consumed = {} /\ available = [id \in {} |-> 0]
    BY DEF Init
  <2>2. bodies \in Seq({}) /\ DOMAIN bodies = {} /\ DOMAIN available = {}
    BY <2>1
  <2> QED
    BY <2>1, <2>2 DEF PoolInv, PoolShape, PoolSound, AvailableSound, LastBodyAccounted
<1>2. PoolInv /\ [Next]_vars => PoolInv'
  <2> SUFFICES ASSUME PoolInv, [Next]_vars PROVE PoolInv'
    OBVIOUS
  <2>1. CASE Quiet
    BY <2>1 DEF Quiet, poolVars, PoolInv, PoolShape, PoolSound, AvailableSound,
                LastBodyAccounted, BodiesOf
  <2>2. ASSUME NEW code, Discard(code) PROVE PoolInv'
    BY <2>2, DiscardKeepsPool
  <2>3. CASE Taken
    BY <2>3, ConsumeKeepsPool DEF Taken
  <2>4. ASSUME NEW e, Produce(e) PROVE PoolInv'
    BY <2>4, ProduceKeepsPool
  <2> QED
    BY <2>1, <2>2, <2>3, <2>4, PoolSteps
<1> QED
  BY <1>1, <1>2, PTL DEF Spec

\* A step that bears a body gives it what the operation holds.
LEMMA BornKeepsEaten ==
  ASSUME PoolInv, EatenInv, NEW e, Produce(e), e.op = Current, e.eaten = held,
         UNCHANGED <<ops, held, status>>
  PROVE  EatenInv'
<1>1. PICK A : bodies \in Seq(A)
  BY DEF PoolInv, PoolShape
<1> DEFINE n == Len(bodies) + 1
<1>2. bodies' = Append(bodies, e) /\ consumed' = consumed
  BY DEF Produce
<1>3. /\ DOMAIN bodies' = DOMAIN bodies \cup {n} /\ bodies'[n] = e
      /\ \A i \in DOMAIN bodies : bodies'[i] = bodies[i]
  BY <1>1, <1>2, AppendBody
<1> HIDE DEF n
<1>4. Current' = Current
  BY DEF Current
<1>5. SUFFICES ASSUME NEW b \in DOMAIN bodies', NEW x \in bodies'[b].eaten
               PROVE  /\ x \in consumed
                      /\ x \in held => bodies'[b].op = Current
                      /\ \A c \in DOMAIN bodies' :
                           x \in bodies'[c].eaten => bodies'[c].op = bodies'[b].op
  BY <1>2, <1>4 DEF EatenInv, EatenOnce
<1>6. CASE x \in held
  BY <1>3, <1>6 DEF EatenInv, EatenOnce
<1>7. CASE x \notin held
  BY <1>3, <1>7 DEF EatenInv, EatenOnce
<1> QED
  BY <1>6, <1>7

\* A step that takes a body holds one that went into no result yet.
LEMMA TakenKeepsEaten ==
  ASSUME PoolInv, EatenInv, Taken
  PROVE  EatenInv'
<1> DEFINE id == Head(todo).id
<1>1. /\ status = "running" /\ Consume(id) /\ held' = held \cup {available[id]}
      /\ UNCHANGED <<ops, status>>
  BY DEF Taken, Step, Advance
<1> HIDE DEF id
<1>2. available[id] \notin consumed /\ consumed' = consumed \cup {available[id]}
      /\ bodies' = bodies
  BY <1>1, ConsumeKeepsPool DEF Consume
<1> QED
  BY <1>1, <1>2 DEF EatenInv, EatenOnce, Current

\* The other steps leave what was eaten alone: an operation begins holding nothing.
LEMMA OthersKeepEaten ==
  ASSUME EatenInv, [Next]_vars, Quiet, ~ Taken
  PROVE  EatenInv'
<1>1. bodies' = bodies /\ consumed' = consumed
  BY DEF Quiet, poolVars
<1>2. \/ UNCHANGED <<ops, held, status>>
      \/ status = "ready" /\ held' = held
      \/ UNCHANGED ops /\ held' = {}
      \/ \E code : Discard(code)
  BY DEF Next, vars, docVars, Begin, Suppress, Refused, NotThere, Unattributed, Attributed,
         Copied, BornStep, KeptStep, LeftProfile, LeftPath, Finish, Cancel, Return, Fail,
         Advance
<1> QED
  BY <1>1, <1>2 DEF EatenInv, EatenOnce, Current, Discard

LEMMA EatenInvHolds == Spec => []EatenInv
<1>1. Init => EatenInv
  BY DEF Init, EatenInv, EatenOnce
<1>2. PoolInv /\ EatenInv /\ [Next]_vars => EatenInv'
  <2> SUFFICES ASSUME PoolInv, EatenInv, [Next]_vars PROVE EatenInv'
    OBVIOUS
  <2>1. CASE Taken
    BY <2>1, TakenKeepsEaten
  <2>2. ASSUME NEW code, Discard(code) PROVE EatenInv'
    BY <2>2 DEF Discard, EatenInv, EatenOnce
  <2>3. CASE BornStep \/ KeptStep
    BY <2>3, BornKeepsEaten DEF BornStep, KeptStep, MadeBody, Advance
  <2>4. CASE ~ Taken /\ Quiet
    BY <2>4, OthersKeepEaten
  <2> QED
    BY <2>1, <2>2, <2>3, <2>4
       DEF Next, vars, poolVars, Quiet, Begin, Suppress, Refused, NotThere, Unattributed,
           Attributed, Copied, LeftProfile, LeftPath, Finish, Cancel, Return, Fail, nameVars
<1> QED
  BY <1>1, <1>2, PoolInvHolds, PTL DEF Spec

\* For every document: an operation id stands for the last body the operation bore, as
\* long as no later operation has consumed it, and for nothing after that.
THEOREM PoolAlwaysSound == Spec => []PoolSound
<1>1. PoolInv => PoolSound
  BY DEF PoolInv
<1> QED
  BY <1>1, PoolInvHolds, PTL

\* For every document: a body goes into the results of one operation only.
THEOREM MaterialOnce == Spec => []EatenOnce
<1>1. EatenInv => EatenOnce
  BY DEF EatenInv
<1> QED
  BY <1>1, EatenInvHolds, PTL

-----------------------------------------------------------------------------
\* Plans.  What a step of a plan is, and what the steps of a plan promise:
\* a body borne is of a known kind, a body that is kept is a named one, and
\* after a step that must be followed by a birth there is one.
Kinds == {"solid", "surface", "wire"}
Bearing(s) == s.do \in {"born", "kept"}
StepOK(s) ==
  /\ s.do \in StepsOf
  /\ s.do = "refuse" => s.code \in Codes
  /\ Bearing(s) => s.kind \in Kinds
  /\ s.do = "kept" /\ channel # "none" => s.recorded \subseteq named
Nameless(s) == s.do = "born" /\ ~ s.booked /\ channel # "none"
EarlyStep(s) == StepOK(s) /\ ~ Bearing(s)
CheckStep(s) == s.do = "refuse" /\ s.code \in Codes

IsPlan(p) == \E A : p \in Seq(A)
Checks(p) == IsPlan(p) /\ \A i \in DOMAIN p : CheckStep(p[i])
Early(p) == IsPlan(p) /\ \A i \in DOMAIN p : EarlyStep(p[i])
Refuses(p) == \E i \in DOMAIN p : p[i].do = "refuse"
Bears(p) == \E i \in DOMAIN p : Bearing(p[i])

\* The bodies taken go into bodies borne later, of which there is one, and a body
\* borne without names is a flat pattern that is followed by its folded body.
Ordered(p) ==
  /\ IsPlan(p)
  /\ \A i \in DOMAIN p : StepOK(p[i])
  /\ \A i \in DOMAIN p : p[i].do = "take" =>
       /\ \A j \in DOMAIN p : Bearing(p[j]) => i < j
       /\ Bears(p)
  /\ \A i \in DOMAIN p : Nameless(p[i]) =>
       /\ p[i].out = 1 /\ channel = "book"
       /\ \E j \in DOMAIN p : i < j /\ Bearing(p[j])

\* A step that no check stands before reads bodies there are.
ReadsBodies(p) ==
  \A i \in DOMAIN p :
    Bearing(p[i]) /\ (\A j \in DOMAIN p : p[j].do = "refuse" => i < j)
      => p[i].from \subseteq DOMAIN bodies
Follows(p) == Ordered(p) /\ Bears(p)

\* Two plans one after the other.
LEMMA Concatenated ==
  ASSUME NEW p, NEW q, IsPlan(p), IsPlan(q)
  PROVE  /\ IsPlan(p \o q)
         /\ Len(p) \in Nat /\ Len(q) \in Nat
         /\ DOMAIN p = 1 .. Len(p) /\ DOMAIN q = 1 .. Len(q)
         /\ DOMAIN (p \o q) = 1 .. Len(p) + Len(q)
         /\ \A i \in 1 .. Len(p) : (p \o q)[i] = p[i]
         /\ \A i \in 1 .. Len(q) : (p \o q)[Len(p) + i] = q[i]
<1>1. PICK A : p \in Seq(A)
  BY DEF IsPlan
<1>2. PICK B : q \in Seq(B)
  BY DEF IsPlan
<1> DEFINE C == A \cup B
<1>3. p \in Seq(C) /\ q \in Seq(C)
  BY <1>1, <1>2
<1> HIDE DEF C
<1>4. /\ p \o q \in Seq(C) /\ Len(p \o q) = Len(p) + Len(q)
      /\ Len(p) \in Nat /\ Len(q) \in Nat
      /\ DOMAIN p = 1 .. Len(p) /\ DOMAIN q = 1 .. Len(q)
      /\ DOMAIN (p \o q) = 1 .. Len(p \o q)
  BY <1>3
<1>5. \A i \in 1 .. Len(p) : (p \o q)[i] = p[i]
  BY <1>3
<1>6. \A i \in 1 .. Len(q) : (p \o q)[Len(p) + i] = q[i]
  BY <1>3
<1>7. IsPlan(p \o q)
  BY <1>4 DEF IsPlan
<1> QED
  BY <1>4, <1>5, <1>6, <1>7

\* A place of the two is a place of one of them.
LEMMA PlaceInEither ==
  ASSUME NEW p, NEW q, IsPlan(p), IsPlan(q), NEW i \in DOMAIN (p \o q)
  PROVE  /\ i \in Nat
         /\ \/ i \in DOMAIN p /\ (p \o q)[i] = p[i] /\ i <= Len(p)
            \/ i - Len(p) \in DOMAIN q /\ (p \o q)[i] = q[i - Len(p)] /\ i > Len(p)
<1> DEFINE k == i - Len(p)
<1>1. /\ Len(p) \in Nat /\ Len(q) \in Nat /\ i \in Nat
      /\ DOMAIN p = 1 .. Len(p) /\ DOMAIN q = 1 .. Len(q) /\ i \in 1 .. Len(p) + Len(q)
  BY Concatenated
<1>2. CASE i <= Len(p)
  BY <1>1, <1>2, Concatenated
<1>3. CASE i > Len(p)
  <2>1. k \in 1 .. Len(q) /\ i = Len(p) + k
    BY <1>1, <1>3
  <2> HIDE DEF k
  <2>2. (p \o q)[Len(p) + k] = q[k]
    BY <2>1, Concatenated
  <2> QED
    BY <1>1, <1>3, <2>1, <2>2 DEF k
<1> QED
  BY <1>1, <1>2, <1>3

LEMMA PlaceOfEither ==
  ASSUME NEW p, NEW q, IsPlan(p), IsPlan(q)
  PROVE  /\ \A i \in DOMAIN p : i \in DOMAIN (p \o q) /\ (p \o q)[i] = p[i] /\ i <= Len(p)
         /\ \A i \in DOMAIN q : /\ Len(p) + i \in DOMAIN (p \o q)
                                /\ (p \o q)[Len(p) + i] = q[i] /\ i \in Nat /\ i >= 1
         /\ Len(p) \in Nat
<1> DEFINE r == p \o q
<1>1. /\ Len(p) \in Nat /\ Len(q) \in Nat
      /\ DOMAIN p = 1 .. Len(p) /\ DOMAIN q = 1 .. Len(q)
      /\ DOMAIN r = 1 .. Len(p) + Len(q)
      /\ \A i \in 1 .. Len(p) : r[i] = p[i]
      /\ \A i \in 1 .. Len(q) : r[Len(p) + i] = q[i]
  BY Concatenated
<1> HIDE DEF r
<1>2. \A i \in DOMAIN p : i \in DOMAIN r /\ r[i] = p[i] /\ i <= Len(p)
  BY <1>1
<1>3. \A i \in DOMAIN q : Len(p) + i \in DOMAIN r /\ r[Len(p) + i] = q[i] /\ i \in Nat /\ i >= 1
  BY <1>1
<1> QED
  BY <1>1, <1>2, <1>3 DEF r

LEMMA EarlyEarly ==
  ASSUME NEW p, NEW q, Early(p), Early(q)
  PROVE  Early(p \o q)
<1>1. IsPlan(p) /\ IsPlan(q)
  BY DEF Early
<1> QED
  BY <1>1, PlaceInEither, Concatenated DEF Early

LEMMA ChecksChecks ==
  ASSUME NEW p, NEW q, Checks(p), Checks(q)
  PROVE  Checks(p \o q)
<1>1. IsPlan(p) /\ IsPlan(q)
  BY DEF Checks
<1> QED
  BY <1>1, PlaceInEither, Concatenated DEF Checks

LEMMA ChecksEarly ==
  ASSUME NEW p, Checks(p)
  PROVE  Early(p)
BY DEF Checks, Early, CheckStep, EarlyStep, StepOK, StepsOf, Bearing

\* Steps that bear nothing, before a plan that does.
LEMMA EarlyFollows ==
  ASSUME NEW p, NEW q, Early(p), Follows(q)
  PROVE  Follows(p \o q)
<1>1. IsPlan(p) /\ IsPlan(q)
  BY DEF Early, Follows, Ordered
<1>2. PICK k \in DOMAIN q : Bearing(q[k])
  BY DEF Follows, Bears
<1>3. Len(p) + k \in DOMAIN (p \o q) /\ Bearing((p \o q)[Len(p) + k])
  BY <1>1, <1>2, PlaceOfEither
<1>4. Bears(p \o q)
  BY <1>3 DEF Bears
<1>5. ASSUME NEW i \in DOMAIN (p \o q) PROVE StepOK((p \o q)[i])
  BY <1>1, PlaceInEither DEF Early, EarlyStep, Follows, Ordered
<1>6. ASSUME NEW i \in DOMAIN (p \o q), (p \o q)[i].do = "take",
             NEW j \in DOMAIN (p \o q), Bearing((p \o q)[j])
      PROVE  i < j
  <2>1. Len(p) \in Nat /\ i \in Nat /\ j \in Nat
    BY <1>1, Concatenated, PlaceInEither
  <2>2. j - Len(p) \in DOMAIN q /\ Bearing(q[j - Len(p)]) /\ j > Len(p)
    BY <1>1, <1>6, PlaceInEither DEF Early, EarlyStep
  <2>3. CASE i <= Len(p)
    BY <2>1, <2>2, <2>3
  <2>4. CASE i > Len(p)
    <3>1. i - Len(p) \in DOMAIN q /\ q[i - Len(p)].do = "take"
      BY <1>1, <1>6, <2>1, <2>4, PlaceInEither
    <3>2. i - Len(p) < j - Len(p)
      BY <2>2, <3>1 DEF Follows, Ordered
    <3> QED
      BY <2>1, <3>2
  <2> QED
    BY <2>1, <2>3, <2>4
<1>7. ASSUME NEW i \in DOMAIN (p \o q), Nameless((p \o q)[i])
      PROVE  /\ (p \o q)[i].out = 1 /\ channel = "book"
             /\ \E j \in DOMAIN (p \o q) : i < j /\ Bearing((p \o q)[j])
  <2>0. Len(p) \in Nat /\ i \in Nat
    BY <1>1, Concatenated, PlaceInEither
  <2>1. i - Len(p) \in DOMAIN q /\ (p \o q)[i] = q[i - Len(p)]
    BY <1>1, <1>7, PlaceInEither DEF Early, EarlyStep, Nameless, Bearing
  <2>2. /\ (p \o q)[i].out = 1 /\ channel = "book"
        /\ \E j \in DOMAIN q : i - Len(p) < j /\ Bearing(q[j])
    BY <1>7, <2>1 DEF Follows, Ordered
  <2>3. PICK j \in DOMAIN q : i - Len(p) < j /\ Bearing(q[j])
    BY <2>2
  <2>4. /\ Len(p) + j \in DOMAIN (p \o q) /\ Bearing((p \o q)[Len(p) + j]) /\ j \in Nat
        /\ (p \o q)[Len(p) + j] = q[j]
    BY <1>1, <2>3, PlaceOfEither
  <2>5. i < Len(p) + j
    BY <2>0, <2>3, <2>4
  <2> QED
    BY <2>2, <2>4, <2>5
<1>8. IsPlan(p \o q)
  BY <1>1, Concatenated
<1> HIDE DEF Bears
<1>9. Ordered(p \o q)
  BY <1>4, <1>5, <1>6, <1>7, <1>8 DEF Ordered
<1> QED
  BY <1>4, <1>9 DEF Follows

\* Checks before a plan that takes and bears nothing.
LEMMA ChecksOrdered ==
  ASSUME NEW p, Checks(p)
  PROVE  Ordered(p) /\ ReadsBodies(p)
BY DEF Checks, CheckStep, Ordered, StepOK, StepsOf, Bearing, Nameless, ReadsBodies

LEMMA QuietOrdered ==
  ASSUME NEW p, NEW q, Checks(p), IsPlan(q),
         \A i \in DOMAIN q : q[i].do \in {"profile", "path"}
  PROVE  Ordered(p \o q) /\ ReadsBodies(p \o q)
<1> DEFINE r == p \o q
<1>1. IsPlan(p)
  BY DEF Checks
<1>2. \A i \in DOMAIN r : CheckStep(r[i]) \/ r[i].do \in {"profile", "path"}
  BY <1>1, PlaceInEither DEF Checks
<1>3. IsPlan(r)
  BY <1>1, Concatenated
<1> HIDE DEF r
<1>4. \A i \in DOMAIN r : /\ StepOK(r[i]) /\ ~ Bearing(r[i])
                          /\ r[i].do # "take" /\ ~ Nameless(r[i])
  BY <1>2 DEF CheckStep, StepOK, StepsOf, Bearing, Nameless
<1>5. Ordered(r) /\ ReadsBodies(r)
  BY <1>3, <1>4 DEF Ordered, ReadsBodies
<1> QED
  BY <1>5 DEF r

\* What a plan reads is decided by its last part, unless an earlier check fails.
LEMMA ReadsAfter ==
  ASSUME NEW p, NEW q, Early(p), IsPlan(q), Refuses(p) \/ ReadsBodies(q)
  PROVE  ReadsBodies(p \o q)
<1>1. IsPlan(p)
  BY DEF Early
<1> SUFFICES ASSUME NEW i \in DOMAIN (p \o q), Bearing((p \o q)[i]),
                    \A j \in DOMAIN (p \o q) : (p \o q)[j].do = "refuse" => i < j
             PROVE  (p \o q)[i].from \subseteq DOMAIN bodies
  BY DEF ReadsBodies
<1>2. Len(p) \in Nat /\ i \in Nat
  BY <1>1, Concatenated, PlaceInEither
<1>3. i - Len(p) \in DOMAIN q /\ (p \o q)[i] = q[i - Len(p)] /\ i > Len(p)
  BY <1>1, PlaceInEither DEF Early, EarlyStep
<1>4. ~ Refuses(p)
  <2> SUFFICES ASSUME NEW j \in DOMAIN p, p[j].do = "refuse" PROVE FALSE
    BY DEF Refuses
  <2>1. j \in DOMAIN (p \o q) /\ (p \o q)[j] = p[j] /\ j <= Len(p) /\ j \in Nat
    BY <1>1, PlaceOfEither, PlaceInEither
  <2>2. i < j
    BY <2>1
  <2> QED
    BY <1>2, <1>3, <2>1, <2>2
<1>5. ASSUME NEW j \in DOMAIN q, q[j].do = "refuse" PROVE i - Len(p) < j
  <2>1. /\ Len(p) + j \in DOMAIN (p \o q) /\ (p \o q)[Len(p) + j] = q[j] /\ j \in Nat
    BY <1>1, PlaceOfEither
  <2>2. i < Len(p) + j
    BY <1>5, <2>1
  <2> QED
    BY <1>2, <2>1, <2>2
<1> QED
  BY <1>3, <1>4, <1>5 DEF ReadsBodies

LEMMA RefusesEither ==
  ASSUME NEW p, NEW q, IsPlan(p), IsPlan(q), Refuses(p) \/ Refuses(q)
  PROVE  Refuses(p \o q)
<1>1. CASE Refuses(p)
  <2>1. PICK i \in DOMAIN p : p[i].do = "refuse"
    BY <1>1 DEF Refuses
  <2> QED
    BY <2>1, PlaceOfEither DEF Refuses
<1>2. CASE Refuses(q)
  <2>1. PICK i \in DOMAIN q : q[i].do = "refuse"
    BY <1>2 DEF Refuses
  <2>2. Len(p) + i \in DOMAIN (p \o q) /\ (p \o q)[Len(p) + i].do = "refuse"
    BY <2>1, PlaceOfEither
  <2> QED
    BY <2>2 DEF Refuses
<1> QED
  BY <1>1, <1>2

-----------------------------------------------------------------------------
\* The parts plans are made of.
LEMMA CodesHold ==
  /\ Invalid \in Codes /\ Missing \in Codes /\ Geometry \in Codes /\ Internal \in Codes
  /\ Unsupported \in Codes /\ Ambiguous \in Codes /\ WrongKind \in Codes
  /\ "THIN_FAILED" \in Codes /\ "SELF_INTERSECTION" \in Codes /\ "NO_CONTACT" \in Codes
  /\ "CANCELLED" \in Codes
BY DEF Codes

LEMMA NoSteps == Checks(<< >>) /\ Early(<< >>) /\ IsPlan(<< >>)
<1>1. << >> \in Seq({}) /\ DOMAIN << >> = {}
  OBVIOUS
<1> QED
  BY <1>1 DEF Checks, Early, IsPlan

LEMMA OneStep ==
  ASSUME NEW s
  PROVE  IsPlan(<<s>>) /\ DOMAIN <<s>> = {1} /\ <<s>>[1] = s
<1>1. <<s>> \in Seq({s}) /\ DOMAIN <<s>> = {1} /\ <<s>>[1] = s
  OBVIOUS
<1>2. IsPlan(<<s>>)
  BY <1>1, Zenon DEF IsPlan
<1> QED
  BY <1>1, <1>2

LEMMA RefusePart ==
  ASSUME NEW cond, NEW code \in Codes
  PROVE  Checks(Refuse(cond, code)) /\ (cond => Refuses(Refuse(cond, code)))
<1> DEFINE s == [Blank EXCEPT !.code = code]
<1>1. s.do = "refuse" /\ s.code = code
  BY DEF Blank
<1> HIDE DEF s
<1>2. Checks(<<s>>) /\ Refuses(<<s>>)
  BY <1>1, OneStep DEF Checks, CheckStep, Refuses
<1>3. CASE cond
  BY <1>2, <1>3 DEF Refuse, When, s
<1>4. CASE ~ cond
  BY <1>4, NoSteps DEF Refuse, When, s
<1> QED
  BY <1>3, <1>4

LEMMA CheckPart ==
  ASSUME NEW o, NEW fault, NEW code \in Codes
  PROVE  /\ Checks(Check(o, fault, code))
         /\ o.fault = fault => Refuses(Check(o, fault, code))
BY RefusePart DEF Check

LEMMA WhenPart ==
  ASSUME NEW cond, NEW p
  PROVE  /\ Checks(p) => Checks(When(cond, p))
         /\ Early(p) => Early(When(cond, p))
BY NoSteps DEF When

LEMMA TakePart ==
  ASSUME NEW id
  PROVE  Early(Take(id))
<1> DEFINE s == [Blank EXCEPT !.do = "take", !.id = id]
<1>1. s.do = "take"
  BY DEF Blank
<1> HIDE DEF s
<1>2. Early(<<s>>)
  BY <1>1, OneStep DEF Early, EarlyStep, StepOK, StepsOf, Bearing
<1> QED
  BY <1>2 DEF Take, s

LEMMA AttributePart ==
  /\ \A ids, also : Early(AttributeWith(ids, also))
  /\ \A ids : Early(Attribute(ids))
<1>1. ASSUME NEW ids, NEW also PROVE Early(AttributeWith(ids, also))
  <2> DEFINE s == [Blank EXCEPT !.do = "attribute", !.named = Held(ids),
                                !.recorded = Held(ids) \cup also]
  <2>1. s.do = "attribute"
    BY DEF Blank
  <2> HIDE DEF s
  <2>2. Early(<<s>>)
    BY <2>1, OneStep DEF Early, EarlyStep, StepOK, StepsOf, Bearing
  <2> QED
    BY <2>2 DEF AttributeWith, s
<1> QED
  BY <1>1 DEF Attribute

LEMMA CopyPart ==
  ASSUME NEW from
  PROVE  Early(CopyFrom(from))
<1> DEFINE s == [Blank EXCEPT !.do = "copy", !.recorded = from]
<1>1. s.do = "copy"
  BY DEF Blank
<1> HIDE DEF s
<1>2. Early(<<s>>)
  BY <1>1, OneStep DEF Early, EarlyStep, StepOK, StepsOf, Bearing
<1> QED
  BY <1>2 DEF CopyFrom, s

\* One named birth, of a body read from others or from none.
LEMMA OneBirth ==
  ASSUME NEW s, s.do = "born", s.booked = TRUE, s.kind \in Kinds
  PROVE  Follows(<<s>>) /\ (s.from \subseteq DOMAIN bodies => ReadsBodies(<<s>>))
<1> DEFINE p == <<s>>
<1>1. IsPlan(p) /\ DOMAIN p = {1} /\ p[1] = s
  BY OneStep
<1> HIDE DEF p
<1>2. StepOK(s) /\ Bearing(s) /\ ~ Nameless(s)
  BY DEF StepOK, StepsOf, Bearing, Nameless
<1>3. Bears(p)
  BY <1>1, <1>2 DEF Bears
<1>4. Ordered(p)
  BY <1>1, <1>2 DEF Ordered
<1>5. s.from \subseteq DOMAIN bodies => ReadsBodies(p)
  BY <1>1 DEF ReadsBodies
<1> QED
  BY <1>3, <1>4, <1>5 DEF Follows, p

LEMMA BornPart ==
  ASSUME NEW kind \in Kinds
  PROVE  Follows(Born(kind)) /\ ReadsBodies(Born(kind))
<1> DEFINE s == Body(0, kind, TRUE, TRUE)
<1>1. s.do = "born" /\ s.booked = TRUE /\ s.kind = kind /\ s.from = {}
  BY DEF Body, Blank
<1> HIDE DEF s
<1>2. Follows(<<s>>) /\ ReadsBodies(<<s>>)
  BY <1>1, OneBirth
<1> QED
  BY <1>2 DEF Born, s

LEMMA BornReadingPart ==
  ASSUME NEW kind \in Kinds, NEW from, NEW guard, NEW harvested
  PROVE  /\ Follows(BornReading(kind, from, guard, harvested))
         /\ from \subseteq DOMAIN bodies => ReadsBodies(BornReading(kind, from, guard, harvested))
<1> DEFINE s == [Body(0, kind, TRUE, harvested) EXCEPT !.from = from, !.guard = guard]
<1>1. s.do = "born" /\ s.booked = TRUE /\ s.kind = kind /\ s.from = from
  BY DEF Body, Blank
<1> HIDE DEF s
<1>2. Follows(<<s>>) /\ (from \subseteq DOMAIN bodies => ReadsBodies(<<s>>))
  BY <1>1, OneBirth
<1> QED
  BY <1>2 DEF BornReading, s

LEMMA LeavePart ==
  ASSUME NEW what \in {"profile", "path"}
  PROVE  IsPlan(Leave(what)) /\ \A i \in DOMAIN Leave(what) : Leave(what)[i].do \in {"profile", "path"}
<1> DEFINE s == [Blank EXCEPT !.do = what]
<1>1. s.do = what
  BY DEF Blank
<1> HIDE DEF s
<1> QED
  BY <1>1, OneStep DEF Leave, s

\* A reference slot that resolves to nothing refuses the operation.
LEMMA SlotPart ==
  ASSUME NEW o, NEW unengaged \in Codes
  PROVE  /\ Checks(Slot(o, unengaged))
         /\ channel # "registry" \/ o.fault = "empty" => Refuses(Slot(o, unengaged))
<1> DEFINE a == Refuse(channel # "registry", unengaged)
           u == Check(o, "unparsed", Invalid)
           e == Check(o, "empty", Missing)
           m == Check(o, "ambiguous", Ambiguous)
<1>1. /\ Checks(a) /\ Checks(u) /\ Checks(e) /\ Checks(m)
      /\ channel # "registry" => Refuses(a)
      /\ o.fault = "empty" => Refuses(e)
  BY CodesHold, RefusePart, CheckPart
<1> HIDE DEF a, u, e, m
<1>2. Checks(a \o u) /\ Checks(a \o u \o e) /\ Checks(a \o u \o e \o m)
  BY <1>1, ChecksChecks
<1>3. channel # "registry" => Refuses(a \o u)
  BY <1>1, RefusesEither DEF Checks
<1>4. channel # "registry" \/ o.fault = "empty" => Refuses(a \o u \o e)
  BY <1>1, <1>2, <1>3, RefusesEither DEF Checks
<1>5. channel # "registry" \/ o.fault = "empty" => Refuses(a \o u \o e \o m)
  BY <1>1, <1>2, <1>4, RefusesEither DEF Checks
<1> QED
  BY <1>2, <1>5 DEF Slot, a, u, e, m

-----------------------------------------------------------------------------
\* The handlers, one by one.  Each plan is a row of checks and takes before the
\* births they lead to, or checks before a profile, a path or nothing.
PlanOK(p) == Ordered(p) /\ ReadsBodies(p)
Sound(p) == Follows(p) /\ ReadsBodies(p)

LEMMA SoundPlan ==
  ASSUME NEW p, Sound(p)
  PROVE  PlanOK(p)
BY DEF Sound, PlanOK, Follows

LEMMA EarlySound ==
  ASSUME NEW p, NEW q, Early(p), Sound(q)
  PROVE  Sound(p \o q)
BY EarlyFollows, ReadsAfter DEF Sound, Follows, Ordered

LEMMA RefusedSound ==
  ASSUME NEW p, NEW q, Early(p), Refuses(p), Follows(q)
  PROVE  Sound(p \o q)
BY EarlyFollows, ReadsAfter DEF Sound, Follows, Ordered

LEMMA BornSound == \A kind \in Kinds : Sound(Born(kind))
BY BornPart DEF Sound

LEMMA SolidKind == "solid" \in Kinds /\ "surface" \in Kinds /\ "wire" \in Kinds
BY DEF Kinds

LEMMA CheckEarly == \A o, fault : \A code \in Codes : Early(Check(o, fault, code))
BY CheckPart, ChecksEarly

LEMMA RefuseEarly == \A cond : \A code \in Codes : Early(Refuse(cond, code))
BY RefusePart, ChecksEarly

LEMMA SlotEarly == \A o : \A code \in Codes : Early(Slot(o, code))
BY SlotPart, ChecksEarly

LEMMA PrimitiveSound ==
  ASSUME NEW o
  PROVE  Sound(Primitive(o))
BY CodesHold, CheckEarly, EarlyEarly, EarlySound, BornSound, SolidKind DEF Primitive

LEMMA RootBirths ==
  ASSUME NEW o
  PROVE  /\ Sound(CreateBox(o)) /\ Sound(CreateCylinder(o)) /\ Sound(CreateSphere(o))
         /\ Sound(CreateCone(o)) /\ Sound(CreateTorus(o)) /\ Sound(CreateWedge(o))
<1>1. Sound(CreateCone(o))
  BY CodesHold, RefuseEarly, EarlySound, PrimitiveSound DEF CreateCone
<1> QED
  BY <1>1, PrimitiveSound
     DEF CreateBox, CreateCylinder, CreateSphere, CreateTorus, CreateWedge

LEMMA ToolBooleanSound ==
  ASSUME NEW o, NEW noContact \in Codes, NEW badMode \in Codes
  PROVE  Sound(ToolBoolean(o, noContact, badMode))
BY CodesHold, CheckEarly, TakePart, WhenPart, AttributePart, EarlyEarly, EarlySound, BornSound,
   SolidKind DEF ToolBoolean

LEMMA FaceSectionEarly ==
  ASSUME NEW o, NEW code \in Codes
  PROVE  Early(FaceSection(o, code))
BY CodesHold, CheckEarly, SlotEarly, EarlyEarly DEF FaceSection

LEMMA ProfileSectionEarly ==
  ASSUME NEW o, NEW code \in Codes
  PROVE  Early(ProfileSection(o, code))
<1>1. Early(When(Has(o, "regions"), Check(o, "region", Missing) \o Check(o, "no region", Invalid)))
  BY CodesHold, CheckEarly, EarlyEarly, WhenPart
<1>2. Early(When(o.profile \in paths,
                 Refuse(~ Has(o, "thin"), code) \o Check(o, "band", "THIN_FAILED")))
  BY CodesHold, CheckEarly, RefuseEarly, EarlyEarly, WhenPart
<1> QED
  BY <1>1, <1>2, CodesHold, RefuseEarly, EarlyEarly DEF ProfileSection

LEMMA ExtrudeV1Sound ==
  ASSUME NEW o
  PROVE  Sound(ExtrudeV1(o))
BY CodesHold, CheckEarly, RefuseEarly, EarlyEarly, EarlySound, BornSound, SolidKind DEF ExtrudeV1

LEMMA ExtrudeParts ==
  ASSUME NEW o
  PROVE  Early(ExtrudeStart(o)) /\ Early(ExtrudeExtent(o)) /\ Early(ExtrudeShape(o))
<1>1. Early(ExtrudeStart(o))
  BY CodesHold, CheckEarly, SlotEarly, EarlyEarly, WhenPart DEF ExtrudeStart
<1>2. Early(ExtrudeExtent(o))
  <2>1. Early(When(Has(o, "throughAll"), Refuse(Visible = {}, Invalid) \o Check(o, "nothing ahead", Invalid)))
    BY CodesHold, CheckEarly, RefuseEarly, EarlyEarly, WhenPart
  <2>2. Early(When(Has(o, "toFace"),
                   Slot(o, Invalid) \o Check(o, "arity", Invalid) \o Check(o, "behind", Invalid)))
    BY CodesHold, CheckEarly, SlotEarly, EarlyEarly, WhenPart
  <2> QED
    BY <2>1, <2>2, CodesHold, CheckEarly, EarlyEarly DEF ExtrudeExtent
<1>3. Early(ExtrudeShape(o))
  <2>1. Early(Refuse(Has(o, "taper") /\ (Has(o, "throughAll") \/ Has(o, "toFace")), Invalid))
    BY CodesHold, RefuseEarly
  <2>2. Early(When(Has(o, "taper"), Check(o, "taper", Geometry)))
    BY CodesHold, CheckEarly, WhenPart
  <2>3. Early(When(Has(o, "thin") /\ (Has(o, "face") \/ o.profile \in profiles),
                   Check(o, "hollow", "THIN_FAILED")))
    BY CodesHold, CheckEarly, WhenPart
  <2> QED
    BY <2>1, <2>2, <2>3, CodesHold, CheckEarly, EarlyEarly DEF ExtrudeShape
<1> QED
  BY <1>1, <1>2, <1>3

LEMMA ExtrudeSound ==
  ASSUME NEW o
  PROVE  Sound(Extrude(o)) /\ Sound(BaseFlange(o))
<1>1. Sound(ExtrudeV2(o))
  <2> DEFINE section == IF Has(o, "face") THEN FaceSection(o, Invalid) ELSE ProfileSection(o, Invalid)
             last == IF Joins(o) THEN ToolBoolean(o, Geometry, Invalid) ELSE Born("solid")
  <2>1. Early(section)
    BY CodesHold, FaceSectionEarly, ProfileSectionEarly
  <2>2. Sound(last)
    BY CodesHold, ToolBooleanSound, BornSound, SolidKind
  <2>3. Early(Check(o, "params", Invalid)) /\ Early(ExtrudeStart(o))
        /\ Early(ExtrudeExtent(o)) /\ Early(ExtrudeShape(o))
    BY CodesHold, CheckEarly, ExtrudeParts
  <2>4. ExtrudeV2(o) = Check(o, "params", Invalid) \o section \o ExtrudeStart(o)
                         \o ExtrudeExtent(o) \o ExtrudeShape(o) \o last
    BY DEF ExtrudeV2
  <2> HIDE DEF section, last
  <2> QED
    BY <2>1, <2>2, <2>3, <2>4, EarlyEarly, EarlySound
<1> QED
  BY <1>1, ExtrudeV1Sound DEF Extrude, BaseFlange

LEMMA RevolveSound ==
  ASSUME NEW o
  PROVE  Sound(Revolve(o))
<1>1. Sound(RevolveV1(o))
  BY CodesHold, CheckEarly, RefuseEarly, EarlyEarly, EarlySound, BornSound, SolidKind DEF RevolveV1
<1>2. Early(RevolveAxis(o))
  BY CodesHold, CheckEarly, SlotEarly, EarlyEarly, WhenPart DEF RevolveAxis
<1>3. Sound(RevolveV2(o))
  <2> DEFINE section == IF Has(o, "face")
                        THEN Refuse(Has(o, "thin"), Invalid) \o FaceSection(o, WrongKind)
                        ELSE Refuse(o.profile \in profiles /\ Has(o, "thin"), Invalid)
                             \o ProfileSection(o, Invalid)
             last == IF Joins(o) THEN ToolBoolean(o, "NO_CONTACT", Invalid) ELSE Born("solid")
  <2>1. Early(section)
    <3>1. Early(Refuse(Has(o, "thin"), Invalid)) /\ Early(FaceSection(o, WrongKind))
      BY CodesHold, RefuseEarly, FaceSectionEarly
    <3>2. Early(Refuse(o.profile \in profiles /\ Has(o, "thin"), Invalid))
          /\ Early(ProfileSection(o, Invalid))
      BY CodesHold, RefuseEarly, ProfileSectionEarly
    <3> QED
      BY <3>1, <3>2, EarlyEarly
  <2>2. Sound(last)
    BY CodesHold, ToolBooleanSound, BornSound, SolidKind
  <2>3. RevolveV2(o) = section \o Check(o, "degenerate", Invalid) \o RevolveAxis(o)
                         \o Check(o, "params", Invalid) \o Check(o, "build", Geometry)
                         \o Check(o, "self intersection", "SELF_INTERSECTION") \o last
    BY DEF RevolveV2
  <2> HIDE DEF section, last
  <2> QED
    BY <1>2, <2>1, <2>2, <2>3, CodesHold, CheckEarly, EarlyEarly, EarlySound
<1> QED
  BY <1>1, <1>3 DEF Revolve

LEMMA LoftSound ==
  ASSUME NEW o
  PROVE  Sound(Loft(o))
<1>1. Early(Refuse(Len(o.others) < 2, Invalid))
      /\ Early(Refuse(\E i \in DOMAIN o.others : o.others[i] \notin profiles, Missing))
  BY CodesHold, RefuseEarly
<1> QED
  BY <1>1, CodesHold, CheckEarly, EarlyEarly, EarlySound, BornSound, SolidKind DEF Loft

LEMMA SweepSound ==
  ASSUME NEW o
  PROVE  Sound(Sweep(o))
<1>1. Early(SweepSection(o))
  <2>1. Early(Refuse(o.profile \notin profiles, Missing))
    BY CodesHold, RefuseEarly
  <2>2. Early(When(Has(o, "regions"), Check(o, "no region", Invalid) \o Check(o, "region", Missing)))
    BY CodesHold, CheckEarly, EarlyEarly, WhenPart
  <2> QED
    BY <2>1, <2>2, CodesHold, FaceSectionEarly, EarlyEarly DEF SweepSection
<1>2. Early(SweepPath(o)) /\ Early(SweepTangent(o)) /\ Early(SweepLimit(o))
      /\ Early(SweepLimitToReference(o))
  BY CodesHold, CheckEarly, SlotEarly, EarlyEarly, WhenPart
     DEF SweepPath, SweepTangent, SweepLimit, SweepLimitToReference
<1>3. Early(SweepControls(o)) /\ Early(SweepGuides(o)) /\ Early(SweepSpine(o))
  BY CodesHold, CheckEarly, SlotEarly, EarlyEarly, WhenPart
     DEF SweepControls, SweepGuides, SweepSpine
<1>4. Early(SweepV2(o))
  <2>1. Early(Refuse(Has(o, "guide") /\ Has(o, "guideSurface"), Invalid))
    BY CodesHold, RefuseEarly
  <2> DEFINE limit == IF Has(o, "toReference") THEN SweepLimitToReference(o) ELSE SweepLimit(o)
  <2>2. Early(limit)
    BY <1>2
  <2>3. SweepV2(o) = Refuse(Has(o, "guide") /\ Has(o, "guideSurface"), Invalid)
                       \o SweepSection(o) \o SweepPath(o) \o limit
                       \o SweepSpine(o) \o SweepTangent(o) \o SweepControls(o)
                       \o SweepGuides(o) \o Check(o, "build", Geometry)
    BY DEF SweepV2
  <2> HIDE DEF limit
  <2> QED
    BY <1>1, <1>2, <1>3, <2>1, <2>2, <2>3, CodesHold, CheckEarly, EarlyEarly
<1>5. Early(SweepV1(o))
  BY CodesHold, CheckEarly, RefuseEarly, EarlyEarly DEF SweepV1
<1>6. Early(SweepBirthSpec(o))
  BY CodesHold, CheckEarly, WhenPart DEF SweepBirthSpec
<1>7. Sound(Born("solid")) /\ Sound(ToolBoolean(o, Geometry, Invalid))
  BY CodesHold, BornSound, ToolBooleanSound, SolidKind
<1> QED
  BY <1>4, <1>5, <1>6, <1>7, EarlyEarly, EarlySound DEF Sweep

\* The solids of a STEP file are all named, so their order does not matter here.
LEMMA TwoBirths ==
  ASSUME NEW p, IsPlan(p), DOMAIN p = {1, 2},
         p[1].do = "born", p[1].booked = TRUE, p[1].kind \in Kinds,
         p[2].do = "born", p[2].booked = TRUE, p[2].kind \in Kinds
  PROVE  /\ Follows(p)
         /\ p[1].from \subseteq DOMAIN bodies /\ p[2].from \subseteq DOMAIN bodies
              => ReadsBodies(p)
<1>1. \A i \in DOMAIN p : StepOK(p[i]) /\ Bearing(p[i]) /\ ~ Nameless(p[i])
  BY DEF StepOK, StepsOf, Bearing, Nameless
<1>2. Bears(p)
  BY <1>1 DEF Bears
<1>3. \A i \in DOMAIN p : p[i].do # "take"
  OBVIOUS
<1>4. Ordered(p)
  BY <1>1, <1>3 DEF Ordered
<1>5. p[1].from \subseteq DOMAIN bodies /\ p[2].from \subseteq DOMAIN bodies => ReadsBodies(p)
  BY DEF ReadsBodies
<1> QED
  BY <1>2, <1>4, <1>5 DEF Follows

LEMMA ImportsSound ==
  ASSUME NEW o
  PROVE  Sound(ImportStep(o)) /\ Sound(ImportMesh(o))
<1>1. Early(ImportBytes(o)) /\ Early(ImportMeshShape(o)) /\ Early(ImportStepShape(o))
      /\ Early(ImportStepBodies(o)) /\ Sound(Born("solid"))
  BY CodesHold, CheckEarly, EarlyEarly, BornSound, SolidKind
     DEF ImportBytes, ImportMeshShape, ImportStepShape, ImportStepBodies
<1> DEFINE s == Body(0, "solid", TRUE, TRUE)
           t == Body(1, "solid", TRUE, TRUE)
           two == <<s, t>>
<1>2. /\ s.do = "born" /\ s.booked = TRUE /\ s.kind = "solid" /\ s.from = {}
      /\ t.do = "born" /\ t.booked = TRUE /\ t.kind = "solid" /\ t.from = {}
  BY DEF Body, Blank
<1>3. Sound(two)
  <2> HIDE DEF s, t
  <2>1. two \in Seq({s, t}) /\ DOMAIN two = {1, 2} /\ two[1] = s /\ two[2] = t
    OBVIOUS
  <2> HIDE DEF two
  <2>2. IsPlan(two)
    BY <2>1, Zenon DEF IsPlan
  <2> QED
    BY <1>2, <2>1, <2>2, SolidKind, TwoBirths DEF Sound
<1>4. ImportStep(o) = ImportBytes(o) \o ImportStepShape(o)
         \o (IF Has(o, "several") THEN ImportStepBodies(o) \o two ELSE Born("solid"))
  BY DEF ImportStep
<1> HIDE DEF two
<1>5. Sound(ImportStep(o))
  BY <1>1, <1>3, <1>4, EarlyEarly, EarlySound
<1>6. Sound(ImportMesh(o))
  BY <1>1, EarlyEarly, EarlySound DEF ImportMesh
<1> QED
  BY <1>5, <1>6

-----------------------------------------------------------------------------
\* Operations that leave a profile, a path, a datum or nothing.
LEMMA CheckChecks == \A o, fault : \A code \in Codes : Checks(Check(o, fault, code))
BY CheckPart

LEMMA RefuseChecks == \A cond : \A code \in Codes : Checks(Refuse(cond, code))
BY RefusePart

LEMMA SlotChecks == \A o : \A code \in Codes : Checks(Slot(o, code))
BY SlotPart

LEMMA ProfilesOK ==
  ASSUME NEW o
  PROVE  PlanOK(CreateProfile(o)) /\ PlanOK(Sketch(o))
<1>1. PlanOK(CreateProfile(o))
  <2>1. Checks(Check(o, "params", Invalid) \o Check(o, "broken", Internal))
    BY CodesHold, CheckChecks, ChecksChecks
  <2> QED
    BY <2>1, LeavePart, QuietOrdered DEF CreateProfile, PlanOK
<1>2. PlanOK(Sketch(o))
  <2> DEFINE last == CASE Has(o, "closed") -> Leave("profile")
                       [] Has(o, "open") -> Leave("path")
                       [] OTHER -> << >>
             front == SketchFrame(o) \o SketchConstructionEdges(o) \o SketchBoundaryEdges(o)
                        \o Check(o, "params", Invalid)
  <2>1. Checks(SketchFrame(o))
    BY CodesHold, CheckChecks, SlotChecks, ChecksChecks DEF SketchFrame
  <2>2. Checks(SketchConstructionEdges(o)) /\ Checks(SketchBoundaryEdges(o))
    BY CodesHold, CheckChecks, WhenPart DEF SketchConstructionEdges, SketchBoundaryEdges
  <2>3. Checks(front)
    BY <2>1, <2>2, CodesHold, CheckChecks, ChecksChecks
  <2>4. IsPlan(last) /\ \A i \in DOMAIN last : last[i].do \in {"profile", "path"}
    <3>1. CASE Has(o, "closed")
      BY <3>1, LeavePart
    <3>2. CASE ~ Has(o, "closed") /\ Has(o, "open")
      BY <3>2, LeavePart
    <3>3. CASE ~ Has(o, "closed") /\ ~ Has(o, "open")
      BY <3>3, NoSteps
    <3> QED
      BY <3>1, <3>2, <3>3
  <2>5. Sketch(o) = front \o last
    BY DEF Sketch
  <2> HIDE DEF front, last
  <2> QED
    BY <2>3, <2>4, <2>5, QuietOrdered DEF PlanOK
<1> QED
  BY <1>1, <1>2

LEMMA DatumsOK ==
  ASSUME NEW o
  PROVE  PlanOK(DatumPlane(o)) /\ PlanOK(DatumAxis(o)) /\ PlanOK(Refuse(TRUE, Unsupported))
<1>1. Checks(PlaneFrame(o)) /\ Checks(AxisFrame(o))
  BY CodesHold, CheckChecks, SlotChecks, ChecksChecks DEF PlaneFrame, AxisFrame
<1>2. Checks(DatumPlane(o)) /\ Checks(DatumAxis(o)) /\ Checks(Refuse(TRUE, Unsupported))
  BY <1>1, CodesHold, CheckChecks, RefuseChecks, ChecksChecks DEF DatumPlane, DatumAxis
<1> QED
  BY <1>2, ChecksOrdered DEF PlanOK

-----------------------------------------------------------------------------
\* Operations that change a body that is there.
LEMMA EdgeSlotEarly == \A o : Early(EdgeSlot(o)) /\ Early(Foreign(o))
<1>1. \A o, code : code \in Codes => Early(OnFirstBody(o, code))
  BY RefuseEarly DEF OnFirstBody
<1> QED
  BY <1>1, CodesHold, CheckEarly, RefuseEarly, SlotEarly, EarlyEarly DEF EdgeSlot, Foreign

LEMMA ChangesSound ==
  ASSUME NEW o
  PROVE  Sound(BooleanCombine(o)) /\ Sound(Hole(o)) /\ Sound(Transform(o))
<1>1. Sound(BooleanCombine(o))
  BY CodesHold, CheckEarly, TakePart, WhenPart, AttributePart, EarlyEarly, EarlySound, BornSound,
     SolidKind DEF BooleanCombine
<1>2. Early(HoleTool(o))
  BY CodesHold, CheckEarly, EarlyEarly DEF HoleTool
<1>3. Sound(Hole(o))
  BY <1>2, CodesHold, CheckEarly, TakePart, AttributePart, EarlyEarly, EarlySound, BornSound,
     SolidKind DEF Hole
<1>4. Sound(Transform(o))
  BY CodesHold, CheckEarly, TakePart, AttributePart, EarlyEarly, EarlySound, BornSound,
     SolidKind DEF Transform
<1> QED
  BY <1>1, <1>3, <1>4

LEMMA OffsetSound ==
  ASSUME NEW o
  PROVE  Sound(Offset(o))
<1>1. Sound(LocalFaceOffset(o))
  BY CodesHold, CheckEarly, TakePart, AttributePart, EarlyEarly, EarlySound, BornSound,
     SolidKind DEF LocalFaceOffset
<1>2. Early(Refuse(\E b \in Visible : bodies[b].op = o.target /\ b # o.picked, Geometry))
      /\ Early(Refuse(channel # "none", Unsupported))
  BY CodesHold, RefuseEarly
<1> DEFINE face == Slot(o, Unsupported) \o Check(o, "arity", Invalid)
                     \o Refuse(\E b \in Visible : bodies[b].op = o.target /\ b # o.picked, Geometry)
                     \o LocalFaceOffset(o)
           whole == Refuse(channel # "none", Unsupported) \o Take(o.target)
                     \o Check(o, "build", Geometry) \o Born("solid")
<1>3. Sound(face)
  BY <1>1, <1>2, CodesHold, CheckEarly, SlotEarly, EarlyEarly, EarlySound
<1>4. Sound(whole)
  BY <1>2, CodesHold, CheckEarly, TakePart, EarlyEarly, EarlySound, BornSound, SolidKind
<1>5. Offset(o) = Check(o, "params", Invalid) \o (IF Has(o, "face") THEN face ELSE whole)
  BY DEF Offset
<1> HIDE DEF face, whole
<1> QED
  BY <1>3, <1>4, <1>5, CodesHold, CheckEarly, EarlySound

LEMMA FilletSound ==
  ASSUME NEW o
  PROVE  Sound(Fillet(o)) /\ Sound(Chamfer(o))
<1> DEFINE edges == IF Has(o, "edges") THEN Foreign(o) ELSE Check(o, "no edges", Invalid)
<1>1. Early(edges) /\ Early(When(Has(o, "edges"), EdgeSlot(o)))
  BY CodesHold, CheckEarly, EdgeSlotEarly, WhenPart
<1>2. Fillet(o) = Check(o, "params", Invalid) \o When(Has(o, "edges"), EdgeSlot(o))
                    \o Take(o.target) \o edges \o Check(o, "build", Geometry)
                    \o Attribute({o.target}) \o Born("solid")
  BY DEF Fillet
<1> HIDE DEF edges
<1>3. Sound(Fillet(o))
  BY <1>1, <1>2, CodesHold, CheckEarly, TakePart, AttributePart, EarlyEarly, EarlySound,
     BornSound, SolidKind
<1> QED
  BY <1>3 DEF Chamfer

LEMMA ShellSound ==
  ASSUME NEW o
  PROVE  Sound(Shell(o))
<1> DEFINE walls == IF Has(o, "openFaces") THEN OpenShell(o) ELSE ClosedShell(o)
<1>1. Early(OpenShell(o)) /\ Early(ClosedShell(o))
  BY CodesHold, CheckEarly, EdgeSlotEarly, EarlyEarly DEF OpenShell, ClosedShell
<1>2. Early(walls) /\ Early(When(Has(o, "openFaces"), EdgeSlot(o)))
  BY <1>1, EdgeSlotEarly, WhenPart
<1>3. Shell(o) = Check(o, "params", Invalid) \o When(Has(o, "openFaces"), EdgeSlot(o))
                   \o Take(o.target) \o walls \o Attribute({o.target}) \o Born("solid")
  BY DEF Shell
<1> HIDE DEF walls
<1> QED
  BY <1>2, <1>3, CodesHold, CheckEarly, TakePart, AttributePart, EarlyEarly, EarlySound,
     BornSound, SolidKind

-----------------------------------------------------------------------------
\* Operations that read a body they may leave: the search for it comes first.
LEMMA LeastNumber ==
  ASSUME NEW T, T \subseteq Nat, T # {}
  PROVE  \E m \in T : \A k \in T : m <= k
<1> DEFINE R == OpToRel(<, Nat)
<1>1. PICK m \in T : \A k \in T : ~ (<<k, m>> \in R)
  <2>1. IsWellFoundedOn(R, Nat)
    BY NatLessThanWellFounded
  <2> HIDE DEF R
  <2> QED
    BY <2>1, WFMin
<1>2. \A k, n \in Nat : <<k, n>> \in R <=> k < n
  BY DEF OpToRel
<1> HIDE DEF R
<1>3. \A k \in T : ~ (k < m)
  BY <1>1, <1>2
<1>4. m \in Nat /\ \A k \in T : k \in Nat
  OBVIOUS
<1> QED
  BY <1>3, <1>4

LEMMA FoundIsVisible ==
  ASSUME PoolShape, NEW id, FirstVisible(id) # 0
  PROVE  FirstVisible(id) \in Visible /\ FirstVisible(id) \in DOMAIN bodies
<1> DEFINE found == BodiesOf(id) \ consumed
<1>1. PICK A : bodies \in Seq(A)
  BY DEF PoolShape
<1>2. found \subseteq DOMAIN bodies /\ found \subseteq Nat /\ found \subseteq Visible
  BY <1>1 DEF BodiesOf, Visible
<1>3. FirstVisible(id) = IF found = {} THEN 0 ELSE CHOOSE b \in found : \A c \in found : b <= c
  BY DEF FirstVisible
<1> HIDE DEF found
<1>4. found # {}
  BY <1>3
<1>5. \E b \in found : \A c \in found : b <= c
  BY <1>2, <1>4, LeastNumber
<1> QED
  BY <1>2, <1>3, <1>4, <1>5

\* Steps that bear nothing, among them a check that fails when the condition holds.
Guarded(p, cond) == Early(p) /\ (cond => Refuses(p))

LEMMA GuardedThen ==
  ASSUME NEW p, NEW q, NEW cond \in BOOLEAN,
         \/ Guarded(p, cond) /\ Early(q)
         \/ Early(p) /\ Guarded(q, cond)
  PROVE  Guarded(p \o q, cond)
BY EarlyEarly, RefusesEither DEF Guarded, Early

LEMMA RefuseGuards ==
  ASSUME NEW cond \in BOOLEAN, NEW code \in Codes
  PROVE  Guarded(Refuse(cond, code), cond)
BY RefusePart, RefuseEarly DEF Guarded

LEMMA ReadingSound ==
  ASSUME NEW p, NEW kind \in Kinds, NEW from, NEW guard, NEW harvested, NEW cond \in BOOLEAN,
         Guarded(p, cond), ~ cond => from \subseteq DOMAIN bodies
  PROVE  Sound(p \o BornReading(kind, from, guard, harvested))
BY BornReadingPart, EarlySound, RefusedSound DEF Guarded, Sound

LEMMA MirrorSound ==
  ASSUME PoolShape, NEW o
  PROVE  Sound(Mirror(o))
<1> DEFINE source == FirstVisible(o.target)
           none == source = 0
           copy == Refuse(none, Missing) \o Check(o, "build", Geometry) \o CopyFrom({source})
           apart == copy \o BornReading("solid", {source}, 0, TRUE)
           merged == Take(o.target) \o Check(o, "build", Geometry) \o Check(o, "pieces", Geometry)
                       \o Attribute({o.target}) \o Born("solid")
<1>1. Early(MirrorPlane(o))
  <2>1. Early(Refuse(channel # "registry", Unsupported))
    BY CodesHold, RefuseEarly
  <2> QED
    BY <2>1, CodesHold, CheckEarly, SlotEarly, EarlyEarly DEF MirrorPlane
<1>2. Sound(merged)
  BY CodesHold, CheckEarly, TakePart, AttributePart, EarlyEarly, EarlySound, BornSound, SolidKind
<1>3. ~ none => {source} \subseteq DOMAIN bodies
  BY FoundIsVisible
<1>4. Guarded(copy, none)
  <2> HIDE DEF none, source
  <2>1. Guarded(Refuse(none, Missing), none)
    BY CodesHold, RefuseGuards DEF none
  <2> QED
    BY <2>1, CodesHold, CheckEarly, CopyPart, GuardedThen DEF none
<1>5. Sound(apart)
  <2> HIDE DEF copy, source
  <2> QED
    BY <1>3, <1>4, SolidKind, ReadingSound
<1>6. Mirror(o) = MirrorPlane(o) \o (IF Has(o, "merge") THEN merged ELSE apart)
  BY DEF Mirror
<1> HIDE DEF merged, apart
<1> QED
  BY <1>1, <1>2, <1>5, <1>6, EarlySound

LEMMA PatternSound ==
  ASSUME PoolShape, NEW o
  PROVE  Sound(PatternLinear(o)) /\ Sound(PatternCircular(o))
<1> DEFINE seed == FirstVisible(o.target)
           none == seed = 0
           target == o.form \cap {"union", "subtract"} # {}
           alone == Has(o, "single") /\ ~ target
           harvest == When(~ alone, AttributeWith({o.others[i] : i \in DOMAIN o.others},
                                                  IF Has(o, "consumeSeed") THEN {seed} ELSE {}))
           takes == When(target, Take(o.others[1]))
           takesSeed == When(Has(o, "consumeSeed"), Take(o.target))
           solid == Refuse(seed # 0 /\ bodies[seed].kind # "solid", Geometry)
           guard == IF Has(o, "consumeSeed") THEN seed ELSE 0
           reads == Check(o, "params", Invalid) \o Refuse(none, Missing) \o takes \o takesSeed
                      \o solid \o Check(o, "build", Geometry) \o Check(o, "pieces", Geometry)
                      \o harvest
<1>1. ~ none => {seed} \subseteq DOMAIN bodies
  BY FoundIsVisible
<1>2. Early(harvest) /\ Early(takes) /\ Early(takesSeed)
  BY TakePart, AttributePart, WhenPart
<1>3. Early(solid)
  BY CodesHold, RefuseEarly
<1>4. PatternCore(o) = reads \o BornReading("solid", {seed}, guard, TRUE)
  BY DEF PatternCore
<1>5. none \in BOOLEAN
  OBVIOUS
<1> HIDE DEF harvest, takes, takesSeed, solid, guard, none, seed
<1>6. Guarded(Refuse(none, Missing), none)
  BY <1>5, CodesHold, RefuseGuards
<1>7. Guarded(reads, none)
  <2>1. Guarded(Check(o, "params", Invalid) \o Refuse(none, Missing), none)
    BY <1>5, <1>6, CodesHold, CheckEarly, GuardedThen
  <2>2. Guarded(Check(o, "params", Invalid) \o Refuse(none, Missing) \o takes \o takesSeed
                  \o solid, none)
    BY <1>2, <1>3, <1>5, <2>1, GuardedThen
  <2> QED
    BY <1>2, <1>5, <2>2, CodesHold, CheckEarly, GuardedThen
<1> HIDE DEF reads
<1>8. Sound(PatternCore(o))
  BY <1>1, <1>4, <1>5, <1>7, SolidKind, ReadingSound
<1>9. Sound(PatternLinear(o))
  BY <1>8, CodesHold, CheckEarly, EarlyEarly, EarlySound DEF PatternLinear
<1>10. Sound(PatternCircular(o))
  <2>1. Early(Refuse(Has(o, "fixed") /\ FirstVisible(o.target) = 0, Missing))
    BY CodesHold, RefuseEarly
  <2> QED
    BY <1>8, <2>1, CodesHold, CheckEarly, SlotEarly, EarlyEarly, EarlySound DEF PatternCircular
<1> QED
  BY <1>9, <1>10

-----------------------------------------------------------------------------
\* Sheet metal: the flat pattern comes before the folded body, which is named.
LEMMA EdgeFlangeSound ==
  ASSUME NEW o
  PROVE  Sound(EdgeFlange(o))
BY CodesHold, CheckEarly, EdgeSlotEarly, TakePart, EarlyEarly, EarlySound, BornSound, SolidKind
   DEF EdgeFlange

Channels == {"none", "book", "registry"}

LEMMA UnfoldSound ==
  ASSUME NEW o, channel \in Channels, channel # "none" => Held({o.target}) \subseteq named
  PROVE  Sound(Unfold(o))
<1> DEFINE s == Body(1, "solid", channel = "registry", TRUE)
           t == [Body(0, "solid", TRUE, TRUE) EXCEPT !.do = "kept", !.recorded = Held({o.target})]
           p == <<s, t>>
           front == Check(o, "params", Invalid) \o Take(o.target) \o PlanBendFlatten(o)
                      \o Check(o, "build", Geometry) \o Check(o, "broken", Internal)
<1>1. /\ s.do = "born" /\ s.booked = (channel = "registry") /\ s.kind = "solid" /\ s.from = {}
      /\ s.out = 1
      /\ t.do = "kept" /\ t.recorded = Held({o.target}) /\ t.kind = "solid" /\ t.from = {}
  BY DEF Body, Blank
<1>2. Unfold(o) = front \o p
  BY DEF Unfold
<1> HIDE DEF s, t
<1>3. IsPlan(p) /\ DOMAIN p = {1, 2} /\ p[1] = s /\ p[2] = t
  <2>1. p \in Seq({s, t}) /\ DOMAIN p = {1, 2} /\ p[1] = s /\ p[2] = t
    OBVIOUS
  <2>2. IsPlan(p)
    BY <2>1, Zenon DEF IsPlan
  <2> QED
    BY <2>1, <2>2
<1> HIDE DEF p
<1>4. /\ StepOK(s) /\ StepOK(t) /\ Bearing(s) /\ Bearing(t) /\ ~ Nameless(t)
      /\ Nameless(s) => s.out = 1 /\ channel = "book"
  BY <1>1, SolidKind DEF Channels, StepOK, StepsOf, Bearing, Nameless
<1>5. Bears(p)
  BY <1>3, <1>4 DEF Bears
<1>6. Ordered(p)
  BY <1>1, <1>3, <1>4 DEF Ordered
<1>7. ReadsBodies(p)
  BY <1>1, <1>3 DEF ReadsBodies
<1>8. Early(front)
  <2>1. Early(PlanBendFlatten(o))
    BY CodesHold, CheckEarly DEF PlanBendFlatten
  <2> QED
    BY <2>1, CodesHold, CheckEarly, TakePart, EarlyEarly
<1> HIDE DEF front
<1> QED
  BY <1>2, <1>5, <1>6, <1>7, <1>8, EarlySound DEF Sound, Follows

-----------------------------------------------------------------------------
\* Surfacing and wiring.
LEMMA RequiredGuards ==
  ASSUME NEW id
  PROVE  Guarded(Required(id), FirstVisible(id) = 0)
BY CodesHold, RefuseGuards DEF Required

LEMMA SurfacesSound ==
  ASSUME PoolShape, NEW o
  PROVE  /\ Sound(BoundarySurface(o)) /\ Sound(SurfaceOffset(o))
         /\ Sound(Stitch(o)) /\ Sound(Thicken(o))
<1> DEFINE none == FirstVisible(o.target) = 0
           loop == Required(o.target) \o Check(o, "loop", Geometry) \o Check(o, "build", Geometry)
<1>1. Guarded(Required(o.target), none) /\ none \in BOOLEAN
  BY RequiredGuards
<1>2. Early(Required(o.target))
  BY <1>1 DEF Guarded
<1>3. ~ none => {FirstVisible(o.target)} \subseteq DOMAIN bodies
  BY FoundIsVisible
<1>4. Sound(BoundarySurface(o))
  <2> HIDE DEF none
  <2>1. Guarded(loop, none)
    BY <1>1, CodesHold, CheckEarly, GuardedThen
  <2>2. BoundarySurface(o) = loop \o BornReading("surface", {FirstVisible(o.target)}, 0, FALSE)
    BY DEF BoundarySurface, Surface
  <2> HIDE DEF loop
  <2> QED
    BY <1>1, <1>3, <2>1, <2>2, SolidKind, ReadingSound
<1>5. \A kind \in Kinds : \A guard : Sound(BornReading(kind, {}, guard, FALSE))
  BY BornReadingPart DEF Sound
<1>6. Early(Refuse(SolidOf(o.target), Invalid)) /\ Early(Refuse(channel # "none", Unsupported))
      /\ Early(Refuse(o.target = o.others[1], Invalid))
  BY CodesHold, RefuseEarly
<1>7. Sound(SurfaceOffset(o))
  BY <1>2, <1>5, <1>6, CodesHold, CheckEarly, TakePart, EarlyEarly, EarlySound, SolidKind
     DEF SurfaceOffset
<1>8. Sound(Stitch(o))
  <2> DEFINE kind == IF Has(o, "closed") THEN "solid" ELSE "surface"
  <2>1. kind \in Kinds
    BY SolidKind
  <2> DEFINE front == Check(o, "params", Invalid) \o Refuse(o.target = o.others[1], Invalid)
                        \o Take(o.target) \o Take(o.others[1]) \o Check(o, "sewing", Geometry)
  <2>2. Stitch(o) = front \o BornReading(kind, {}, 0, FALSE)
    BY DEF Stitch
  <2>3. Early(front)
    BY <1>6, CodesHold, CheckEarly, TakePart, EarlyEarly
  <2> HIDE DEF kind
  <2>4. Sound(BornReading(kind, {}, 0, FALSE))
    BY <1>5, <2>1
  <2> HIDE DEF front
  <2> QED
    BY <2>2, <2>3, <2>4, EarlySound
<1>9. Sound(Thicken(o))
  BY <1>2, <1>5, <1>6, CodesHold, CheckEarly, TakePart, EarlyEarly, EarlySound, SolidKind
     DEF Thicken
<1> QED
  BY <1>4, <1>7, <1>8, <1>9

LEMMA WireRouteSound ==
  ASSUME NEW o, channel = "registry" /\ o.fault # "empty" => o.picked \in DOMAIN bodies
  PROVE  Sound(WireRoute(o))
<1> DEFINE none == channel # "registry" \/ o.fault = "empty"
           front == Check(o, "params", Invalid) \o Slot(o, Unsupported)
                      \o Check(o, "arity", Invalid) \o RoutePoints(o)
                      \o Check(o, "bend", Geometry) \o Check(o, "build", Geometry)
<1>1. none \in BOOLEAN /\ (~ none => {o.picked} \subseteq DOMAIN bodies)
  OBVIOUS
<1>2. Guarded(Slot(o, Unsupported), none)
  BY CodesHold, SlotPart, SlotEarly DEF Guarded
<1>3. Early(RoutePoints(o))
  BY CodesHold, CheckEarly DEF RoutePoints
<1> HIDE DEF none
<1>4. Guarded(front, none)
  <2>1. Guarded(Check(o, "params", Invalid) \o Slot(o, Unsupported), none)
    BY <1>1, <1>2, CodesHold, CheckEarly, GuardedThen
  <2> QED
    BY <1>1, <1>3, <2>1, CodesHold, CheckEarly, GuardedThen
<1>5. WireRoute(o) = front \o BornReading("solid", {o.picked}, 0, FALSE)
  BY DEF WireRoute
<1> HIDE DEF front
<1> QED
  BY <1>1, <1>4, <1>5, SolidKind, ReadingSound

-----------------------------------------------------------------------------
\* Mold tooling: every body read is looked for first.
LEMMA PullEarly ==
  /\ \A line : Early(PullDirection(line))
  /\ \A surface : Early(PullDirectionOfSurface(surface))
<1>1. \A line : Early(PullDirection(line))
  BY CodesHold, RefuseEarly, EarlyEarly DEF PullDirection
<1>2. \A surface : Early(Refuse(TRUE, IF surface \in DOMAIN ops THEN Invalid ELSE Internal))
  BY CodesHold, RefuseEarly
<1> QED
  BY <1>1, <1>2 DEF PullDirectionOfSurface

LEMMA ReadingFinds ==
  ASSUME PoolShape, NEW ids, \A id \in ids : FirstVisible(id) # 0
  PROVE  Reading(ids) \subseteq DOMAIN bodies
BY FoundIsVisible DEF Reading

LEMMA MoldLineSound ==
  ASSUME PoolShape, NEW o
  PROVE  Sound(MoldPartingLine(o))
<1> DEFINE none == FirstVisible(o.target) = 0
           front == Check(o, "params", Invalid) \o Required(o.target)
                      \o Check(o, "loop", Geometry) \o Check(o, "build", Geometry)
<1>1. Guarded(Required(o.target), none) /\ none \in BOOLEAN
  BY RequiredGuards
<1>2. ~ none => Reading({o.target}) \subseteq DOMAIN bodies
  BY ReadingFinds
<1> HIDE DEF none
<1>3. Guarded(front, none)
  BY <1>1, CodesHold, CheckEarly, GuardedThen
<1>4. MoldPartingLine(o) = front \o BornReading("wire", Reading({o.target}), 0, FALSE)
  BY DEF MoldPartingLine
<1> HIDE DEF front
<1> QED
  BY <1>1, <1>2, <1>3, <1>4, SolidKind, ReadingSound

LEMMA MoldShutoffSound ==
  ASSUME PoolShape, NEW o
  PROVE  Sound(MoldShutoffSurface(o))
<1> DEFINE first == FirstVisible(o.target) = 0
           second == FirstVisible(LineOf(o)) = 0
           none == first \/ second
           both == Required(o.target) \o Required(LineOf(o))
           front == both \o Check(o, "loop", Geometry) \o Check(o, "build", Geometry)
           read == Reading({o.target, LineOf(o)})
<1>1. /\ Guarded(Required(o.target), first) /\ first \in BOOLEAN
      /\ Guarded(Required(LineOf(o)), second) /\ second \in BOOLEAN
  BY RequiredGuards
<1>2. ~ none => read \subseteq DOMAIN bodies
  BY ReadingFinds
<1>3. MoldShutoffSurface(o) = front \o BornReading("surface", read, 0, FALSE)
  BY DEF MoldShutoffSurface, Surface
<1> HIDE DEF first, second, read
<1>4. Guarded(both, first) /\ Guarded(both, second)
  BY <1>1, GuardedThen DEF Guarded
<1>5. Guarded(both, none) /\ none \in BOOLEAN
  BY <1>1, <1>4 DEF Guarded
<1> HIDE DEF none, both
<1>6. Guarded(front, none)
  BY <1>5, CodesHold, CheckEarly, GuardedThen
<1> HIDE DEF front
<1> QED
  BY <1>2, <1>3, <1>5, <1>6, SolidKind, ReadingSound

LEMMA MoldSurfaceSound ==
  ASSUME PoolShape, NEW o
  PROVE  Sound(MoldPartingSurface(o))
<1> DEFINE line == FirstVisible(LineOf(o))
           shutoffs == {o.others[i] : i \in DOMAIN o.others \ {1}}
           first == line = 0
           second == \E id \in shutoffs : FirstVisible(id) = 0
           none == first \/ second
           wire == Refuse(line # 0 /\ bodies[line].kind # "wire", Invalid)
           front == Check(o, "params", Invalid) \o Required(LineOf(o)) \o wire
                      \o Refuse(second, Missing) \o PullDirection(LineOf(o))
                      \o Check(o, "build", Geometry)
           read == Reading({LineOf(o)} \cup shutoffs)
<1>1. /\ Guarded(Required(LineOf(o)), first) /\ first \in BOOLEAN
      /\ Guarded(Refuse(second, Missing), second) /\ second \in BOOLEAN
  BY CodesHold, RequiredGuards, RefuseGuards
<1>2. ~ none => read \subseteq DOMAIN bodies
  BY ReadingFinds
<1>3. Early(wire) /\ Early(PullDirection(LineOf(o)))
  BY CodesHold, RefuseEarly, PullEarly
<1>4. MoldPartingSurface(o) = front \o BornReading("surface", read, 0, FALSE)
  BY DEF MoldPartingSurface, Surface
<1> HIDE DEF first, second, read, wire
<1> DEFINE half == Check(o, "params", Invalid) \o Required(LineOf(o)) \o wire
<1>5. Guarded(half, first)
  BY <1>1, <1>3, CodesHold, CheckEarly, GuardedThen
<1>6. Guarded(half \o Refuse(second, Missing), first)
      /\ Guarded(half \o Refuse(second, Missing), second)
  <2> HIDE DEF half
  <2> QED
    BY <1>1, <1>5, GuardedThen DEF Guarded
<1>7. Guarded(half \o Refuse(second, Missing), none) /\ none \in BOOLEAN
  BY <1>1, <1>6 DEF Guarded
<1> HIDE DEF none
<1>8. Guarded(front, none)
  BY <1>3, <1>7, CodesHold, CheckEarly, GuardedThen
<1> HIDE DEF front
<1> QED
  BY <1>2, <1>4, <1>7, <1>8, SolidKind, ReadingSound

LEMMA MoldSplitSound ==
  ASSUME PoolShape, NEW o
  PROVE  Sound(MoldToolingSplit(o))
<1> DEFINE ids == {o.target} \cup {o.others[i] : i \in DOMAIN o.others}
           none == \E id \in ids : FirstVisible(id) = 0
           read == Reading(ids)
           front == Check(o, "params", Invalid) \o Refuse(none, Missing)
                      \o PullDirectionOfSurface(o.others[1])
                      \o Check(o, "open part", Geometry) \o Check(o, "broken", Internal)
                      \o Check(o, "count", Geometry)
           birth(n) == [Body(n, "solid", TRUE, FALSE) EXCEPT !.from = read]
           p == [i \in 1 .. 2 |-> birth(2 - i)]
<1>1. Guarded(Refuse(none, Missing), none) /\ none \in BOOLEAN
  BY CodesHold, RefuseGuards
<1>2. ~ none => read \subseteq DOMAIN bodies
  BY ReadingFinds
<1>3. Early(PullDirectionOfSurface(o.others[1]))
  BY PullEarly
<1>4. MoldToolingSplit(o) = front \o p
  BY DEF MoldToolingSplit
<1>5. /\ p[1].do = "born" /\ p[1].booked = TRUE /\ p[1].kind = "solid" /\ p[1].from = read
      /\ p[2].do = "born" /\ p[2].booked = TRUE /\ p[2].kind = "solid" /\ p[2].from = read
  <2>1. \A n : /\ birth(n).do = "born" /\ birth(n).booked = TRUE
               /\ birth(n).kind = "solid" /\ birth(n).from = read
    BY DEF Body, Blank
  <2> HIDE DEF birth
  <2> QED
    BY <2>1
<1>6. IsPlan(p) /\ DOMAIN p = {1, 2}
  <2> DEFINE S == {birth(2 - i) : i \in 1 .. 2}
  <2>1. DOMAIN p = 1 .. 2 /\ p \in [1 .. 2 -> S]
    OBVIOUS
  <2> HIDE DEF p, S
  <2>2. p \in Seq(S)
    BY <2>1, SeqDef
  <2>3. IsPlan(p)
    BY <2>2, Zenon DEF IsPlan
  <2> QED
    BY <2>1, <2>3
<1> HIDE DEF p, read, none
<1>7. Follows(p) /\ (~ none => ReadsBodies(p))
  BY <1>2, <1>5, <1>6, SolidKind, TwoBirths
<1>8. Guarded(front, none)
  BY <1>1, <1>3, CodesHold, CheckEarly, GuardedThen
<1> HIDE DEF front
<1> QED
  BY <1>4, <1>6, <1>7, <1>8, EarlySound, RefusedSound DEF Sound, Guarded

-----------------------------------------------------------------------------
\* Every operation, on a pool whose resolving ids are named.
LEMMA PlansOK ==
  ASSUME PoolShape, channel \in Channels, NEW o,
         channel # "none" => Held({o.target}) \subseteq named,
         o.type = "wire_route" /\ channel = "registry" /\ o.fault # "empty"
           => o.picked \in DOMAIN bodies
  PROVE  PlanOK(Plan(o))
<1>1. /\ PlanOK(CreateBox(o)) /\ PlanOK(CreateCylinder(o)) /\ PlanOK(CreateSphere(o))
      /\ PlanOK(CreateCone(o)) /\ PlanOK(CreateTorus(o)) /\ PlanOK(CreateWedge(o))
  BY RootBirths, SoundPlan
<1>2. /\ PlanOK(Sketch(o)) /\ PlanOK(CreateProfile(o)) /\ PlanOK(DatumPlane(o))
      /\ PlanOK(DatumAxis(o)) /\ PlanOK(Refuse(TRUE, Unsupported))
  BY ProfilesOK, DatumsOK
<1>3. /\ PlanOK(Extrude(o)) /\ PlanOK(BaseFlange(o)) /\ PlanOK(Revolve(o))
      /\ PlanOK(Loft(o)) /\ PlanOK(Sweep(o)) /\ PlanOK(ImportStep(o)) /\ PlanOK(ImportMesh(o))
  BY ExtrudeSound, RevolveSound, LoftSound, SweepSound, ImportsSound, SoundPlan
<1>4. /\ PlanOK(BooleanCombine(o)) /\ PlanOK(Hole(o)) /\ PlanOK(Transform(o))
      /\ PlanOK(Offset(o)) /\ PlanOK(Fillet(o)) /\ PlanOK(Chamfer(o)) /\ PlanOK(Shell(o))
  BY ChangesSound, OffsetSound, FilletSound, ShellSound, SoundPlan
<1>5. /\ PlanOK(Mirror(o)) /\ PlanOK(PatternLinear(o)) /\ PlanOK(PatternCircular(o))
      /\ PlanOK(EdgeFlange(o)) /\ PlanOK(Unfold(o))
  BY MirrorSound, PatternSound, EdgeFlangeSound, UnfoldSound, SoundPlan
<1>6. /\ PlanOK(BoundarySurface(o)) /\ PlanOK(SurfaceOffset(o)) /\ PlanOK(Stitch(o))
      /\ PlanOK(Thicken(o)) /\ (o.type = "wire_route" => PlanOK(WireRoute(o)))
  BY SurfacesSound, WireRouteSound, SoundPlan
<1>7. /\ PlanOK(MoldPartingLine(o)) /\ PlanOK(MoldShutoffSurface(o))
      /\ PlanOK(MoldPartingSurface(o)) /\ PlanOK(MoldToolingSplit(o))
  BY MoldLineSound, MoldShutoffSound, MoldSurfaceSound, MoldSplitSound, SoundPlan
<1> QED
  BY <1>1, <1>2, <1>3, <1>4, <1>5, <1>6, <1>7 DEF Plan


-----------------------------------------------------------------------------
\* The rest of a plan, once its first step is done.
Takes(p) == \E i \in DOMAIN p : p[i].do = "take"

LEMMA TailPlaces ==
  ASSUME NEW p, IsPlan(p), p # << >>
  PROVE  /\ IsPlan(Tail(p)) /\ 1 \in DOMAIN p /\ Head(p) = p[1]
         /\ \A i \in DOMAIN Tail(p) : i \in Nat /\ i >= 1 /\ i + 1 \in DOMAIN p /\ Tail(p)[i] = p[i + 1]
         /\ \A j \in DOMAIN p : /\ j \in Nat /\ j >= 1
                                /\ j # 1 => j - 1 \in DOMAIN Tail(p) /\ Tail(p)[j - 1] = p[j]
<1>1. PICK A : p \in Seq(A)
  BY DEF IsPlan
<1>2. /\ Tail(p) \in Seq(A) /\ Len(p) \in Nat /\ Len(p) >= 1 /\ Head(p) = p[1]
      /\ DOMAIN p = 1 .. Len(p) /\ Len(Tail(p)) = Len(p) - 1
      /\ DOMAIN Tail(p) = 1 .. Len(p) - 1
  BY <1>1
<1>3. \A i \in 1 .. Len(p) - 1 : Tail(p)[i] = p[i + 1]
  BY <1>1, <1>2
<1>4. \A j \in DOMAIN p : /\ j \in Nat /\ j >= 1
                          /\ j # 1 => j - 1 \in 1 .. Len(p) - 1 /\ j = (j - 1) + 1
  BY <1>2
<1>5. \A i \in DOMAIN Tail(p) : i \in Nat /\ i >= 1 /\ i + 1 \in DOMAIN p
  BY <1>2
<1>6. IsPlan(Tail(p))
  BY <1>2 DEF IsPlan
<1> QED
  BY <1>2, <1>3, <1>4, <1>5, <1>6

LEMMA TailPlan ==
  ASSUME NEW p, PlanOK(p), p # << >>, Head(p).do # "refuse"
  PROVE  /\ StepOK(Head(p)) /\ PlanOK(Tail(p))
         /\ Bears(p) /\ ~ Bearing(Head(p)) => Bears(Tail(p))
         /\ Bears(Tail(p)) => Bears(p)
         /\ Takes(Tail(p)) => Takes(p) /\ ~ Bearing(Head(p))
         /\ Head(p).do = "take" => Takes(p) /\ Bears(Tail(p))
         /\ Bearing(Head(p)) => Head(p).from \subseteq DOMAIN bodies
         /\ Nameless(Head(p)) => Head(p).out = 1 /\ channel = "book" /\ Bears(Tail(p))
<1> DEFINE t == Tail(p)
<1>1. Ordered(p) /\ IsPlan(p) /\ ReadsBodies(p)
  BY DEF PlanOK, Ordered
<1>2. /\ IsPlan(t) /\ 1 \in DOMAIN p /\ Head(p) = p[1]
      /\ \A i \in DOMAIN t : i \in Nat /\ i >= 1 /\ i + 1 \in DOMAIN p /\ t[i] = p[i + 1]
      /\ \A j \in DOMAIN p : /\ j \in Nat /\ j >= 1
                             /\ j # 1 => j - 1 \in DOMAIN t /\ t[j - 1] = p[j]
  BY <1>1, TailPlaces
<1> HIDE DEF t
<1>3. StepOK(Head(p)) /\ \A i \in DOMAIN t : StepOK(t[i])
  BY <1>1, <1>2 DEF Ordered
<1>4. ASSUME NEW j \in DOMAIN p, Bearing(p[j]), j # 1 PROVE Bears(t)
  BY <1>2, <1>4 DEF Bears
<1>5. Bears(p) /\ ~ Bearing(Head(p)) => Bears(t)
  BY <1>2, <1>4 DEF Bears
<1>6. Bears(t) => Bears(p)
  BY <1>2 DEF Bears
<1>7. Takes(t) => Takes(p) /\ ~ Bearing(Head(p))
  <2> SUFFICES ASSUME NEW i \in DOMAIN t, t[i].do = "take" PROVE Takes(p) /\ ~ Bearing(Head(p))
    BY DEF Takes
  <2>1. i + 1 \in DOMAIN p /\ p[i + 1].do = "take" /\ i \in Nat /\ i >= 1
    BY <1>2
  <2>2. Takes(p)
    BY <2>1 DEF Takes
  <2>3. Bearing(p[1]) => i + 1 < 1
    BY <1>1, <1>2, <2>1 DEF Ordered
  <2> QED
    BY <1>2, <2>1, <2>2, <2>3
<1>8. Head(p).do = "take" => Takes(p) /\ Bears(t)
  <2> SUFFICES ASSUME p[1].do = "take" PROVE Takes(p) /\ Bears(t)
    BY <1>2
  <2>1. Bears(p) /\ ~ Bearing(Head(p))
    BY <1>1, <1>2 DEF Ordered, Bearing
  <2> QED
    BY <1>2, <1>5, <2>1 DEF Takes
<1>9. Bearing(Head(p)) => Head(p).from \subseteq DOMAIN bodies
  <2>1. \A j \in DOMAIN p : p[j].do = "refuse" => 1 < j
    BY <1>2
  <2> QED
    BY <1>1, <1>2, <2>1 DEF ReadsBodies
<1>10. Nameless(Head(p)) => Head(p).out = 1 /\ channel = "book" /\ Bears(t)
  <2> SUFFICES ASSUME Nameless(p[1])
               PROVE  p[1].out = 1 /\ channel = "book" /\ Bears(t)
    BY <1>2
  <2>1. /\ p[1].out = 1 /\ channel = "book"
        /\ \E j \in DOMAIN p : 1 < j /\ Bearing(p[j])
    BY <1>1, <1>2 DEF Ordered
  <2>2. PICK j \in DOMAIN p : 1 < j /\ Bearing(p[j])
    BY <2>1
  <2>3. Bears(t)
    BY <1>2, <1>4, <2>2
  <2> QED
    BY <2>1, <2>3
<1>11. Ordered(t)
  <2>1. ASSUME NEW i \in DOMAIN t, t[i].do = "take"
        PROVE  (\A j \in DOMAIN t : Bearing(t[j]) => i < j) /\ Bears(t)
    <3>1. i + 1 \in DOMAIN p /\ p[i + 1].do = "take" /\ i \in Nat
      BY <1>2, <2>1
    <3>2. (\A j \in DOMAIN p : Bearing(p[j]) => i + 1 < j) /\ Bears(p)
      BY <1>1, <3>1 DEF Ordered
    <3>3. ASSUME NEW j \in DOMAIN t, Bearing(t[j]) PROVE i < j
      <4>1. j + 1 \in DOMAIN p /\ Bearing(p[j + 1]) /\ j \in Nat
        BY <1>2, <3>3
      <4>2. i + 1 < j + 1
        BY <3>2, <4>1
      <4> QED
        BY <3>1, <4>1, <4>2
    <3>4. Bears(t)
      BY <1>5, <1>7, <2>1, <3>2 DEF Takes
    <3> QED
      BY <3>3, <3>4
  <2>2. ASSUME NEW i \in DOMAIN t, Nameless(t[i])
        PROVE  t[i].out = 1 /\ channel = "book" /\ \E j \in DOMAIN t : i < j /\ Bearing(t[j])
    <3>1. i + 1 \in DOMAIN p /\ Nameless(p[i + 1]) /\ t[i] = p[i + 1] /\ i \in Nat
      BY <1>2, <2>2
    <3>2. /\ p[i + 1].out = 1 /\ channel = "book"
          /\ \E j \in DOMAIN p : i + 1 < j /\ Bearing(p[j])
      BY <1>1, <3>1 DEF Ordered
    <3>3. PICK j \in DOMAIN p : i + 1 < j /\ Bearing(p[j])
      BY <3>2
    <3>4. j - 1 \in DOMAIN t /\ Bearing(t[j - 1]) /\ i < j - 1
      BY <1>2, <3>1, <3>3
    <3> QED
      BY <3>1, <3>2, <3>4
  <2> HIDE DEF Bears, Bearing, StepOK, Nameless
  <2> QED
    BY <1>2, <1>3, <2>1, <2>2 DEF Ordered
<1>12. ReadsBodies(t)
  <2> SUFFICES ASSUME NEW i \in DOMAIN t, Bearing(t[i]),
                      \A j \in DOMAIN t : t[j].do = "refuse" => i < j
               PROVE  t[i].from \subseteq DOMAIN bodies
    BY DEF ReadsBodies
  <2>1. i + 1 \in DOMAIN p /\ p[i + 1] = t[i] /\ i \in Nat
    BY <1>2
  <2>2. ASSUME NEW j \in DOMAIN p, p[j].do = "refuse" PROVE i + 1 < j
    <3>1. j # 1 /\ j \in Nat /\ j - 1 \in DOMAIN t /\ t[j - 1].do = "refuse"
      BY <1>2, <2>2
    <3>2. i < j - 1
      BY <3>1
    <3> QED
      BY <2>1, <3>1, <3>2
  <2> QED
    BY <1>1, <2>1, <2>2 DEF ReadsBodies
<1> QED
  BY <1>3, <1>5, <1>6, <1>7, <1>8, <1>9, <1>10, <1>11, <1>12 DEF PlanOK, t

\* A plan stays good while names and bodies are only added.
LEMMA PlanMoves ==
  ASSUME NEW p, PlanOK(p), todo' = p, channel' = channel,
         named \subseteq named', DOMAIN bodies \subseteq DOMAIN bodies'
  PROVE  PlanOK(todo)'
<1>1. \A s : StepOK(s) => StepOK(s)'
  BY DEF StepOK, Bearing
<1>2. \A s : (Bearing(s) <=> Bearing(s)') /\ (Nameless(s) <=> Nameless(s)')
  BY DEF Bearing, Nameless
<1>3. Bears(p) => Bears(todo)'
  BY <1>2 DEF Bears
<1>4. Ordered(todo)'
  BY <1>1, <1>2, <1>3 DEF PlanOK, Ordered, IsPlan
<1>5. ReadsBodies(todo)'
  BY <1>2 DEF PlanOK, ReadsBodies
<1> QED
  BY <1>4, <1>5 DEF PlanOK

-----------------------------------------------------------------------------
\* The invariant.  An evaluation that is not running has no plan left.
Phases ==
  /\ IsPlan(ops) /\ channel \in Channels /\ document \in Documents
  /\ status \in {"ready", "running", "ok"} \cup Codes
  /\ status = "running" => ops # << >>
  /\ status # "running" => todo = << >>
  /\ PlanOK(todo)
BodiesTyped ==
  \A b \in DOMAIN bodies :
    /\ bodies[b].op \in 1 .. Len(ops) /\ bodies[b].kind \in Kinds
    /\ bodies[b].eaten \subseteq 1 .. b - 1 /\ bodies[b].read \subseteq 1 .. b - 1
References ==
  /\ named \cup recorded \subseteq DOMAIN bodies
  /\ DOMAIN available \cup profiles \cup paths \subseteq DOMAIN ops

\* What an operation took is older than it, and goes into a body still to come or
\* already there; an operation that has still to take has borne nothing.
Material ==
  /\ \A b \in DOMAIN bodies : \A x \in bodies[b].eaten : bodies[x].op < bodies[b].op
  /\ \A x \in held : bodies[x].op < Current
  /\ Takes(todo) => BodiesOf(Current) = {}
  /\ \A x \in consumed \ held : \E b \in DOMAIN bodies : x \in bodies[b].eaten
  /\ held = {} \/ Bears(todo) \/ \E b \in DOMAIN bodies : held \subseteq bodies[b].eaten

\* An id resolves to a body with names, except the flat pattern's while the folded
\* body, which takes the id over, is still to come.
Naming ==
  channel # "none" =>
    /\ \A b \in Visible : b \in named \/ FlatPattern(b)
    /\ \A id \in DOMAIN available :
         available[id] \in named \/ (id = Current /\ Bears(todo))
EvalInv == Phases /\ BodiesTyped /\ References /\ Material /\ Naming

LEMMA CodesApart == \A code \in Codes : code \notin {"ready", "running", "ok"}
BY DEF Codes, Invalid, Missing, Geometry, Internal, Unsupported, Ambiguous, WrongKind

LEMMA NothingPlanned ==
  /\ Ordered(<< >>) /\ ReadsBodies(<< >>) /\ PlanOK(<< >>)
  /\ ~ Bears(<< >>) /\ ~ Takes(<< >>)
<1>1. << >> \in Seq({}) /\ DOMAIN << >> = {}
  OBVIOUS
<1>2. Ordered(<< >>) /\ ReadsBodies(<< >>)
  BY NoSteps, ChecksOrdered
<1> QED
  BY <1>1, <1>2 DEF PlanOK, Bears, Takes

\* The operation under way is one of the document's.
LEMMA CurrentIsThere ==
  ASSUME Phases, status = "running"
  PROVE  Current \in DOMAIN ops /\ Current \in Nat /\ DOMAIN ops = 1 .. Current /\ Current >= 1
<1>1. PICK A : ops \in Seq(A)
  BY DEF Phases, IsPlan
<1>2. ops # << >>
  BY DEF Phases
<1>3. Len(ops) \in Nat /\ DOMAIN ops = 1 .. Len(ops) /\ Len(ops) >= 1
  BY <1>1, <1>2
<1> QED
  BY <1>3 DEF Current

\* Steps that leave bodies, takes and names alone.
LEMMA QuietAdvance ==
  ASSUME EvalInv, status = "running", todo # << >>, Advance,
         Head(todo).do \in {"attribute", "copy", "profile", "path"},
         UNCHANGED <<bodies, consumed, available, named, held>>,
         recorded' \subseteq recorded,
         profiles' \subseteq profiles \cup {Current}, paths' \subseteq paths \cup {Current}
  PROVE  EvalInv'
<1> DEFINE t == Tail(todo)
<1>1. todo' = t /\ UNCHANGED <<ops, status, channel, document>>
  BY DEF Advance
<1>2. PlanOK(todo)
  BY DEF EvalInv, Phases
<1>3. /\ PlanOK(t) /\ (Bears(todo) => Bears(t)) /\ (Takes(t) => Takes(todo))
  BY <1>2, TailPlan DEF Bearing
<1> HIDE DEF t
<1>4. PlanOK(todo)'
  BY <1>1, <1>3, PlanMoves
<1>5. (Bears(todo) => Bears(todo)') /\ (Takes(todo)' => Takes(todo))
  BY <1>1, <1>3 DEF Bears, Takes, Bearing
<1>6. Phases'
  BY <1>1, <1>4 DEF EvalInv, Phases, IsPlan
<1>7. BodiesTyped' /\ References'
  BY <1>1, CurrentIsThere DEF EvalInv, BodiesTyped, References
<1>8. Material' /\ Naming'
  BY <1>1, <1>5 DEF EvalInv, Material, Naming, Current, BodiesOf, Visible, FlatPattern
<1> QED
  BY <1>6, <1>7, <1>8 DEF EvalInv

\* A take holds a body of an earlier operation, for one that is still to be borne.
LEMMA TakeAdvance ==
  ASSUME EvalInv, PoolInv, Taken
  PROVE  EvalInv'
<1> DEFINE t == Tail(todo)
           id == Head(todo).id
           a == available[id]
<1>1. /\ status = "running" /\ todo # << >> /\ Head(todo).do = "take"
      /\ Consume(id) /\ held' = held \cup {a}
      /\ todo' = t /\ UNCHANGED <<ops, status, channel, document, profiles, paths, named, recorded>>
  BY DEF Taken, Step, Advance
<1>2. PlanOK(todo)
  BY DEF EvalInv, Phases
<1>3. /\ PlanOK(t) /\ Bears(t) /\ Takes(todo) /\ (Takes(t) => Takes(todo))
      /\ (Bears(todo) => Bears(t))
  BY <1>1, <1>2, TailPlan DEF Bearing
<1>4. /\ a \in DOMAIN bodies \ consumed /\ consumed' = consumed \cup {a}
      /\ available' = [x \in DOMAIN available \ {id} |-> available[x]]
      /\ bodies' = bodies /\ id \in DOMAIN available
  BY <1>1, ConsumeKeepsPool DEF Consume
<1>5. a \in BodiesOf(id)
  BY <1>4 DEF PoolInv, PoolSound, AvailableSound
<1> HIDE DEF t, id, a
<1>6. PlanOK(todo)'
  BY <1>1, <1>3, <1>4, PlanMoves
<1>7. Bears(todo)' /\ (Takes(todo)' => Takes(todo))
  BY <1>1, <1>3 DEF Bears, Takes, Bearing
<1>8. Phases'
  BY <1>1, <1>6 DEF EvalInv, Phases, IsPlan
<1>9. BodiesTyped' /\ References'
  BY <1>1, <1>4 DEF EvalInv, BodiesTyped, References
<1>10. bodies[a].op < Current
  <2>1. BodiesOf(Current) = {}
    BY <1>3 DEF EvalInv, Material
  <2>2. bodies[a].op # Current
    BY <1>4, <2>1 DEF BodiesOf
  <2>3. bodies[a].op \in 1 .. Current /\ Current \in Nat
    BY <1>1, <1>4, CurrentIsThere DEF EvalInv, BodiesTyped, Current
  <2> QED
    BY <2>2, <2>3
<1>11. Material'
  <2>1. (\A x \in held : bodies[x].op < Current)'
    BY <1>1, <1>4, <1>10 DEF EvalInv, Material, Current
  <2>2. (Takes(todo) => BodiesOf(Current) = {})'
    BY <1>1, <1>4, <1>7 DEF EvalInv, Material, Current, BodiesOf
  <2>3. (\A x \in consumed \ held : \E b \in DOMAIN bodies : x \in bodies[b].eaten)'
    BY <1>1, <1>4 DEF EvalInv, Material
  <2> QED
    BY <1>4, <1>7, <2>1, <2>2, <2>3 DEF EvalInv, Material
<1>12. Naming'
  <2> SUFFICES ASSUME channel # "none"
               PROVE  /\ (\A b \in Visible : b \in named \/ FlatPattern(b))'
                      /\ (\A x \in DOMAIN available :
                            available[x] \in named \/ (x = Current /\ Bears(todo)))'
    BY <1>1 DEF Naming
  <2>1. (\A b \in Visible : b \in named \/ FlatPattern(b))'
    BY <1>1, <1>4 DEF EvalInv, Naming, Visible, FlatPattern
  <2>2. (\A x \in DOMAIN available : available[x] \in named \/ (x = Current /\ Bears(todo)))'
    BY <1>1, <1>4, <1>7 DEF EvalInv, Naming, Current
  <2> QED
    BY <2>1, <2>2
<1> QED
  BY <1>8, <1>9, <1>11, <1>12 DEF EvalInv


\* A birth takes what is held into the new body, with its names or as a flat pattern.
LEMMA BearAdvance ==
  ASSUME EvalInv, PoolInv, EatenInv, status = "running", todo # << >>, Advance,
         Bearing(Head(todo)), Produce(MadeBody(Head(todo))),
         UNCHANGED <<profiles, paths, held>>,
         named \subseteq named', named' \subseteq named \cup {Len(bodies) + 1},
         recorded' \subseteq recorded \cup {Len(bodies) + 1},
         channel # "none" => Len(bodies) + 1 \in named' \/ Nameless(Head(todo))
  PROVE  EvalInv'
<1> DEFINE t == Tail(todo)
           h == Head(todo)
           n == Len(bodies) + 1
           e == MadeBody(h)
<1>1. todo' = t /\ UNCHANGED <<ops, status, channel, document, profiles, paths, held>>
  BY DEF Advance
<1>2. PlanOK(todo) /\ h.do # "refuse"
  BY DEF EvalInv, Phases, Bearing
<1>3. /\ PlanOK(t) /\ ~ Takes(t) /\ (Bears(t) => Bears(todo))
      /\ h.from \subseteq DOMAIN bodies /\ StepOK(h)
      /\ Nameless(h) => h.out = 1 /\ channel = "book" /\ Bears(t)
  BY <1>2, TailPlan
<1>4. PICK A : bodies \in Seq(A)
  BY DEF PoolInv, PoolShape
<1>5. /\ bodies' = Append(bodies, e) /\ consumed' = consumed
      /\ available' = [id \in DOMAIN available \cup {e.op} |-> IF id = e.op THEN n ELSE available[id]]
  BY DEF Produce
<1>6. /\ DOMAIN bodies' = DOMAIN bodies \cup {n} /\ n \notin DOMAIN bodies
      /\ bodies'[n] = e /\ DOMAIN bodies = 1 .. n - 1 /\ n \in Nat
      /\ \A i \in DOMAIN bodies : bodies'[i] = bodies[i]
  BY <1>4, <1>5, AppendBody
<1>7. /\ e.op = Current /\ e.out = h.out /\ e.kind = h.kind /\ e.eaten = held /\ e.read = h.from
  BY DEF MadeBody
<1>8. Current \in DOMAIN ops /\ Current \in Nat /\ DOMAIN ops = 1 .. Current /\ Current >= 1
      /\ Current' = Current /\ Current = Len(ops)
  BY <1>1, CurrentIsThere DEF EvalInv, Current
<1>9. held \subseteq consumed /\ consumed \subseteq DOMAIN bodies
  BY DEF EatenInv, PoolInv, PoolShape
<1>10. /\ named \subseteq named' /\ named' \subseteq named \cup {n}
       /\ recorded' \subseteq recorded \cup {n}
       /\ channel # "none" => n \in named' \/ Nameless(h)
  OBVIOUS
<1>11. h.kind \in Kinds
  BY <1>3 DEF StepOK
<1> HIDE DEF t, n, e, h
<1>12. PlanOK(todo)'
  BY <1>1, <1>3, <1>6, <1>10, PlanMoves
<1>13. (Bears(t) => Bears(todo)') /\ ~ Takes(todo)'
  BY <1>1, <1>3 DEF Bears, Takes, Bearing
<1>14. Phases'
  BY <1>1, <1>12 DEF EvalInv, Phases, IsPlan
<1>15. BodiesTyped'
  <2> SUFFICES ASSUME NEW b \in DOMAIN bodies'
               PROVE  /\ bodies'[b].op \in 1 .. Len(ops) /\ bodies'[b].kind \in Kinds
                      /\ bodies'[b].eaten \subseteq 1 .. b - 1 /\ bodies'[b].read \subseteq 1 .. b - 1
    BY <1>1 DEF BodiesTyped
  <2>1. CASE b \in DOMAIN bodies
    BY <1>6, <2>1 DEF EvalInv, BodiesTyped
  <2>2. CASE b = n
    BY <1>3, <1>6, <1>7, <1>8, <1>9, <1>11, <2>2
  <2> QED
    BY <1>6, <2>1, <2>2
<1>16. References'
  BY <1>1, <1>5, <1>6, <1>7, <1>8, <1>10 DEF EvalInv, References
<1>17. Material'
  <2>1. (\A b \in DOMAIN bodies : \A x \in bodies[b].eaten : bodies[x].op < bodies[b].op)'
    <3> SUFFICES ASSUME NEW b \in DOMAIN bodies', NEW x \in bodies'[b].eaten
                 PROVE  bodies'[x].op < bodies'[b].op
      OBVIOUS
    <3>1. CASE b \in DOMAIN bodies
      <4>1. x \in 1 .. b - 1 /\ x \in DOMAIN bodies /\ bodies[x].op < bodies[b].op
        BY <1>6, <3>1 DEF EvalInv, BodiesTyped, Material
      <4> QED
        BY <1>6, <3>1, <4>1
    <3>2. CASE b = n
      <4>1. x \in held /\ x \in DOMAIN bodies /\ bodies[x].op < Current
        BY <1>6, <1>7, <1>9, <3>2 DEF EvalInv, Material
      <4> QED
        BY <1>6, <1>7, <3>2, <4>1
    <3> QED
      BY <1>6, <3>1, <3>2
  <2>2. (\A x \in held : bodies[x].op < Current)'
    BY <1>1, <1>6, <1>8, <1>9 DEF EvalInv, Material
  <2>3. (\A x \in consumed \ held : \E b \in DOMAIN bodies : x \in bodies[b].eaten)'
    BY <1>1, <1>5, <1>6 DEF EvalInv, Material
  <2>4. (\E b \in DOMAIN bodies : held \subseteq bodies[b].eaten)'
    BY <1>1, <1>6, <1>7
  <2> QED
    BY <1>13, <2>1, <2>2, <2>3, <2>4 DEF Material
<1>18. Naming'
  <2> SUFFICES ASSUME channel # "none"
               PROVE  /\ (\A b \in Visible : b \in named \/ FlatPattern(b))'
                      /\ (\A id \in DOMAIN available :
                            available[id] \in named \/ (id = Current /\ Bears(todo)))'
    BY <1>1 DEF Naming
  <2>1. ASSUME NEW b \in Visible' PROVE b \in named' \/ FlatPattern(b)'
    <3>1. CASE b \in DOMAIN bodies
      BY <1>1, <1>5, <1>6, <1>10, <2>1, <3>1 DEF EvalInv, Naming, Visible, FlatPattern
    <3>2. CASE b = n
      BY <1>1, <1>3, <1>6, <1>7, <1>10, <3>2 DEF FlatPattern
    <3> QED
      BY <1>6, <2>1, <3>1, <3>2 DEF Visible
  <2>2. ASSUME NEW id \in DOMAIN available'
        PROVE  available'[id] \in named' \/ (id = Current' /\ Bears(todo)')
    <3>1. CASE id = Current
      <4>1. available'[id] = n
        BY <1>5, <1>7, <3>1
      <4> QED
        BY <1>3, <1>8, <1>10, <1>13, <3>1, <4>1
    <3>2. CASE id # Current
      <4>1. id \in DOMAIN available /\ available'[id] = available[id]
        BY <1>5, <1>7, <3>2
      <4> QED
        BY <1>10, <3>2, <4>1 DEF EvalInv, Naming
    <3> QED
      BY <3>1, <3>2
  <2> QED
    BY <2>1, <2>2
<1> QED
  BY <1>14, <1>15, <1>16, <1>17, <1>18 DEF EvalInv

\* A failure leaves nothing behind.
LEMMA DiscardKeeps ==
  ASSUME EvalInv, NEW code \in Codes, Discard(code)
  PROVE  EvalInv'
<1>1. /\ status' = code /\ bodies' = << >> /\ consumed' = {} /\ available' = [id \in {} |-> 0]
      /\ profiles' = {} /\ paths' = {} /\ named' = {} /\ recorded' = {}
      /\ ops' = << >> /\ todo' = << >> /\ held' = {} /\ channel' = channel /\ document' = document
  BY DEF Discard
<1>2. << >> \in Seq({}) /\ DOMAIN << >> = {} /\ DOMAIN [id \in {} |-> 0] = {}
  OBVIOUS
<1>3. PlanOK(todo)'
  BY <1>1, <1>2 DEF PlanOK, Ordered, ReadsBodies, IsPlan
<1>4. Phases'
  <2>1. IsPlan(ops)'
    BY <1>1, <1>2 DEF IsPlan
  <2> QED
    BY <1>1, <1>3, <2>1, CodesApart DEF EvalInv, Phases
<1>5. ~ Takes(todo)' /\ BodiesTyped' /\ References' /\ Naming'
  BY <1>1, <1>2 DEF Takes, BodiesTyped, References, Naming, Visible
<1>6. Material'
  BY <1>1, <1>2, <1>5 DEF Material
<1> QED
  BY <1>4, <1>5, <1>6 DEF EvalInv

\* One more operation in the document.
LEMMA AppendOperation ==
  ASSUME IsPlan(ops), NEW e, ops' = Append(ops, e)
  PROVE  /\ IsPlan(ops)' /\ DOMAIN ops \subseteq DOMAIN ops' /\ Current' = Current + 1
         /\ Current \in Nat /\ 1 .. Len(ops) \subseteq 1 .. Len(ops') /\ ops' # << >>
<1>1. PICK A : ops \in Seq(A)
  BY DEF IsPlan
<1>2. /\ ops' \in Seq(A \cup {e}) /\ DOMAIN ops = 1 .. Len(ops) /\ Len(ops) \in Nat
      /\ DOMAIN ops' = DOMAIN ops \cup {Len(ops) + 1}
  BY <1>1, AppendBody
<1>3. Len(ops') = Len(ops) + 1
  BY <1>1
<1>4. ops' # << >>
  BY <1>2, <1>3
<1> QED
  BY <1>2, <1>3, <1>4 DEF IsPlan, Current

LEMMA AppendKeeps ==
  ASSUME EvalInv, EatenInv, status = "ready", NEW e, ops' = Append(ops, e),
         status' \in {"ready", "running"}, status' # "running" => todo' = << >>,
         PlanOK(todo)',
         UNCHANGED <<bodies, consumed, available, profiles, paths, named, recorded, held, channel,
                     document>>
  PROVE  EvalInv'
<1>1. IsPlan(ops) /\ todo = << >> /\ held = {}
  BY DEF EvalInv, Phases, EatenInv
<1>2. /\ IsPlan(ops)' /\ DOMAIN ops \subseteq DOMAIN ops' /\ Current' = Current + 1
      /\ Current \in Nat /\ 1 .. Len(ops) \subseteq 1 .. Len(ops') /\ ops' # << >>
  BY <1>1, AppendOperation
<1>3. ~ Bears(todo)
  BY <1>1, NothingPlanned
<1>4. Phases'
  BY <1>2 DEF EvalInv, Phases
<1>5. BodiesTyped' /\ References'
  BY <1>2 DEF EvalInv, BodiesTyped, References
<1>6. Naming'
  BY <1>3 DEF EvalInv, Naming, Visible, FlatPattern
<1>7. BodiesOf(Current)' = {}
  BY <1>2 DEF EvalInv, BodiesTyped, BodiesOf, Current
<1>8. Material'
  BY <1>1, <1>7 DEF EvalInv, Material
<1> QED
  BY <1>4, <1>5, <1>6, <1>8 DEF EvalInv


\* An operation begins with a good plan, made from the pool it peeks at.
LEMMA BeginKeeps ==
  ASSUME EvalInv, PoolInv, EatenInv, Begin
  PROVE  EvalInv'
<1>1. /\ status = "ready" /\ status' = "running" /\ PoolShape
      /\ UNCHANGED <<bodies, consumed, available, profiles, paths, named, recorded, held, channel,
                     document>>
  BY DEF Begin, PoolInv
<1>2. PICK t \in document.of :
        \E target \in Earlier(t.targets), profile \in Earlier(t.profiles),
           others \in [1 .. t.others -> DOMAIN ops], picked \in Pickable(t) :
          LET o == [type |-> t.type, form |-> t.form, target |-> target,
                    profile |-> profile, others |-> others, picked |-> picked,
                    fault |-> IF t.picks /\ picked = 0 /\ channel = "registry"
                              THEN "empty" ELSE t.fault]
          IN /\ ops' = Append(ops, [type |-> o.type, others |-> o.others])
             /\ todo' = Plan(o)
  BY DEF Begin
<1>3. PICK target \in Earlier(t.targets), profile \in Earlier(t.profiles),
           others \in [1 .. t.others -> DOMAIN ops], picked \in Pickable(t) :
        LET o == [type |-> t.type, form |-> t.form, target |-> target,
                  profile |-> profile, others |-> others, picked |-> picked,
                  fault |-> IF t.picks /\ picked = 0 /\ channel = "registry"
                            THEN "empty" ELSE t.fault]
        IN /\ ops' = Append(ops, [type |-> o.type, others |-> o.others])
           /\ todo' = Plan(o)
  BY <1>2
<1> DEFINE o == [type |-> t.type, form |-> t.form, target |-> target,
                 profile |-> profile, others |-> others, picked |-> picked,
                 fault |-> IF t.picks /\ picked = 0 /\ channel = "registry"
                           THEN "empty" ELSE t.fault]
           e == [type |-> o.type, others |-> o.others]
<1>4. ops' = Append(ops, e) /\ todo' = Plan(o)
  BY <1>3
<1>5. channel # "none" => Held({o.target}) \subseteq named
  <2>1. ~ Bears(todo)
    BY <1>1, NothingPlanned DEF EvalInv, Phases
  <2>2. channel # "none" => \A id \in DOMAIN available : available[id] \in named
    BY <2>1 DEF EvalInv, Naming
  <2> QED
    BY <2>2 DEF Held
<1>6. o.type = "wire_route" /\ channel = "registry" /\ o.fault # "empty"
        => o.picked \in DOMAIN bodies
  <2> SUFFICES ASSUME t.type = "wire_route", channel = "registry", o.fault # "empty"
               PROVE  picked \in DOMAIN bodies
    OBVIOUS
  <2>1. document \in Documents
    BY DEF EvalInv, Phases
  <2>2. t.picks
    BY <1>2, <2>1, RouteAssumption
  <2>3. picked # 0
    BY <2>2
  <2> QED
    BY <2>2, <2>3 DEF Pickable, Visible
<1> HIDE DEF o, e
<1>7. PlanOK(Plan(o)) /\ channel \in Channels
  BY <1>1, <1>5, <1>6, PlansOK DEF EvalInv, Phases
<1>8. PlanOK(todo)'
  BY <1>1, <1>4, <1>7, PlanMoves
<1> QED
  BY <1>1, <1>4, <1>8, AppendKeeps

\* The end of an operation: what it held went into its bodies.
LEMMA FinishKeeps ==
  ASSUME EvalInv, Finish
  PROVE  EvalInv'
<1>1. /\ todo = << >> /\ status' = "ready" /\ held' = {}
      /\ UNCHANGED <<bodies, consumed, available, profiles, paths, named, recorded, ops, todo,
                     channel, document>>
  BY DEF Finish, poolVars, nameVars
<1>2. ~ Bears(todo) /\ ~ Takes(todo)
  BY <1>1, NothingPlanned
<1>3. ~ Bears(todo)' /\ ~ Takes(todo)'
  BY <1>1, <1>2 DEF Bears, Takes, Bearing
<1>4. PlanOK(todo)'
  BY <1>1, PlanMoves DEF EvalInv, Phases
<1>5. Phases' /\ BodiesTyped' /\ References' /\ Naming'
  BY <1>1, <1>2, <1>3, <1>4
     DEF EvalInv, Phases, BodiesTyped, References, Naming, Visible, FlatPattern, IsPlan
<1>6. Material'
  BY <1>1, <1>2, <1>3 DEF EvalInv, Material
<1> QED
  BY <1>5, <1>6 DEF EvalInv

LEMMA StillKeeps ==
  ASSUME EvalInv, Return \/ UNCHANGED vars
  PROVE  EvalInv'
<1>1. /\ UNCHANGED <<bodies, consumed, available, profiles, paths, named, recorded, ops, todo, held,
                     channel, document>>
      /\ status' = status \/ (status = "ready" /\ status' = "ok")
  BY DEF Return, vars, docVars, poolVars, nameVars
<1>2. (Bears(todo) <=> Bears(todo)') /\ (Takes(todo) <=> Takes(todo)')
  BY <1>1 DEF Bears, Takes, Bearing
<1>3. PlanOK(todo)'
  BY <1>1, PlanMoves DEF EvalInv, Phases
<1> QED
  BY <1>1, <1>2, <1>3
     DEF EvalInv, Phases, BodiesTyped, References, Material, Naming, Visible, FlatPattern, IsPlan,
         Current, BodiesOf

\* The folded body of an unfold is its target's shape, which has names.
LEMMA BirthKeeps ==
  ASSUME EvalInv, PoolInv, EatenInv, BornStep \/ KeptStep
  PROVE  EvalInv'
<1> DEFINE n == Len(bodies) + 1
<1>1. /\ status = "running" /\ todo # << >> /\ Bearing(Head(todo)) /\ Advance
      /\ Produce(MadeBody(Head(todo))) /\ UNCHANGED <<profiles, paths, held>>
  BY DEF BornStep, KeptStep, Step, Bearing
<1>2. /\ named \subseteq named' /\ named' \subseteq named \cup {n}
      /\ recorded' \subseteq recorded \cup {n}
  BY DEF BornStep, KeptStep, NameBody
<1>3. channel # "none" => n \in named' \/ Nameless(Head(todo))
  <2>1. CASE BornStep
    BY <2>1 DEF BornStep, Step, NameBody, Nameless
  <2>2. CASE KeptStep
    <3>1. Head(todo).do = "kept" /\ StepOK(Head(todo))
      BY <1>1, <2>2, TailPlan DEF KeptStep, Step, EvalInv, Phases
    <3> QED
      BY <2>2, <3>1 DEF KeptStep, NameBody, StepOK
  <2> QED
    BY <2>1, <2>2
<1> QED
  BY <1>1, <1>2, <1>3, BearAdvance

LEMMA EvalInvHolds == Spec => []EvalInv
<1>1. Init => EvalInv
  <2> SUFFICES ASSUME Init PROVE EvalInv
    OBVIOUS
  <2>1. /\ bodies = << >> /\ consumed = {} /\ available = [id \in {} |-> 0]
        /\ profiles = {} /\ paths = {} /\ named = {} /\ recorded = {}
        /\ ops = << >> /\ todo = << >> /\ held = {} /\ status = "ready"
        /\ channel \in Channels /\ document \in Documents
    BY DEF Init, Channels
  <2>2. << >> \in Seq({}) /\ DOMAIN << >> = {} /\ DOMAIN [id \in {} |-> 0] = {}
    OBVIOUS
  <2>3. IsPlan(ops) /\ PlanOK(todo) /\ ~ Takes(todo)
    BY <2>1, NoSteps, NothingPlanned
  <2>4. Phases
    BY <2>1, <2>3 DEF Phases
  <2>5. BodiesTyped /\ References /\ Naming /\ Material
    BY <2>1, <2>2, <2>3 DEF BodiesTyped, References, Naming, Material, Visible
  <2> QED
    BY <2>4, <2>5 DEF EvalInv
<1>2. PoolInv /\ EatenInv /\ EvalInv /\ [Next]_vars => EvalInv'
  <2> SUFFICES ASSUME PoolInv, EatenInv, EvalInv, [Next]_vars PROVE EvalInv'
    OBVIOUS
  <2>1. CASE Begin
    BY <2>1, BeginKeeps
  <2>2. CASE Suppress
    <3>1. todo = << >> /\ PlanOK(todo) /\ status = "ready"
      BY <2>2 DEF Suppress, EvalInv, Phases
    <3>2. PlanOK(todo)'
      BY <2>2, <3>1, PlanMoves DEF Suppress
    <3> QED
      BY <2>2, <3>1, <3>2, AppendKeeps DEF Suppress
  <2>3. CASE Refused
    <3>1. Head(todo).code \in Codes
      <4>1. IsPlan(todo) /\ todo # << >> /\ Head(todo).do = "refuse"
            /\ \A i \in DOMAIN todo : StepOK(todo[i])
        BY <2>3 DEF Refused, Step, EvalInv, Phases, PlanOK, Ordered
      <4> QED
        BY <4>1, TailPlaces DEF StepOK
    <3> QED
      BY <2>3, <3>1, DiscardKeeps DEF Refused, Fail
  <2>4. CASE NotThere \/ Unattributed \/ Cancel
    BY <2>4, CodesHold, DiscardKeeps DEF NotThere, Unattributed, Cancel, Fail
  <2>5. CASE Taken
    BY <2>5, TakeAdvance
  <2>6. CASE Attributed \/ Copied \/ LeftProfile \/ LeftPath
    BY <2>6, QuietAdvance
       DEF Attributed, Copied, LeftProfile, LeftPath, Step, poolVars, nameVars
  <2>7. CASE BornStep \/ KeptStep
    BY <2>7, BirthKeeps
  <2>8. CASE Finish
    BY <2>8, FinishKeeps
  <2>9. CASE Return \/ UNCHANGED vars
    BY <2>9, StillKeeps
  <2> QED
    BY <2>1, <2>2, <2>3, <2>4, <2>5, <2>6, <2>7, <2>8, <2>9 DEF Next
<1> QED
  BY <1>1, <1>2, PoolInvHolds, EatenInvHolds, PTL DEF Spec


\* For every document: the pool, the name channels and the evaluation keep their types;
\* a body is consumed by, and read for, later bodies only, and every code of a failure
\* is one of ExecuteOperation's.
THEOREM OperationTypes == Spec => []TypeOK
<1>1. PoolInv /\ EatenInv /\ EvalInv => TypeOK
  <2> SUFFICES ASSUME PoolInv, EatenInv, EvalInv PROVE TypeOK
    OBVIOUS
  <2>1. consumed \subseteq DOMAIN bodies /\ \A id \in DOMAIN available : available[id] \in DOMAIN bodies
    BY DEF PoolInv, PoolShape, PoolSound, AvailableSound, BodiesOf
  <2>2. \A i \in DOMAIN todo : todo[i].do \in StepsOf
    BY DEF EvalInv, Phases, PlanOK, Ordered, StepOK
  <2>3. held \subseteq consumed /\ status \in {"ready", "running", "ok"} \cup Codes
    BY DEF EatenInv, EvalInv, Phases
  <2> QED
    BY <2>1, <2>2, <2>3 DEF EvalInv, BodiesTyped, References, Kinds, TypeOK
<1> QED
  BY <1>1, PoolInvHolds, EatenInvHolds, EvalInvHolds, PTL

\* For every document: a consumed body went into the bodies of exactly one operation, a
\* later one than its own, or is held by the operation under way.  No handler takes a
\* body and ends without bearing one, and none takes after it has borne.
THEOREM MaterialUsedOnce == Spec => []UsedOnce
<1>1. EatenInv /\ EvalInv => UsedOnce
  BY DEF EatenInv, EatenOnce, EvalInv, Material, UsedOnce
<1> QED
  BY <1>1, EatenInvHolds, EvalInvHolds, PTL

\* For every document: with element names asked for, every body of the answer has them,
\* but for the flat pattern of an unfold, which only the registry's channel names.
THEOREM AnswersAreNamed == Spec => []NamesComplete
<1>1. EvalInv => NamesComplete
  BY DEF EvalInv, Naming, NamesComplete
<1> QED
  BY <1>1, EvalInvHolds, PTL

==================================================================================
