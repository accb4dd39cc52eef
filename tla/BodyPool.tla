-------------------------------- MODULE BodyPool --------------------------------
(***************************************************************************)
(* The state one evaluation of a document builds in the kernel host: the    *)
(* bodies produced so far and which of them a later operation consumed      *)
(* (BodyPool), the profiles and open paths the sketches left, and the two   *)
(* name channels, the element-name book and the naming registry.            *)
(*                                                                         *)
(* A handler of an operation is written as a plan: the sequence of its      *)
(* checks and of its calls on this state, in the order of the code.  The    *)
(* geometry kernel's own verdicts are inputs: the `fault' of an operation   *)
(* says which check its numbers fail, and the picked body of a reference    *)
(* says what its selector resolves to.                                      *)
(***************************************************************************)
EXTENDS Naturals, Sequences, FiniteSets

VARIABLES
  bodies,       \* every body produced: [op, out, kind, eaten, read, guard]
  consumed,     \* indexes of the bodies an operation consumed
  available,    \* operation id |-> index of the body it stands for
  profiles,     \* ids of the operations that left a profile
  paths,        \* ids of the sketches that left an open path
  named,        \* bodies whose sub-shapes all have a name in the book
  recorded,     \* bodies whose sub-shapes all have a registry record
  channel       \* "none", "book" or "registry": the name channel engaged

poolVars == <<bodies, consumed, available>>
nameVars == <<named, recorded>>

Visible == DOMAIN bodies \ consumed
BodiesOf(id) == {b \in DOMAIN bodies : bodies[b].op = id}

\* The first unconsumed body of an operation, as the peeking handlers search it.
FirstVisible(id) ==
  LET found == BodiesOf(id) \ consumed
  IN IF found = {} THEN 0 ELSE CHOOSE b \in found : \A c \in found : b <= c

\* Mutant: an id that resolves already keeps what it resolves to.
Produce_KeepsFirst(body) ==
  LET n == Len(bodies) + 1
  IN /\ bodies' = Append(bodies, body)
     /\ available' = [id \in DOMAIN available \cup {body.op} |->
                        IF id \in DOMAIN available THEN available[id] ELSE n]
     /\ UNCHANGED consumed

\* Mutant: the id still resolves once its body is consumed.
Consume_KeepsId(id) ==
  /\ id \in DOMAIN available
  /\ consumed' = consumed \cup {available[id]}
  /\ UNCHANGED <<bodies, available>>

\* Mutant: only the registry's channel names results.
NameBody_RegistryOnly(body, booked, harvested) ==
  /\ named' = IF channel = "registry" /\ booked THEN named \cup {body} ELSE named
  /\ recorded' = IF channel = "registry" /\ harvested THEN recorded \cup {body}
                 ELSE recorded

Produce(body) ==
  LET n == Len(bodies) + 1
  IN /\ bodies' = Append(bodies, body)
     /\ available' = [id \in DOMAIN available \cup {body.op} |->
                        IF id = body.op THEN n ELSE available[id]]
     /\ UNCHANGED consumed

Consume(id) ==
  /\ id \in DOMAIN available
  /\ consumed' = consumed \cup {available[id]}
  /\ available' = [x \in DOMAIN available \ {id} |-> available[x]]
  /\ UNCHANGED bodies

\* A result is named in the book of whichever channel is engaged, and recorded
\* only where the registry harvests it.
NameBody(body, booked, harvested) ==
  /\ named' = IF channel # "none" /\ booked THEN named \cup {body} ELSE named
  /\ recorded' = IF channel = "registry" /\ harvested THEN recorded \cup {body}
                 ELSE recorded

-----------------------------------------------------------------------------
\* Plans.  Every step is a record of the same fields; the constructors set the
\* fields the step uses.
Invalid == "INVALID_REQUEST"
Missing == "REFERENCE_MISSING"
Geometry == "GEOMETRY_FAILED"
Internal == "INTERNAL_ERROR"
Unsupported == "UNSUPPORTED_OPERATION"
Ambiguous == "REFERENCE_AMBIGUOUS"
WrongKind == "REFERENCE_WRONG_KIND"

Blank == [do |-> "refuse", code |-> "", id |-> 0, from |-> {}, out |-> 0,
          kind |-> "solid", booked |-> FALSE, harvested |-> FALSE, guard |-> 0,
          named |-> {}, recorded |-> {}]

When(cond, steps) == IF cond THEN steps ELSE << >>
Refuse(cond, code) == When(cond, <<[Blank EXCEPT !.code = code]>>)
Check(o, fault, code) == Refuse(o.fault = fault, code)
Has(o, form) == form \in o.form

\* BodyPool::Consume by operation id; `guard' is the body the handler looked at
\* as its operand before it consumed it (0: none).
Take(id) == <<[Blank EXCEPT !.do = "take", !.id = id]>>

\* ApplyOperation and HarvestOperation: every input, the bodies the operation
\* consumes and the ones in `also', must be named in the book and recorded in the
\* registry, which then retires the records of the inputs.
Held(ids) == {available[id] : id \in ids \cap DOMAIN available}
AttributeWith(ids, also) ==
  <<[Blank EXCEPT !.do = "attribute", !.named = Held(ids), !.recorded = Held(ids) \cup also]>>
Attribute(ids) == AttributeWith(ids, {})
\* HarvestCopiedBody: the sources of the copy must be recorded, and stay so.
CopyFrom(from) == <<[Blank EXCEPT !.do = "copy", !.recorded = from]>>

Body(out, kind, booked, harvested) ==
  [Blank EXCEPT !.do = "born", !.out = out, !.kind = kind,
                !.booked = booked, !.harvested = harvested]
Born(kind) == <<Body(0, kind, TRUE, TRUE)>>
BornReading(kind, from, guard, harvested) ==
  <<[Body(0, kind, TRUE, harvested) EXCEPT !.from = from, !.guard = guard]>>

Leave(what) == <<[Blank EXCEPT !.do = what]>>

\* A reference slot: without the registry it is refused, then its selector is
\* parsed, evaluated, and held to the slot's arity.
Slot(o, unengaged) ==
     Refuse(channel # "registry", unengaged)
  \o Check(o, "unparsed", Invalid)
  \o Check(o, "empty", Missing)
  \o Check(o, "ambiguous", Ambiguous)
===============================================================================
