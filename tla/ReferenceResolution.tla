--------------------------- MODULE ReferenceResolution ---------------------------
(***************************************************************************)
(* How a reference slot of an operation finds its entities: the selector    *)
(* query is evaluated over the visible bodies and the registry              *)
(* (selector_evaluator-core.cpp), the arity is applied, and a slot for one   *)
(* entity that matches several goes through the two channels of its anchor  *)
(* (ref_resolution-core.cpp), then through the enriched recovery            *)
(* (ref_resolution.cpp).                                                    *)
(*                                                                         *)
(* A body is [op, out, parts, bare].  What two sub-shapes have in common to *)
(* the eye is their looks, <<class, size, frame>>: the class of the surface *)
(* or curve, its measure, and the direction of its normal or axis, the line *)
(* and the radius of the axis, [dir, line, radius].  An anchor is           *)
(* [token, shape, looks, hash, evidence], where shape, the sub-shape that   *)
(* was picked, stands for its centroid.                                     *)
(***************************************************************************)
EXTENDS NamingRegistry

CONSTANTS
  Near,     \* what the centroid adds for another sub-shape of a small part
  Queries   \* the selector queries, those inside a filter of another included

ASSUME NearAssumption == Near \in 0 .. 15
ASSUME QueriesAssumption ==
  \A query \in Queries : \A filter \in ToSet(query.filters) :
    "query" \in DOMAIN filter => filter.query \in Queries

PartsOf(body) == ToSet(body.parts)
VisibleShapes(bodies) == UNION {PartsOf(body) : body \in bodies}

-----------------------------------------------------------------------------
\* MakeEntity: an entity answers to its newest live token, under that token's name.
Covered(st, x) == LiveAnswers(st, x) # {}
Newest(st, x) ==
  LET chain == Answering(st, x)
  IN st.records[chain[Max({k \in DOMAIN chain : st.records[chain[k]].live})]]
Token(st, x) == Newest(st, x).token
NameOf(st, x) == Newest(st, x).name

\* ExpandSource: [source, op, token].
ExpandSource(st, bodies, source, kind) ==
  CASE source.source = "op" ->
         {r.shape : r \in {st.records[i] : i \in {j \in DOMAIN st.records :
              /\ st.records[j].live /\ st.records[j].token[1] = source.op
              /\ st.records[j].kind = kind}}}
    [] source.source = "body" ->
         {x \in UNION {PartsOf(body) : body \in {b \in bodies : b.op = source.op}} :
            Kind(x) = kind}
    [] source.source = "token" ->
         {st.records[i].shape : i \in {j \in FindByToken(st, source.token) :
                                         st.records[j].live /\ st.records[j].kind = kind}}
    [] source.source = "all" -> {x \in VisibleShapes(bodies) : Kind(x) = kind}

\* The sub-shapes of a set, of every kind, the shapes themselves included.
SubShapesOf(set) ==
  LET below(s) == UNION {Below(x) : x \in s}
  IN set \cup below(set) \cup below(below(set))

RolesOf(st, x) == {st.records[i].token[3] : i \in LiveAnswers(st, x)}

\* ApplyFilter: [name, what, query], where `other' is what its query finds.
ApplyFilter(st, filter, set, other) ==
  CASE filter.name = "role" -> {x \in set : filter.what \in RolesOf(st, x)}
    [] filter.name = "created" -> {x \in set : RolesOf(st, x) \ {"modified"} # {}}
    [] filter.name = "modified" -> {x \in set : "modified" \in RolesOf(st, x)}
    [] filter.name = "class" -> {x \in set : shapes[x].looks[1] = filter.what}
    [] filter.name = "adjacentTo" ->
         {x \in set \ other : (SubShapesOf({x}) \ {x}) \cap SubShapesOf(other) # {}}
    [] filter.name \in {"on", "boundaryOf"} -> set \cap SubShapesOf(other)
    [] filter.name = "interiorTo" ->
         {x \in set : Kind(x) = "e" /\ Cardinality({f \in other : x \in Below(f)}) >= 2}
    [] filter.name = "union" -> set \cup other
    [] filter.name = "not" -> set \ other
\* A query is [kind, scope, filters].
EvaluateToSet(st, bodies, query) ==
  LET found[q \in Queries] ==
        FoldLeft(LAMBDA set, filter :
                   ApplyFilter(st, filter, set,
                               IF "query" \in DOMAIN filter THEN found[filter.query] ELSE {}),
                 UNION {ExpandSource(st, bodies, q.scope[i], q.kind) : i \in DOMAIN q.scope},
                 q.filters)
  IN found[query]

\* AdjacencyHash: the newest tokens of the neighbours, within the body; the code
\* hashes them in the order of a set, and the hash is taken to tell sets apart.
AdjacencyHash(st, bodies, x) ==
  LET owner == UNION {PartsOf(body) : body \in {b \in bodies : x \in PartsOf(b)}}
      around == {y \in owner : x \in SubShapesOf({y})}
      neighbours == CASE Kind(x) = "f" -> SubShapesOf({x}) \ {x}
                      [] Kind(x) = "e" -> Below(x) \cup (around \ {x})
                      [] Kind(x) = "v" -> around \ {x}
  IN {Token(st, y) : y \in {z \in neighbours : Covered(st, z)}}

-----------------------------------------------------------------------------
\* AnchorScore, EnrichedAnchorScore: what a candidate has in common with an anchor.
Points(n, when) == IF when THEN n ELSE 0
Axial == {"cylinder", "circle", "line"}   \* looks with an axis in the projection
Round == {"cylinder", "circle"}           \* and with a radius
SameClass(x, anchor) == Kind(x) # "v" /\ shapes[x].looks[1] = anchor.looks[1]
SameSize(x, anchor) == Kind(x) # "v" /\ shapes[x].looks[2] = anchor.looks[2]
BothOf(classes, x, anchor) == shapes[x].looks[1] \in classes /\ anchor.looks[1] \in classes
SameFrame(x, anchor, field) == shapes[x].looks[3][field] = anchor.looks[3][field]
AnchorScore(st, x, anchor) ==
  Points(100, Token(st, x) = anchor.token)
  + Points(20, SameClass(x, anchor))
  + Points(15, SameSize(x, anchor))
  + Points(15, BothOf({"plane"}, x, anchor) /\ SameFrame(x, anchor, "dir"))
  + (IF x = anchor.shape THEN 15 ELSE Near)
\* Evidence is the hash alone or with the analytic fields, a radius and an axis.
EnrichedAnchorScore(st, bodies, x, anchor) ==
  LET axes == /\ "analytic" \in anchor.evidence /\ BothOf(Axial, x, anchor)
              /\ SameFrame(x, anchor, "dir")
  IN AnchorScore(st, x, anchor)
     + Points(25, /\ "analytic" \in anchor.evidence /\ BothOf(Round, x, anchor)
                  /\ SameFrame(x, anchor, "radius"))
     + Points(20, axes)
     + Points(15, axes /\ SameFrame(x, anchor, "line"))
     + Points(20, /\ "adjHash" \in anchor.evidence /\ anchor.hash # {}
                  /\ AdjacencyHash(st, bodies, x) = anchor.hash)

\* HistoryChannel, UniqueHistoryCandidate: the one candidate under the anchor's
\* name, be the anchor's own record live or not; {} when there is none or several.
OnlyOne(set) == {x \in set : set = {x}}
HistoryChannel(st, candidates, anchor) ==
  OnlyOne({x \in candidates : \E i \in FindByToken(st, anchor.token) :
                                NameOf(st, x) = st.records[i].name})
\* SignatureChannel, UniqueEnrichedCandidate: the best, when good enough and
\* far enough ahead.
Ahead(score, candidates, enough, gap) ==
  {x \in candidates : score[x] >= enough
                      /\ \A y \in candidates \ {x} : score[x] - score[y] >= gap}
SignatureChannel(st, candidates, anchor) ==
  Ahead([x \in candidates |-> AnchorScore(st, x, anchor)], candidates, 40, 15)
UniqueEnrichedCandidate(st, bodies, candidates, anchor) ==
  IF anchor.evidence = {} THEN {}
  ELSE Ahead([x \in candidates |-> EnrichedAnchorScore(st, bodies, x, anchor)], candidates, 60, 20)

\* Mutant: a lone signature is trusted.
Corroborate_Lone(history, signature) == signature
Corroborate(history, signature) == history \cap signature

-----------------------------------------------------------------------------
\* ParseArity, ResolveRef.  A slot is [query, arity, min, max, onEmpty], the
\* bounds those of a range (max 0: none); the answer is [status, entities, drift].
Answer(status, entities, drift) == [status |-> status, entities |-> entities, drift |-> drift]
ApplyEmptyPolicy(slot) ==
  CASE slot.onEmpty = "empty-ok" -> Answer("resolved", {}, FALSE)
    [] slot.onEmpty = "skip-op" -> Answer("unsupported", {}, FALSE)
    [] slot.onEmpty = "error" -> Answer("empty", {}, FALSE)

ResolveRefCore(st, slot, candidates, anchors) ==
  LET count == Cardinality(candidates)
      agreed == UNION {Corroborate(HistoryChannel(st, candidates, anchor),
                                   SignatureChannel(st, candidates, anchor)) : anchor \in anchors}
  IN CASE candidates = {} /\ slot.arity # "any" -> ApplyEmptyPolicy(slot)
       [] count > 1 /\ slot.arity = "one" ->
            IF agreed # {} THEN Answer("resolved", agreed, TRUE) ELSE Answer("ambiguous", {}, FALSE)
       [] count > 0 /\ slot.arity = "range" /\ count < slot.min -> Answer("empty", {}, FALSE)
       [] slot.arity = "range" /\ slot.max # 0 /\ count > slot.max -> Answer("ambiguous", {}, FALSE)
       [] OTHER -> Answer("resolved", candidates, FALSE)

\* `anchors' holds at most one anchor; a candidate without a live record is an
\* internal failure.
ResolveRef(st, bodies, slot, anchors) ==
  LET candidates == EvaluateToSet(st, bodies, slot.query)
      core == ResolveRefCore(st, slot, candidates, anchors)
      recovered == UNION {Corroborate(HistoryChannel(st, candidates, anchor),
                                      UniqueEnrichedCandidate(st, bodies, candidates, anchor)) :
                          anchor \in anchors}
  IN IF \E x \in candidates : ~ Covered(st, x) THEN Answer("internal", {}, FALSE)
     ELSE IF core.status = "ambiguous" /\ Cardinality(candidates) >= 2 /\ recovered # {}
          THEN Answer("resolved", recovered, TRUE)
          ELSE core
=================================================================================
