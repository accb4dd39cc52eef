----------------------------- MODULE NamingRegistry -----------------------------
(***************************************************************************)
(* The naming registry of one evaluation (naming_registry.cpp): a record    *)
(* per minted token, the records that answer for every sub-shape, and the   *)
(* harvests that mint, re-point and retire them after an operation.         *)
(*                                                                         *)
(* A token is <<operation, output, role, ordinal>>; a record is             *)
(*   [token, shape, born, kind, name, ancestors, live, collision]           *)
(* where born, not in the code, is the sub-shape the token was minted for.  *)
(***************************************************************************)
EXTENDS ElementNames

CONSTANT AliasCap   \* answering records kept on an alias chain (8 in the code)

ASSUME AliasCapAssumption == AliasCap \in Nat \ {0}

-----------------------------------------------------------------------------
\* Role tables: the role a result entity is minted under, of the classes whose
\* history HarvestOperation reads.  A case the table throws on has no role.
NoRole == "none"
ToolRole(class, kind) ==
  CASE class = "Boolean" -> [f |-> "tool-face", e |-> "tool-edge", v |-> "generated"][kind]
    [] class \in {"Hole", "Shell"} -> IF kind = "f" THEN "wall" ELSE "generated"
    [] class = "EdgeFlange" -> IF kind = "f" THEN "panel" ELSE "generated"
    [] class = "Mirror" -> [f |-> "mirrored", e |-> "mirrored-edge", v |-> "mirrored-vertex"][kind]
    [] class = "Pattern" ->
         [f |-> "instance-face", e |-> "instance-edge", v |-> "instance-vertex"][kind]
    [] class = "Offset" -> IF kind = "f" THEN "offset" ELSE "modified"
    [] OTHER -> "modified"
RoleForModified(class, tool, kind) == IF tool THEN ToolRole(class, kind) ELSE "modified"

\* An entity the operation makes, from one source or from several.
MadeRole(class, kind, several) ==
  CASE class = "Transform" -> NoRole
    [] class = "Chamfer" /\ kind = "e" -> "chamfer-edge"
    [] class = "Chamfer" /\ kind = "f" -> IF several THEN "chamfer-corner" ELSE "chamfer"
    [] class \in {"Fillet", "Offset", "EdgeFlange"} /\ kind = "f" ->
         [Fillet |-> "fillet", Offset |-> "offset", EdgeFlange |-> "bend"][class]
    [] OTHER -> "generated"
RoleForGenerated(class, tool, kind) ==
  IF tool /\ class \in {"Boolean", "Hole", "Shell"} THEN ToolRole(class, kind)
  ELSE MadeRole(class, kind, FALSE)
RoleForSection(class, kind) ==
  IF kind = "e" /\ class \in {"Boolean", "Hole", "Shell", "Mirror", "Pattern"} THEN "seam"
  ELSE MadeRole(class, kind, TRUE)
RoleForUnattributed(class, kind) == IF class = "Transform" THEN NoRole ELSE "generated"

\* HarvestBoxBirth, HarvestBirth: the role of a sub-shape of a new body, by the
\* boundary of the construction frame it lies on: "start" or "end", "apex" an end
\* without a face, "pole" a degenerate edge, "both" boundaries alike, "none".
IsFeatureBirth(class) == class \in {"extrude", "revolve", "loft", "sweep"}
CapRole(class, side) ==
  IF IsFeatureBirth(class) THEN [start |-> "cap-start", end |-> "cap-end"][side]
  ELSE [start |-> "bottom", end |-> "top"][side]
BirthFaceRole(class, side) ==
  IF side \in {"start", "end"} THEN CapRole(class, side)
  ELSE IF class \in {"cylinder", "sphere", "cone", "torus"} THEN "wall" ELSE "side"
BirthEdgeRole(class, side) ==
  CASE IsFeatureBirth(class) -> "side-edge"
    [] class = "torus" -> "seam"
    [] class = "sphere" -> IF side = "pole" THEN "pole-edge" ELSE "seam"
    [] class \in {"cylinder", "cone"} ->
         [start |-> "bottom-edge", end |-> "top-edge", apex |-> "apex-edge", none |-> "seam"][side]
    [] class = "wedge" ->
         [start |-> "bottom-edge", end |-> "top-edge", apex |-> "top-edge", none |-> "side-edge"][side]
    [] class = "box" -> [start |-> "bottom-edge", end |-> "top-edge", none |-> "vertical-edge"][side]
BirthVertexRole(class, side) ==
  IF class = "cone" /\ side = "apex" THEN "apex-vertex" ELSE "vertex"
BirthRole(class, kind, side) ==
  CASE kind = "f" -> BirthFaceRole(class, side)
    [] kind = "e" -> BirthEdgeRole(class, side)
    [] kind = "v" -> BirthVertexRole(class, side)

\* What a body of a class must be born with, the frame [class, ends] expecting
\* a face at `ends': so many entities of a role, and some of others.  A birth is
\* of one solid.
BirthCounts(spec) ==
  LET face(end) == IF end \in spec.ends THEN 1 ELSE 0
  IN CASE spec.class = "box" ->
            {<<"bottom", 1>>, <<"top", 1>>, <<"side", 4>>, <<"bottom-edge", 4>>, <<"top-edge", 4>>,
             <<"vertical-edge", 4>>, <<"vertex", 8>>}
       [] spec.class = "cylinder" ->
            {<<"bottom", 1>>, <<"top", 1>>, <<"wall", 1>>, <<"bottom-edge", 1>>, <<"top-edge", 1>>,
             <<"seam", 1>>}
       [] spec.class = "sphere" -> {<<"wall", 1>>, <<"seam", 1>>, <<"pole-edge", 2>>, <<"vertex", 2>>}
       [] spec.class = "cone" -> {<<"bottom", 1>>, <<"top", face("end")>>, <<"wall", 1>>}
       [] spec.class = "torus" -> {<<"wall", 1>>, <<"seam", 2>>, <<"vertex", 1>>}
       [] spec.class = "wedge" -> {<<"bottom", 1>>, <<"top", face("end")>>}
       [] spec.class = "revolve" -> {<<"cap-start", face("start")>>, <<"cap-end", face("end")>>}
       [] spec.class \in {"extrude", "loft", "sweep"} -> {<<"cap-start", 1>>, <<"cap-end", 1>>}
BirthNeeds(class) ==
  IF class = "cone" THEN {"seam"} ELSE IF class = "wedge" \/ IsFeatureBirth(class) THEN {"side"} ELSE {}
WallSurface == [box |-> "plane", wedge |-> "plane", cylinder |-> "cylinder", sphere |-> "sphere",
                cone |-> "cone", torus |-> "torus"]
BirthFits(spec, parts, side) ==
  LET ofRole(role) == {x \in ToSet(parts) : BirthRole(spec.class, Kind(x), side[x]) = role}
      ofKind(kind) == {x \in ToSet(parts) : Kind(x) = kind}
  IN /\ \A kind \in {"f", "e", "v"} : ofKind(kind) # {}
     /\ \A x \in ToSet(parts) : side[x] # "both"
     /\ \A x \in ofRole("wall") \cup ofRole("side") :
          spec.class \in DOMAIN WallSurface => shapes[x].looks[1] = WallSurface[spec.class]
     /\ spec.class = "box" => \A x \in ofKind("e") : shapes[x].looks[1] = "line"
     /\ \A pair \in BirthCounts(spec) : Cardinality(ofRole(pair[1])) = pair[2]
     /\ \A role \in BirthNeeds(spec.class) : ofRole(role) # {}

-----------------------------------------------------------------------------
\* A registry state: [book, records, answering, fault].
Answering(st, x) == IF x \in DOMAIN st.answering THEN st.answering[x] ELSE << >>
LiveAnswers(st, x) == {i \in ToSet(Answering(st, x)) : st.records[i].live}
FindByToken(st, token) == {i \in DOMAIN st.records : st.records[i].token = token}
NewestTokenOf(st, x) == st.records[Last(Answering(st, x))].token

Without(answering, set) == [x \in DOMAIN answering \ set |-> answering[x]]

\* A planned mint: [shape, role, ancestors, alias]; alias 0 when it is new.
PlanFor(x, role) == [shape |-> x, role |-> role, ancestors |-> {}, alias |-> 0]

\* One record of MintBuckets.  Twins of a bucket share kind and name.
Twins(st, plans, plan) ==
  {other \in plans : /\ other.role = plan.role
                     /\ Kind(other.shape) = Kind(plan.shape)
                     /\ NormalizeName(st.book[other.shape]) = NormalizeName(st.book[plan.shape])}
NewRecord(st, op, out, ordinal, plans, plan) ==
  [token |-> <<op, out, plan.role, ordinal>>, shape |-> plan.shape, born |-> plan.shape,
   kind |-> Kind(plan.shape), name |-> NormalizeName(st.book[plan.shape]),
   ancestors |-> plan.ancestors, live |-> TRUE,
   collision |-> Twins(st, plans, plan) # {plan}]

\* A new token for a shape that may answer to others already.
MintOwn(st, plan, record) ==
  LET n == Len(st.records) + 1
      chain == Append(Answering(st, plan.shape), n)
  IN [st EXCEPT !.records = Append(st.records, record),
                !.answering = Bind(st.answering, plan.shape, chain)]
\* The single Modified image of a source: every record answering for the source
\* re-points to the image, and the oldest beyond the cap die.
MintAlias(st, plan, record) ==
  LET n == Len(st.records) + 1
      source == Answering(st, plan.alias)
      chain == Append(source, n)
      excess == IF Len(chain) > AliasCap THEN Len(chain) - AliasCap ELSE 0
      dropped == {chain[i] : i \in 1 .. excess}
      kept == SubSeq(chain, excess + 1, Len(chain))
      moved == [i \in 1 .. n |->
                  LET r == IF i = n THEN record ELSE st.records[i]
                  IN [r EXCEPT !.shape = IF i \in ToSet(source) THEN plan.shape ELSE r.shape,
                               !.live = r.live /\ i \notin dropped]]
  IN [st EXCEPT !.records = moved,
                !.answering = Bind(Without(st.answering, {plan.alias}), plan.shape, kept),
                !.fault = st.fault \/ source = << >> \/ plan.shape \in DOMAIN st.answering]

\* A token is minted once.
Mint(st, plan, record) ==
  IF FindByToken(st, record.token) # {} THEN [st EXCEPT !.fault = TRUE]
  ELSE IF plan.alias # 0 THEN MintAlias(st, plan, record) ELSE MintOwn(st, plan, record)

\* MintBuckets: the order within a bucket only fixes ordinals, so one order of
\* the plans stands for it.
MintBuckets(st, op, out, plans) ==
  LET ordered == InSomeOrder(plans)
      ordinal(i) == Cardinality({j \in 1 .. i - 1 : ordered[j].role = ordered[i].role})
      minted[i \in 0 .. Len(ordered)] ==
        IF i = 0 THEN st
        ELSE Mint(minted[i - 1], ordered[i],
                  NewRecord(st, op, out, ordinal(i), plans, ordered[i]))
  IN minted[Len(ordered)]

Named(st, naming) == [st EXCEPT !.book = naming.names, !.fault = st.fault \/ naming.fault]

-----------------------------------------------------------------------------
\* produceRoot: AddPrimitive, then HarvestBirth or HarvestBoxBirth.
HarvestBirth(st, op, spec, parts, side) ==
  IF BirthFits(spec, parts, side)
  THEN MintBuckets(Named(st, AddPrimitive(st.book, op, parts)), op, 0,
                   {PlanFor(x, BirthRole(spec.class, Kind(x), side[x])) : x \in ToSet(parts)})
  ELSE [st EXCEPT !.fault = TRUE]

HarvestSyntheticTool(st, op, parts) ==
  MintBuckets(st, op, 0, {PlanFor(x, "tool") : x \in ToSet(parts)})

\* HarvestCopiedBody: `from' gives the source of every sub-shape of a copy; an
\* import has none.
HarvestCopiedBody(st, op, out, parts, role, from) ==
  LET lost == \E x \in DOMAIN from : Answering(st, from[x]) = << >>
      plan(x) == [PlanFor(x, role[Kind(x)]) EXCEPT
                    !.ancestors = IF x \in DOMAIN from THEN {NewestTokenOf(st, from[x])} ELSE {}]
  IN IF lost THEN [st EXCEPT !.fault = TRUE]
     ELSE MintBuckets(st, op, out, {plan(x) : x \in ToSet(parts)})
HarvestImportedBody(st, op, out, parts) ==
  HarvestCopiedBody(Named(st, AddPrimitive(st.book, op, parts)), op, out, parts,
                    [f |-> "imported-face", e |-> "imported-edge", v |-> "imported-vertex"],
                    [x \in {} |-> 0])

\* The plane of a datum_plane, the edge of a datum_axis: an entity of no visible body.
RegisterDatumEntity(st, op, role, x) ==
  MintBuckets(Named(st, AddPrimitive(st.book, op, <<x>>)), op, 0, {PlanFor(x, role)})

-----------------------------------------------------------------------------
\* HarvestOperation.  An input is [parts, tool, synthetic].
InputOf(sources, inputs, i) ==
  inputs[Min({k \in DOMAIN inputs : Contains(inputs[k].parts, sources[i])})]

\* Of several sources of one image the target goes before a tool, a body before
\* a scaffold, and then the first.
Heir(sources, inputs, parents) ==
  LET rank(i) == (IF InputOf(sources, inputs, i).tool THEN 2 ELSE 0)
                 + (IF InputOf(sources, inputs, i).synthetic THEN 1 ELSE 0)
  IN CHOOSE i \in parents :
       \A j \in parents : rank(i) < rank(j) \/ (rank(i) = rank(j) /\ i <= j)

\* The images of a source that are in the result, itself not counted.
Images(sources, result, history, i) ==
  (ImagesIn(history, "modified", sources[i]) \cap ToSet(result)) \ {sources[i]}

\* Mutant: of several images the first carries the token on.
CarriesOn_First(sources, inputs, result, history, i, x) ==
  /\ x = Min(Images(sources, result, history, i))
  /\ ~ InputOf(sources, inputs, i).synthetic
\* Identity goes on through the only image of a source that is no scaffold.
CarriesOn(sources, inputs, result, history, i, x) ==
  /\ Images(sources, result, history, i) = {x}
  /\ ~ InputOf(sources, inputs, i).synthetic

\* The plan of one result entity that is no survivor.
PlanOf(st, class, sources, inputs, result, history, x) ==
  LET modified == Parents(sources, history, "modified", x)
      generated == Parents(sources, history, "generated", x)
      tool(i) == InputOf(sources, inputs, i).tool
      ancestors == {NewestTokenOf(st, sources[i]) : i \in modified \cup generated}
      heir == Heir(sources, inputs, modified)
      plan(role, alias) == [shape |-> x, role |-> role, ancestors |-> ancestors, alias |-> alias]
  IN CASE modified # {} ->
            plan(IF tool(heir) /\ \E i \in generated : ~ tool(i)
                 THEN RoleForGenerated(class, FALSE, Kind(x))
                 ELSE RoleForModified(class, tool(heir), Kind(x)),
                 IF CarriesOn(sources, inputs, result, history, heir, x) THEN sources[heir] ELSE 0)
       [] modified = {} /\ Cardinality(generated) = 1 ->
            plan(RoleForGenerated(class, tool(Min(generated)), Kind(x)), 0)
       [] modified = {} /\ Cardinality(generated) > 1 -> plan(RoleForSection(class, Kind(x)), 0)
       [] modified = {} /\ generated = {} /\ Contains(sources, x) ->
            [PlanFor(x, RoleForModified(class, TRUE, Kind(x))) EXCEPT
               !.ancestors = {NewestTokenOf(st, x)}]
       [] OTHER -> plan(RoleForUnattributed(class, Kind(x)), 0)

\* Mutant: records of sources that are gone stay.
Retire_Nothing(st, set) == st
Retire(st, set) ==
  LET dead == UNION {ToSet(Answering(st, x)) : x \in set}
  IN [st EXCEPT !.records = [i \in DOMAIN st.records |->
                               [st.records[i] EXCEPT !.live = @ /\ i \notin dead]],
                !.answering = Without(st.answering, set)]

HarvestOperation(st, op, class, inputs, result, history) ==
  LET sources == Sources([k \in DOMAIN inputs |-> inputs[k].parts])
      images(i) == Images(sources, result, history, i)
      staying == {i \in DOMAIN sources : Contains(result, sources[i])}
      scaffolds == {sources[i] : i \in {j \in staying : InputOf(sources, inputs, j).synthetic}}
      survivors == {sources[i] : i \in staying} \ scaffolds
      minted == ToSet(result) \ survivors
      plans == {PlanOf(st, class, sources, inputs, result, history, x) : x \in minted}
      unattributed == {x \in minted : /\ IsBareQuantizedRoot(st.book[x])
                                      /\ Parents(sources, history, "modified", x) = {}
                                      /\ Parents(sources, history, "generated", x) = {}}
      broken == \/ \E x \in ToSet(sources) : Answering(st, x) = << >>
                \/ \E i \in staying : images(i) # {}
                \/ \E i \in DOMAIN sources : \E y \in images(i) : Kind(y) # Kind(sources[i])
                \/ unattributed # {}
                \/ \E plan \in plans : plan.role = NoRole
      minting == MintBuckets(Retire(st, scaffolds), op, 0, plans)
      aliased == {plan.alias : plan \in plans} \ {0}
      swept == Retire(minting, ToSet(sources) \ (survivors \cup aliased \cup scaffolds))
  IN IF broken THEN [st EXCEPT !.fault = TRUE]
     ELSE [swept EXCEPT !.fault = swept.fault
                                  \/ \E x \in ToSet(result) : LiveAnswers(swept, x) = {}]

\* The naming pass and the harvest of one operation.
Attribute(st, op, class, inputs, result, history) ==
  LET naming == ApplyOperation(st.book, op, [k \in DOMAIN inputs |-> inputs[k].parts],
                               result, history)
  IN IF naming.fault THEN [st EXCEPT !.fault = TRUE]
     ELSE HarvestOperation(Named(st, naming), op, class, inputs, result, history)
=================================================================================
