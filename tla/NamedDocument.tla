------------------------------ MODULE NamedDocument ------------------------------
(***************************************************************************)
(* The naming of one evaluation: operations that bear, copy, move, round,   *)
(* bite, unite and offset bodies, each in two steps, as in the handlers:    *)
(* the geometry kernel builds the result and its history, and the registry  *)
(* harvests them.  An anchor is taken on one sub-shape on the way, as a     *)
(* recorded reference is, and is resolved against every later state.        *)
(*                                                                         *)
(* Geometry is outside the code: an operation picks where it acts, and its  *)
(* result has the faces, edges and vertices of that case (a sphere biting a *)
(* corner, an edge or the inside of a face; a fillet along an edge with a   *)
(* corner of three edges at either end; a face pushed out).                 *)
(***************************************************************************)
EXTENDS ReferenceResolution

CONSTANTS
  Documents,  \* kinds of document: [births, steps, length, picks], a bound;
              \* a birth is [class, ends, template]
  Cylinder,   \* template of a hole's tool, the wall first
  Solid,      \* template of the solids of an imported file
  Slots       \* reference slots a recorded anchor is resolved by

IsTemplate(template) == Len(template) \in Nat /\ DOMAIN template = 1 .. Len(template)

ASSUME DocumentsAssumption ==
  /\ IsTemplate(Cylinder) /\ IsTemplate(Solid)
  /\ \A d \in Documents : /\ Len(d.births) \in Nat
                           /\ \A i \in 1 .. Len(d.births) : IsTemplate(d.births[i].template)

ASSUME SlotsAssumption == \A i \in DOMAIN Slots : Slots[i].query \in Queries

VARIABLES document, made, registry, bodies, datums, work, anchors, status

vars == <<shapes, document, made, registry, bodies, datums, work, anchors, status>>

Idle == [what |-> "idle", class |-> "", ends |-> {}, parts |-> << >>, side |-> << >>, from |-> << >>,
         inputs |-> << >>, result |-> << >>, modified |-> << >>, generated |-> << >>,
         tool |-> << >>, consumed |-> {}]

EmptyRegistry == [book |-> [x \in {} |-> << >>], records |-> << >>,
                  answering |-> [x \in {} |-> << >>], fault |-> FALSE]

Init ==
  /\ document \in Documents
  /\ shapes = << >> /\ made = 0 /\ registry = EmptyRegistry /\ bodies = {}
  /\ datums = {} /\ work = Idle /\ anchors = {} /\ status = "evaluating"

-----------------------------------------------------------------------------
\* New sub-shapes.  A template is a sequence of [kind, below, looks, side],
\* below by position.
\* `sources' are what it comes from, `alone' those it is the only image of.
Fresh(known, kind, below, looks, id, sources, alone) ==
  [kind |-> kind, below |-> below, looks |-> looks,
   ancestry |-> {id} \cup UNION {known[s].ancestry : s \in sources},
   continues |-> {id} \cup UNION {known[s].continues : s \in alone}]
Placed(template, base) ==
  [i \in DOMAIN template |->
     Fresh(<< >>, template[i].kind, {base + j : j \in template[i].below}, template[i].looks,
           base + i, {}, {})]
Ids(template, base) == [i \in DOMAIN template |-> base + i]

\* A sub-shape of a result is named by what it is of before it has a number.
Ref(what, of, nth) == [what |-> what, of |-> of, nth |-> nth]
Old(x) == Ref("old", x, 0)

\* The frame a surface or a curve lies in; the lines of new ones are numbered below zero.
Frame(dir, line, radius) == [dir |-> dir, line |-> line, radius |-> radius]
NoFrame == Frame(0, 0, 0)
Elsewhere(looks) == [looks EXCEPT ![3].line = @ + 100]
Resized(looks, size) == <<looks[1], size, looks[3]>>

\* The result of an operation on `bodies' with fresh sub-shapes `refs', their
\* boundaries and looks, and the history by source.
Number(refs, base, ref) ==
  IF ref.what = "old" THEN ref.of ELSE base + CHOOSE i \in DOMAIN refs : refs[i] = ref
Kinds == [face |-> "f", wall |-> "f", blend |-> "f", copy |-> "f", edge |-> "e", rim |-> "e",
          seam |-> "e", vertex |-> "v"]
ImagesOf(pairs, s) == {pair[2] : pair \in {p \in pairs : p[1] = s}}
Built(known, refs, below, looks, modified, generated) ==
  [i \in DOMAIN refs |->
     LET into(pairs) == {pair[1] : pair \in {p \in pairs : p[2] = refs[i]}}
         sources == into(modified)
         base == Len(known)
     IN Fresh(known, Kinds[refs[i].what], {Number(refs, base, ref) : ref \in below[refs[i]]},
              looks[refs[i]], base + i, sources \cup into(generated),
              {s \in sources : Cardinality(ImagesOf(modified, s)) = 1})]
History(refs, base, pairs) ==
  [s \in {pair[1] : pair \in pairs} |-> {Number(refs, base, ref) : ref \in ImagesOf(pairs, s)}]

Edges(set) == {x \in set : Kind(x) = "e"}
Faces(set) == {x \in set : Kind(x) = "f"}
AtVertex(parts, v) == {e \in Edges(parts) : v \in Below(e)}
Around(parts, e) == {f \in Faces(parts) : e \in Below(f)}

-----------------------------------------------------------------------------
Ready(step) ==
  /\ status = "evaluating" /\ work = Idle /\ made < document.length
  /\ step \in document.steps
Start(new, job) ==
  /\ shapes' = shapes \o new /\ work' = job /\ made' = made + 1
  /\ UNCHANGED <<document, registry, bodies, datums, anchors, status>>

\* create_*, extrude, revolve: a body of a class, its sub-shapes by template.
Bear ==
  /\ Ready("bear") /\ made < Len(document.births)
  /\ LET birth == document.births[made + 1]
         base == Len(shapes)
     IN Start(Placed(birth.template, base),
              [Idle EXCEPT !.what = "birth", !.class = birth.class, !.ends = birth.ends,
                           !.parts = <<Ids(birth.template, base)>>,
                           !.side = [x \in {base + i : i \in DOMAIN birth.template} |->
                                       birth.template[x - base].side]])

\* import_step: every solid of the file is an output of the one operation.
Import ==
  /\ Ready("import")
  /\ LET base == Len(shapes)
         second == base + Len(Solid)
     IN Start(Placed(Solid, base) \o Placed(Solid, second),
              [Idle EXCEPT !.what = "import",
                           !.parts = <<Ids(Solid, base), Ids(Solid, second)>>])

\* datum_plane: a backing face that no body owns.
DatumPlane ==
  /\ Ready("datum")
  /\ Start(<<Fresh(<< >>, "f", {}, <<"plane", 0, Frame(9, 0, 0)>>, Len(shapes) + 1, {}, {})>>,
           [Idle EXCEPT !.what = "datum", !.parts = <<<<Len(shapes) + 1>>>>])

\* wire_route: a body whose parts are named and hold no record (so do stitch,
\* thicken, boundary_surface and the mold operations).
WireRoute ==
  /\ Ready("wire")
  /\ LET base == Len(shapes)
     IN Start(Placed(Solid, base), [Idle EXCEPT !.what = "bare", !.parts = <<Ids(Solid, base)>>])

\* mirror without merge: a copy beside its source, which stays.
MirrorCopy ==
  /\ Ready("copy")
  /\ \E b \in bodies :
       LET source == b.parts
           base == Len(shapes)
           at(x) == base + CHOOSE i \in DOMAIN source : source[i] = x
       IN Start([i \in DOMAIN source |->
                   Fresh(shapes, Kind(source[i]), {at(y) : y \in Below(source[i])},
                         Elsewhere(shapes[source[i]].looks), base + i, {source[i]}, {})],
                [Idle EXCEPT !.what = "copy", !.parts = <<[i \in DOMAIN source |-> base + i]>>,
                             !.from = [x \in {base + i : i \in DOMAIN source} |-> source[x - base]]])

-----------------------------------------------------------------------------
Synthetic(parts) == [parts |-> parts, tool |-> TRUE, synthetic |-> TRUE]
Real(parts) == [parts |-> parts, tool |-> TRUE, synthetic |-> FALSE]
Target(parts) == [parts |-> parts, tool |-> FALSE, synthetic |-> FALSE]

\* An operation with a history: inputs [parts, tool, synthetic], the fresh
\* sub-shapes, finitely many, and what stays of the old ones.
Operate(class, inputs, tool, consumed, placed, set, below, looks, kept, modified, generated) ==
  LET base == Len(shapes) + Len(placed)
      refs == InSomeOrder(set)
  IN /\ IsFiniteSet(set)
     /\ Start(placed \o Built(shapes \o placed, refs, below, looks, modified, generated),
              [Idle EXCEPT !.what = "operation", !.class = class, !.inputs = inputs, !.tool = tool,
                           !.consumed = consumed,
                           !.result = InSomeOrder(kept \cup {base + i : i \in DOMAIN refs}),
                           !.modified = History(refs, base, modified),
                           !.generated = History(refs, base, generated)])

\* transform: every sub-shape moves to an image of its own.
Transform ==
  /\ Ready("transform")
  /\ \E b \in bodies :
       LET parts == PartsOf(b)
           moved(x) == Ref(IF Kind(x) = "f" THEN "face" ELSE IF Kind(x) = "e" THEN "edge" ELSE "vertex",
                           x, 0)
           all == {moved(x) : x \in parts}
       IN Operate("Transform", <<Target(b.parts)>>,
                  << >>, {b}, << >>, all,
                  [ref \in all |-> {moved(y) : y \in Below(ref.of)}],
                  [ref \in all |-> Elsewhere(shapes[ref.of].looks)], {},
                  {<<x, moved(x)>> : x \in parts}, {})

\* fillet along the edge a: its two faces and the faces at its ends are cut
\* back, a blend is generated, and the history is of faces only: all the edges
\* and vertices that change are new.
FilletOf(b, a) ==
  LET parts == PartsOf(b)
      ends == Below(a)
      sides == Around(parts, a)
      cut == UNION {AtVertex(parts, v) : v \in ends} \ {a}
      caps(v) == {f \in Faces(parts) \ sides : Below(f) \cap AtVertex(parts, v) # {}}
      faces == sides \cup UNION {caps(v) : v \in ends}
      blend == Ref("blend", a, 0)
      corner(e, v) == Ref("vertex", e, v)
      corners(set, at) == {corner(p[1], p[2]) : p \in {q \in set \X at : q[2] \in Below(q[1])}}
      side(f) == Ref("rim", f, 0)
      end(v) == Ref("seam", v, 0)
      along == shapes[a].looks[3].dir
      new == {blend} \cup {Ref("face", f, 0) : f \in faces} \cup {Ref("edge", e, 0) : e \in cut}
             \cup {side(f) : f \in sides} \cup {end(v) : v \in ends} \cup corners(cut, ends)
      boundary(f) ==
        {Old(e) : e \in Below(f) \ (cut \cup {a})} \cup {Ref("edge", e, 0) : e \in cut \cap Below(f)}
        \cup (IF f \in sides THEN {side(f)} ELSE {end(v) : v \in {w \in ends : f \in caps(w)}})
      below == [ref \in new |->
        CASE ref.what = "blend" -> {side(f) : f \in sides} \cup {end(v) : v \in ends}
          [] ref.what = "face" -> boundary(ref.of)
          [] ref.what = "edge" -> {Old(v) : v \in Below(ref.of) \ ends} \cup corners({ref.of}, ends)
          [] ref.what = "rim" -> corners(cut \cap Below(ref.of), ends)
          [] ref.what = "seam" -> corners(cut, {ref.of})
          [] ref.what = "vertex" -> {}]
      looks == [ref \in new |->
        CASE ref.what \in {"face", "edge"} -> shapes[ref.of].looks
          [] ref.what = "blend" -> <<"cylinder", 1, Frame(along, 0 - a, 1)>>
          [] ref.what = "rim" -> <<"line", 2, Frame(along, 0 - ref.of, 0)>>
          [] ref.what = "seam" -> <<"circle", 1, Frame(along, 0 - a, 1)>>
          [] ref.what = "vertex" -> <<"point", 0, NoFrame>>]
  IN /\ Cardinality(sides) = 2 /\ Cardinality(ends) = 2
     /\ \A v \in ends : Cardinality(AtVertex(parts, v)) = 3 /\ Cardinality(caps(v)) = 1
     /\ Operate("Fillet", <<Target(b.parts)>>,
                << >>, {b}, << >>, new, below, looks, parts \ ({a} \cup ends \cup cut \cup faces),
                {<<f, Ref("face", f, 0)>> : f \in faces}, {<<a, blend>>})
Fillet ==
  /\ Ready("fillet")
  /\ \E b \in bodies : \E a \in Edges(PartsOf(b)) : FilletOf(b, a)

\* What a bite takes: an edge with its ends, a corner, the middle of an edge.
\* `gone' goes, `halved' are the edges cut in two.
Bites(parts) ==
  {[gone |-> {e} \cup Below(e), halved |-> {}] : e \in Edges(parts)}
  \cup {[gone |-> {v}, halved |-> {}] : v \in {x \in parts : Kind(x) = "v"}}
  \cup {[gone |-> {}, halved |-> {e}] : e \in {x \in Edges(parts) : Cardinality(Below(x)) = 2}}

\* A wall of a tool bites into a body and only the part of the wall inside is
\* left of the tool: the edges it meets end at vertices generated by edge and
\* wall, the faces it meets are trimmed along an edge generated by face and wall.
BiteOf(class, b, bite, wall, tool, placed, consumed, toolInput) ==
  LET known == shapes \o placed
      parts == PartsOf(b)
      met == ({e \in Edges(parts) : Below(e) \cap bite.gone # {}} \ bite.gone) \cup bite.halved
      faces == {f \in Faces(parts) : Below(f) \cap (met \cup bite.gone) # {}}
      \* the places on an edge where the wall meets it
      places(e) == IF e \in bite.halved THEN Below(e) ELSE Below(e) \cap bite.gone
      point(e, v) == Ref("vertex", e, v)
      points(e) == {point(e, v) : v \in places(e)}
      pieces(e) == IF e \in bite.halved THEN {Ref("edge", e, v) : v \in Below(e)}
                   ELSE {Ref("edge", e, 0)}
      rim(f) == Ref("rim", f, 0)
      trimmed(f) == Ref("face", f, 0)
      inside == Ref("wall", wall, 0)
      new == {inside} \cup {trimmed(f) : f \in faces} \cup {rim(f) : f \in faces}
             \cup UNION {pieces(e) \cup points(e) : e \in met}
      below == [ref \in new |->
        CASE ref.what = "wall" -> {rim(f) : f \in faces}
          [] ref.what = "face" -> {Old(e) : e \in Below(ref.of) \ (met \cup bite.gone)} \cup {rim(ref.of)}
                                  \cup UNION {pieces(e) : e \in met \cap Below(ref.of)}
          [] ref.what = "rim" -> UNION {points(e) : e \in met \cap Below(ref.of)}
          [] ref.what = "edge" /\ ref.nth = 0 -> {Old(v) : v \in Below(ref.of) \ bite.gone} \cup points(ref.of)
          [] ref.what = "edge" /\ ref.nth # 0 -> {Old(ref.nth), point(ref.of, ref.nth)}
          [] ref.what = "vertex" -> {}]
      looks == [ref \in new |->
        CASE ref.what \in {"face", "edge"} -> Resized(shapes[ref.of].looks, shapes[ref.of].looks[2] + 1)
          [] ref.what = "wall" -> Resized(known[wall].looks, 3)
          [] ref.what = "rim" -> <<"other", 1, NoFrame>>
          [] ref.what = "vertex" -> <<"point", 0, NoFrame>>]
      splits == UNION {{<<e, piece>> : piece \in pieces(e)} : e \in met}
      meets == UNION {{<<e, p>> : p \in points(e)} : e \in met}
  IN /\ \A f \in faces : Cardinality(UNION {points(e) : e \in met \cap Below(f)}) = 2
     /\ Operate(class, <<Target(b.parts), toolInput>>,
                tool, consumed, placed, new, below, looks, parts \ (bite.gone \cup met \cup faces),
                splits \cup {<<f, trimmed(f)>> : f \in faces} \cup {<<wall, inside>>},
                {<<f, rim(f)>> : f \in faces} \cup {<<wall, rim(f)>> : f \in faces}
                \cup meets \cup {<<wall, pair[2]>> : pair \in meets})

\* hole, its cylinder through a corner or an edge.
Hole ==
  /\ Ready("hole")
  /\ \E b \in bodies : \E bite \in Bites(PartsOf(b)) :
       LET base == Len(shapes)
           parts == Ids(Cylinder, base)
       IN BiteOf("Hole", b, bite, base + 1, parts, Placed(Cylinder, base), {b}, Synthetic(parts))

\* boolean_combine, subtract: the same with a body of one face for the tool.
Subtract ==
  /\ Ready("subtract")
  /\ \E b, c \in bodies : \E bite \in Bites(PartsOf(b)) :
       /\ b # c /\ Cardinality(Faces(PartsOf(c))) = 1
       /\ \E wall \in Faces(PartsOf(c)) :
            BiteOf("Boolean", b, bite, wall, << >>, << >>, {b, c}, Real(c.parts))

\* A tool sinks into the face f: one edge around, the seam of the tool cut at a
\* vertex generated by seam and face, and the end of the tool inside, or the end
\* outside, kept with the vertex `inner' the seam ends at.
SinkOf(class, b, f, wall, seam, inner, tool, placed, consumed, toolInput) ==
  LET known == shapes \o placed
      toolParts == ToSet(toolInput.parts)
      keptEdges == {e \in toolParts \ {seam} : known[e].kind = "e" /\ known[e].below = {inner}}
      keptFaces == {g \in toolParts \ {wall} : known[g].kind = "f" /\ known[g].below \subseteq keptEdges}
      face == Ref("face", f, 0)
      inside == Ref("wall", wall, 0)
      rim == Ref("rim", f, 0)
      cut == Ref("seam", seam, 0)
      point == Ref("vertex", seam, 0)
      new == {face, inside, rim, cut, point}
      below == [ref \in new |->
        CASE ref = face -> {Old(e) : e \in Below(f)} \cup {rim}
          [] ref = inside -> {Old(e) : e \in known[wall].below \cap keptEdges} \cup {rim, cut}
          [] ref = rim -> {point}
          [] ref = cut -> {Old(inner), point}
          [] ref = point -> {}]
      looks == [ref \in new |->
        CASE ref = face -> shapes[f].looks
          [] ref = inside -> Resized(known[wall].looks, 3)
          [] ref = rim -> <<"circle", 1, known[wall].looks[3]>>
          [] ref = cut -> Resized(known[seam].looks, 1)
          [] ref = point -> <<"point", 0, NoFrame>>]
  IN /\ inner \in known[seam].below /\ known[seam].below # {inner}
     /\ Operate(class, <<Target(b.parts), toolInput>>, tool, consumed, placed, new, below, looks,
                (PartsOf(b) \ {f}) \cup {inner} \cup keptEdges \cup keptFaces,
                {<<f, face>>, <<wall, inside>>, <<seam, cut>>},
                {<<f, rim>>, <<wall, rim>>, <<seam, point>>, <<f, point>>})

\* hole, blind: the bottom of the cylinder and its seam are inside.
BlindHole ==
  /\ Ready("blind")
  /\ \E b \in bodies : \E f \in Faces(PartsOf(b)) :
       LET base == Len(shapes)
           parts == Ids(Cylinder, base)
           placed == Placed(Cylinder, base)
           seam == CHOOSE x \in ToSet(parts) :
                     placed[x - base].kind = "e" /\ Cardinality(placed[x - base].below) = 2
       IN \E inner \in ToSet(parts) :
            SinkOf("Hole", b, f, base + 1, seam, inner, parts, placed, {b}, Synthetic(parts))

\* boolean_combine: a body of one face half sunk in another, united with it or
\* subtracted from it.
Combine ==
  /\ Ready("combine")
  /\ \E b, c \in bodies : \E f \in Faces(PartsOf(b)) :
       LET tool == PartsOf(c)
       IN /\ b # c /\ Cardinality(Faces(tool)) = 1
          /\ \E wall \in Faces(tool), seam \in Edges(tool), inner \in tool :
               SinkOf("Boolean", b, f, wall, seam, inner, << >>, << >>, {b, c}, Real(c.parts))

\* offset of the face f: a prism swept from f, which shares f with the body, is
\* united with it.  Where the walls of the prism are flush with the faces
\* around f, they merge, and so do the edges that lead off f.
OffsetOf(b, f) ==
  LET parts == PartsOf(b)
      rims == Edges(parts) \cap Below(f)
      corners == {v \in parts : \E e \in rims : v \in Below(e)}
      leading(v) == AtVertex(parts, v) \ rims
      flush == \A v \in corners : Cardinality(leading(v)) = 1
                                  /\ \A e \in leading(v) : ~ Below(e) \subseteq corners
      \* the prism: f, its edges and corners, and their sweeps
      sweep == InSomeOrder({Ref("face", f, 0)} \cup {Ref("wall", e, 0) : e \in rims}
                        \cup {Ref("edge", e, 0) : e \in rims} \cup {Ref("seam", v, 0) : v \in corners}
                        \cup {Ref("vertex", v, 0) : v \in corners})
      ref(r) == Number(sweep, Len(shapes), r)
      below == [r \in ToSet(sweep) |->
        CASE r.what = "face" -> {Ref("edge", e, 0) : e \in rims}
          [] r.what = "wall" -> {Old(r.of), Ref("edge", r.of, 0)} \cup {Ref("seam", v, 0) : v \in Below(r.of)}
          [] r.what = "edge" -> {Ref("vertex", v, 0) : v \in Below(r.of)}
          [] r.what = "seam" -> {Old(r.of), Ref("vertex", r.of, 0)}
          [] r.what = "vertex" -> {}]
      looks == [r \in ToSet(sweep) |->
        LET of == shapes[r.of].looks
            round == of[1] = "circle"
        IN CASE r.what = "face" \/ (r.what = "edge" /\ round) -> of
             [] r.what = "edge" /\ ~ round -> <<of[1], of[2], [of[3] EXCEPT !.line = 0 - r.of]>>
             [] r.what = "wall" -> IF round THEN <<"cylinder", 9, of[3]>>
                                   ELSE <<"plane", 9, Frame(20 + r.of, 0, 0)>>
             [] r.what = "seam" -> <<"line", 9, Frame(shapes[f].looks[3].dir, 0 - r.of, 0)>>
             [] r.what = "vertex" -> of]
      placed == Built(shapes, sweep, below, looks, {}, {})
      prism == InSomeOrder({f} \cup rims \cup corners) \o [i \in DOMAIN sweep |-> Len(shapes) + i]
      swept == {Len(shapes) + i : i \in DOMAIN sweep}
      next(e) == CHOOSE g \in Around(parts, e) : g # f
      lead(v) == CHOOSE e \in leading(v) : TRUE
      merged == {Ref("face", next(e), 1) : e \in rims} \cup {Ref("edge", lead(v), 1) : v \in corners}
      base == Len(shapes) + Len(placed)
      walls(g) == {e \in rims : next(e) = g}
      long(r) == IF r.what = "face"
                 THEN {Old(e) : e \in Below(r.of) \ (rims \cup {lead(v) : v \in corners})}
                      \cup {Ref("edge", lead(v), 1) : v \in UNION {Below(e) : e \in walls(r.of)}}
                      \cup {Old(ref(Ref("edge", e, 0))) : e \in walls(r.of)}
                 ELSE {Old(v) : v \in Below(r.of) \ corners}
                      \cup {Old(ref(Ref("vertex", v, 0))) : v \in {w \in corners : lead(w) = r.of}}
      inputs == <<Target(b.parts), Synthetic(prism)>>
  IN \/ Operate("Offset", inputs, prism, {b}, placed, {}, << >>, << >>,
                (parts \ {f}) \cup swept, {}, {})
     \/ /\ flush
        /\ Operate("Offset", inputs, prism, {b}, placed, merged,
                   [r \in merged |-> long(r)], [r \in merged |-> shapes[r.of].looks],
                   (parts \ ({f} \cup rims \cup corners \cup {next(e) : e \in rims}
                             \cup {lead(v) : v \in corners}))
                   \cup {ref(r) : r \in {q \in ToSet(sweep) : q.what \in {"face", "edge", "vertex"}}},
                   {<<next(e), Ref("face", next(e), 1)>> : e \in rims}
                   \cup {<<ref(Ref("wall", e, 0)), Ref("face", next(e), 1)>> : e \in rims}
                   \cup {<<lead(v), Ref("edge", lead(v), 1)>> : v \in corners}
                   \cup {<<ref(Ref("seam", v, 0)), Ref("edge", lead(v), 1)>> : v \in corners},
                   {})
LocalOffset ==
  /\ Ready("offset")
  /\ \E b \in bodies : \E f \in Faces(PartsOf(b)) : OffsetOf(b, f)

-----------------------------------------------------------------------------
\* The harvest of what was built; a refusal ends the evaluation, and what it
\* had is discarded.
MirrorRoles == [f |-> "mirrored", e |-> "mirrored-edge", v |-> "mirrored-vertex"]
Rooted(st) == Named(st, AddPrimitive(st.book, made, work.parts[1]))
WithTool(st) ==
  IF work.tool = << >> THEN st
  ELSE HarvestSyntheticTool(Named(st, AddDerivedPrimitive(st.book, made, work.tool)), made, work.tool)
Harvested ==
  CASE work.what = "birth" ->
         HarvestBirth(registry, made, [class |-> work.class, ends |-> work.ends], work.parts[1], work.side)
    [] work.what = "bare" ->
         Named(registry, AddDerivedPrimitive(registry.book, made, work.parts[1]))
    [] work.what = "datum" -> RegisterDatumEntity(registry, made, "plane", work.parts[1][1])
    [] work.what = "copy" ->
         HarvestCopiedBody(Rooted(registry), made, 0, work.parts[1], MirrorRoles, work.from)
    [] work.what = "import" ->
         HarvestImportedBody(HarvestImportedBody(registry, made, 0, work.parts[1]),
                             made, 1, work.parts[2])
    [] work.what = "operation" ->
         Attribute(WithTool(registry), made, work.class, work.inputs, work.result,
                   [modified |-> work.modified, generated |-> work.generated])

Produced ==
  CASE work.what = "datum" -> {}
    [] work.what = "operation" -> {[op |-> made, out |-> 0, parts |-> work.result, bare |-> FALSE]}
    [] OTHER -> {[op |-> made, out |-> i - 1, parts |-> work.parts[i], bare |-> work.what = "bare"] :
                  i \in DOMAIN work.parts}

Harvest ==
  /\ status = "evaluating" /\ work # Idle /\ ~ Harvested.fault
  /\ registry' = Harvested
  /\ bodies' = (bodies \ work.consumed) \cup Produced
  /\ datums' = IF work.what = "datum" THEN datums \cup ToSet(work.parts[1]) ELSE datums
  /\ work' = Idle
  /\ UNCHANGED <<shapes, document, made, anchors, status>>
HarvestRefuses ==
  /\ status = "evaluating" /\ work # Idle /\ Harvested.fault
  /\ status' = "failed" /\ shapes' = << >> /\ made' = 0 /\ registry' = EmptyRegistry
  /\ bodies' = {} /\ datums' = {} /\ work' = Idle /\ anchors' = {}
  /\ UNCHANGED document

\* A reference is recorded: the projection of the entity, its token first.
Pick ==
  /\ status = "evaluating" /\ work = Idle /\ anchors = {} /\ bodies # {}
  /\ \E x \in VisibleShapes(bodies) :
       /\ Kind(x) \in document.picks /\ Covered(registry, x)
       /\ anchors' = {[token |-> Token(registry, x), shape |-> x, looks |-> shapes[x].looks,
                       hash |-> AdjacencyHash(registry, bodies, x)]}
  /\ UNCHANGED <<shapes, document, made, registry, bodies, datums, work, status>>

Next ==
  \/ Bear \/ Import \/ DatumPlane \/ WireRoute \/ MirrorCopy \/ Transform \/ Fillet \/ Hole \/ Subtract
  \/ BlindHole \/ Combine \/ LocalOffset \/ Harvest \/ HarvestRefuses \/ Pick

Spec == Init /\ [][Next]_vars

-----------------------------------------------------------------------------
Settled == status = "evaluating" /\ work = Idle
LiveRecords == {i \in DOMAIN registry.records : registry.records[i].live}

\* The index and the records agree: every sub-shape of a visible body (but those
\* of the operations that mint no record) answers to a live record, and every live record is indexed under its shape, which is a
\* sub-shape of a visible body or a datum - an `op' source takes a live record
\* of an invisible shape for a datum (NamingRegistry::HarvestOperation, the sweep
\* and the totality rule; ExpandSource).
IndexSound ==
  Settled =>
    /\ \A b \in {body \in bodies : ~ body.bare} :
         \A x \in PartsOf(b) : LiveAnswers(registry, x) # {}
    /\ \A i \in LiveRecords :
         /\ registry.records[i].shape \in VisibleShapes(bodies) \cup datums
         /\ i \in ToSet(Answering(registry, registry.records[i].shape))

\* A live token still means the sub-shape it was minted for: from that one to the
\* one it answers for now, every step was the only image of its source - a token
\* never follows one half of a split (naming_registry.hpp, the 1:1 rule).
TokenFollowsItsEntity ==
  Settled => \A i \in LiveRecords :
    registry.records[i].born \in shapes[registry.records[i].shape].continues

\* The name under which a live record is matched across evaluations is the name
\* its shape has now, plain modifications erased (MakeEntity reads the record,
\* not the book).
RecordNamesItsShape ==
  Settled => \A i \in LiveRecords :
    registry.records[i].name = NormalizeName(registry.book[registry.records[i].shape])

\* What an anchor may carry besides its token and looks.
Evidence(anchor) ==
  {{}, {"adjHash"}} \cup (IF anchor.looks[1] \in Axial THEN {{"adjHash", "analytic"}} ELSE {})
Resolved(anchor, slot, evidence) ==
  [anchor |-> anchor,
   answer |-> ResolveRef(registry, bodies, slot,
                         {[token |-> anchor.token, shape |-> anchor.shape, looks |-> anchor.looks,
                           hash |-> anchor.hash, evidence |-> evidence]}),
   candidates |-> EvaluateToSet(registry, bodies, slot.query)]
Resolutions ==
  LET kinds == {Kind(anchor.shape) : anchor \in anchors}
      asked == {Slots[i] : i \in {j \in DOMAIN Slots : Slots[j].query.kind \in kinds}}
      carried == UNION {Evidence(anchor) : anchor \in anchors}
  IN {Resolved(anchor, slot, evidence) : anchor \in anchors, slot \in asked, evidence \in carried}

\* While the token of an anchor lives and its entity is among the candidates, a
\* slot for one entity that recovers from several recovers to that entity, never
\* to another (ResolveRef, the lattice and the enriched recovery).
AnchoredIsFound ==
  Settled => \A r \in Resolutions : \A i \in FindByToken(registry, r.anchor.token) :
    (r.answer.drift /\ registry.records[i].live /\ registry.records[i].shape \in r.candidates)
      => r.answer.entities = {registry.records[i].shape}

\* A slot for one entity never recovers to an entity that has nothing of the
\* anchored one: a twin the channels cannot separate is ambiguous
\* (ref_resolution.hpp, ResolveRef).
NoSilentMisreference ==
  Settled => \A r \in Resolutions : r.answer.drift =>
    \A x \in r.answer.entities : r.anchor.shape \in shapes[x].ancestry
=================================================================================
