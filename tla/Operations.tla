------------------------------- MODULE Operations -------------------------------
(***************************************************************************)
(* One evaluation of a document: ExecuteOperation on every operation in     *)
(* order.  An operation is begun (its plan is made from the state it peeks  *)
(* at) and then runs step by step; a step that throws ends the evaluation   *)
(* and the state built so far is discarded with it.                         *)
(***************************************************************************)
EXTENDS SheetMoldOps

CONSTANT Documents  \* kinds of document: [of, length], the operations it may hold
                    \* (without their references) and, a bound, how many

\* The face a wire route starts from is a reference slot of it.
ASSUME RouteAssumption ==
  \A d \in Documents : \A t \in d.of : t.type = "wire_route" => t.picks

VARIABLES document,     \* the kind of document evaluated
          todo,         \* the rest of the plan of the operation under way
          held,         \* the bodies it consumed so far
          status        \* "ready", "running", "ok" or the code of the failure

docVars == <<document, ops, todo, held, status, channel>>
vars == <<bodies, consumed, available, profiles, paths, named, recorded, docVars>>

Codes == {Invalid, Missing, Geometry, Internal, Unsupported, Ambiguous, WrongKind,
          "THIN_FAILED", "SELF_INTERSECTION", "NO_CONTACT", "CANCELLED"}

Current == Len(ops)

Plan(o) ==
  CASE o.type = "create_box" -> CreateBox(o)
    [] o.type = "create_cylinder" -> CreateCylinder(o)
    [] o.type = "create_sphere" -> CreateSphere(o)
    [] o.type = "create_cone" -> CreateCone(o)
    [] o.type = "create_torus" -> CreateTorus(o)
    [] o.type = "create_wedge" -> CreateWedge(o)
    [] o.type = "sketch" -> Sketch(o)
    [] o.type = "create_profile" -> CreateProfile(o)
    [] o.type = "extrude" -> Extrude(o)
    [] o.type = "base_flange" -> BaseFlange(o)
    [] o.type = "revolve" -> Revolve(o)
    [] o.type = "loft" -> Loft(o)
    [] o.type = "sweep" -> Sweep(o)
    [] o.type = "boolean_combine" -> BooleanCombine(o)
    [] o.type = "hole" -> Hole(o)
    [] o.type = "transform" -> Transform(o)
    [] o.type = "offset" -> Offset(o)
    [] o.type = "fillet" -> Fillet(o)
    [] o.type = "chamfer" -> Chamfer(o)
    [] o.type = "datum_plane" -> DatumPlane(o)
    [] o.type = "datum_axis" -> DatumAxis(o)
    [] o.type = "shell" -> Shell(o)
    [] o.type = "mirror" -> Mirror(o)
    [] o.type = "pattern_linear" -> PatternLinear(o)
    [] o.type = "pattern_circular" -> PatternCircular(o)
    [] o.type = "import_step" -> ImportStep(o)
    [] o.type = "import_mesh" -> ImportMesh(o)
    [] o.type = "edge_flange" -> EdgeFlange(o)
    [] o.type = "unfold" -> Unfold(o)
    [] o.type = "boundary_surface" -> BoundarySurface(o)
    [] o.type = "surface_offset" -> SurfaceOffset(o)
    [] o.type = "stitch" -> Stitch(o)
    [] o.type = "thicken" -> Thicken(o)
    [] o.type = "wire_route" -> WireRoute(o)
    [] o.type = "mold_parting_line" -> MoldPartingLine(o)
    [] o.type = "mold_shutoff_surface" -> MoldShutoffSurface(o)
    [] o.type = "mold_parting_surface" -> MoldPartingSurface(o)
    [] o.type = "mold_tooling_split" -> MoldToolingSplit(o)
    [] OTHER -> Refuse(TRUE, Unsupported)

Init ==
  /\ bodies = << >> /\ consumed = {} /\ available = [id \in {} |-> 0]
  /\ profiles = {} /\ paths = {} /\ named = {} /\ recorded = {}
  /\ ops = << >> /\ todo = << >> /\ held = {} /\ status = "ready"
  /\ channel \in {"none", "book", "registry"}
  /\ document \in Documents

\* The selector of a reference slot resolves on a visible body with records.
Pickable(t) ==
  IF t.picks /\ channel = "registry" THEN {0} \cup (Visible \cap recorded) ELSE {0}
Earlier(wanted) == IF wanted THEN DOMAIN ops ELSE {0}

\* An operation of the document, its references filled in with earlier ones.
Begin ==
  /\ status = "ready" /\ Len(ops) < document.length
  /\ \E t \in document.of :
     \E target \in Earlier(t.targets), profile \in Earlier(t.profiles),
        others \in [1 .. t.others -> DOMAIN ops], picked \in Pickable(t) :
       LET o == [type |-> t.type, form |-> t.form, target |-> target,
                 profile |-> profile, others |-> others, picked |-> picked,
                 fault |-> IF t.picks /\ picked = 0 /\ channel = "registry"
                           THEN "empty" ELSE t.fault]
       IN /\ ops' = Append(ops, [type |-> o.type, others |-> o.others])
          /\ todo' = Plan(o)
  /\ status' = "running"
  /\ UNCHANGED <<bodies, consumed, available, profiles, paths, named, recorded, held, channel, document>>

\* A suppressed operation is omitted from the replay.
Suppress ==
  /\ status = "ready" /\ Len(ops) < document.length
  /\ ops' = Append(ops, [type |-> "suppressed", others |-> << >>])
  /\ UNCHANGED <<bodies, consumed, available, profiles, paths, named, recorded,
                 todo, held, status, channel, document>>

Discard(code) ==
  /\ status' = code
  /\ bodies' = << >> /\ consumed' = {} /\ available' = [id \in {} |-> 0]
  /\ profiles' = {} /\ paths' = {} /\ named' = {} /\ recorded' = {}
  /\ ops' = << >> /\ todo' = << >> /\ held' = {}
  /\ UNCHANGED <<channel, document>>

Step(do) == status = "running" /\ todo # << >> /\ Head(todo).do = do
Advance == todo' = Tail(todo) /\ UNCHANGED <<ops, status, channel, document>>
Fail(code) == Discard(code)

Refused == Step("refuse") /\ Fail(Head(todo).code)

\* BodyPool::Consume of the body an operation id stands for.
Taken ==
  /\ Step("take")
  /\ LET id == Head(todo).id
     IN /\ Consume(id)
        /\ held' = held \cup {available[id]}
  /\ Advance
  /\ UNCHANGED <<profiles, paths, named, recorded>>
NotThere == Step("take") /\ Head(todo).id \notin DOMAIN available /\ Fail(Missing)

\* ApplyOperation and HarvestOperation throw on an input they cannot attribute.
Attributable(step) ==
  /\ channel # "none" => step.named \subseteq named
  /\ channel = "registry" => step.recorded \subseteq recorded
Unattributed ==
  /\ Step("attribute") \/ Step("copy")
  /\ ~ Attributable(Head(todo))
  /\ Fail(Internal)
Attributed ==
  /\ Step("attribute") /\ Attributable(Head(todo))
  /\ recorded' = recorded \ Head(todo).recorded
  /\ Advance
  /\ UNCHANGED <<poolVars, profiles, paths, named, held>>
Copied ==
  /\ Step("copy") /\ Attributable(Head(todo))
  /\ Advance
  /\ UNCHANGED <<poolVars, profiles, paths, named, recorded, held>>

MadeBody(step) == [op |-> Current, out |-> step.out, kind |-> step.kind,
                   eaten |-> held, read |-> step.from, guard |-> step.guard]
BornStep ==
  /\ Step("born")
  /\ Produce(MadeBody(Head(todo)))
  /\ NameBody(Len(bodies) + 1, Head(todo).booked, Head(todo).harvested)
  /\ Advance
  /\ UNCHANGED <<profiles, paths, held>>

\* unfold hands its target's own shape on, with the names and records it has.
KeptStep ==
  /\ Step("kept")
  /\ Produce(MadeBody(Head(todo)))
  /\ NameBody(Len(bodies) + 1, Head(todo).recorded \subseteq named,
              Head(todo).recorded \subseteq recorded)
  /\ Advance
  /\ UNCHANGED <<profiles, paths, held>>

LeftProfile ==
  /\ Step("profile")
  /\ profiles' = profiles \cup {Current}
  /\ Advance
  /\ UNCHANGED <<poolVars, paths, nameVars, held>>
LeftPath ==
  /\ Step("path")
  /\ paths' = paths \cup {Current}
  /\ Advance
  /\ UNCHANGED <<poolVars, profiles, nameVars, held>>

Finish ==
  /\ status = "running" /\ todo = << >>
  /\ status' = "ready" /\ held' = {}
  /\ UNCHANGED <<poolVars, profiles, paths, nameVars, ops, todo, channel, document>>

\* The flag of a cancel request or of the watchdog, polled inside an operation.
Cancel == status = "running" /\ Fail("CANCELLED")

\* TakeVisibleBodies: the document is at its end.
Return ==
  /\ status = "ready" /\ ops # << >>
  /\ status' = "ok"
  /\ UNCHANGED <<poolVars, profiles, paths, nameVars, ops, todo, held, channel, document>>

Next ==
  \/ Begin \/ Suppress \/ Refused \/ Taken \/ NotThere
  \/ Unattributed \/ Attributed \/ Copied \/ BornStep \/ KeptStep
  \/ LeftProfile \/ LeftPath \/ Finish \/ Cancel \/ Return

Spec == Init /\ [][Next]_vars

-----------------------------------------------------------------------------
StepsOf == {"refuse", "take", "attribute", "copy", "born", "kept", "profile", "path"}

\* The pool, the name channels and the evaluation of one document.
TypeOK ==
  /\ \A b \in DOMAIN bodies :
       /\ bodies[b].op \in 1 .. Len(ops) /\ bodies[b].kind \in {"solid", "surface", "wire"}
       /\ bodies[b].eaten \subseteq 1 .. b - 1 /\ bodies[b].read \subseteq 1 .. b - 1
  /\ consumed \cup named \cup recorded \subseteq DOMAIN bodies
  /\ DOMAIN available \cup profiles \cup paths \subseteq DOMAIN ops
  /\ \A id \in DOMAIN available : available[id] \in DOMAIN bodies
  /\ \A i \in DOMAIN todo : todo[i].do \in StepsOf
  /\ held \subseteq consumed
  /\ status \in {"ready", "running", "ok"} \cup Codes

\* What an operation id resolves to (availableByOperationId_): an unconsumed body
\* that operation was the last to bear; an id that resolves to nothing has its
\* last body consumed.  The index and the consumed flags never part.
AvailableSound ==
  \A id \in DOMAIN available :
    /\ available[id] \in BodiesOf(id) \ consumed
    /\ \A b \in BodiesOf(id) : b <= available[id]
LastBodyAccounted ==
  \A b \in DOMAIN bodies :
    bodies[b].op \notin DOMAIN available
      => \E c \in BodiesOf(bodies[b].op) : c >= b /\ c \in consumed
PoolSound == AvailableSound /\ LastBodyAccounted

\* Material is used once: a consumed body went into the result of exactly one
\* later operation, or is held by the one under way, and no visible body did.
UsedOnce ==
  /\ \A b \in DOMAIN bodies : \A x \in bodies[b].eaten :
       /\ x \in consumed
       /\ bodies[x].op < bodies[b].op
       /\ x \in held => bodies[b].op = Current
       /\ \A c \in DOMAIN bodies : x \in bodies[c].eaten => bodies[c].op = bodies[b].op
  /\ \A x \in consumed \ held : \E b \in DOMAIN bodies : x \in bodies[b].eaten

\* With element names asked for, every body of the answer has them, so that
\* ProjectElementNames never meets a sub-shape without one.  The flat pattern of
\* an unfold is the exception: only the registry's channel names it.
FlatPattern(b) == bodies[b].out = 1 /\ channel = "book"
NamesComplete ==
  channel # "none" =>
    \A b \in Visible : b \in named \/ FlatPattern(b)

\* What geometry.cpp says of a pattern (5916): the seed is read before consuming,
\* then the operands are consumed: the body read is the body consumed.
ReadsWhatItConsumes ==
  \A b \in DOMAIN bodies :
    bodies[b].guard # 0 => bodies[b].guard \in bodies[b].eaten
=================================================================================
