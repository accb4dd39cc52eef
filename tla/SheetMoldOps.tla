------------------------------ MODULE SheetMoldOps ------------------------------
(***************************************************************************)
(* The sheet-metal, surfacing, electrical and mold handlers.  The mold      *)
(* handlers consume nothing: they read the bodies of earlier operations,    *)
(* and reach back into the document for the pull direction of the parting   *)
(* line a surface was built from.                                           *)
(***************************************************************************)
EXTENDS ModifyOps

VARIABLE ops     \* the operations of the document up to the one evaluated

\* Mutant: the body read is not looked for first.
Required_Unchecked(id) == << >>

\* A body an operation reads without consuming it: the first visible one.
Required(id) == Refuse(FirstVisible(id) = 0, Missing)
SolidOf(id) == FirstVisible(id) # 0 /\ bodies[FirstVisible(id)].kind = "solid"

EdgeFlange(o) ==
     Check(o, "params", Invalid)
  \o EdgeSlot(o)
  \o Take(o.target)
  \o Foreign(o)
  \o Check(o, "build", Geometry) \o Check(o, "broken", Internal)
  \o Born("solid")

\* unfold: the flat pattern and then the folded body, which is the target's own
\* shape: it keeps its names and records.  Only the registry names the flat one.
PlanBendFlatten(o) == Check(o, "bends", Geometry)
Unfold(o) ==
     Check(o, "params", Invalid)
  \o Take(o.target)
  \o PlanBendFlatten(o)
  \o Check(o, "build", Geometry) \o Check(o, "broken", Internal)
  \o <<Body(1, "solid", channel = "registry", TRUE),
       [Body(0, "solid", TRUE, TRUE) EXCEPT !.do = "kept", !.recorded = Held({o.target})]>>

-----------------------------------------------------------------------------
\* Surfacing: the book names the results afresh, the registry never sees them.
Surface(from) == BornReading("surface", from, 0, FALSE)

BoundarySurface(o) ==
     Required(o.target)
  \o Check(o, "loop", Geometry) \o Check(o, "build", Geometry)
  \o Surface({FirstVisible(o.target)})

SurfaceOffset(o) ==
  LET seen == FirstVisible(o.target)
  IN Check(o, "params", Invalid)
     \o Refuse(channel # "none", Unsupported)
     \o Required(o.target)
     \o Refuse(SolidOf(o.target), Invalid)
     \o Take(o.target)
     \o Check(o, "build", Geometry)
     \o BornReading("surface", {}, seen, FALSE)

Stitch(o) ==
     Check(o, "params", Invalid)
  \o Refuse(o.target = o.others[1], Invalid)
  \o Take(o.target) \o Take(o.others[1])
  \o Check(o, "sewing", Geometry)
  \o BornReading(IF Has(o, "closed") THEN "solid" ELSE "surface", {}, 0, FALSE)

Thicken(o) ==
  LET seen == FirstVisible(o.target)
  IN Check(o, "params", Invalid)
     \o Required(o.target)
     \o Refuse(SolidOf(o.target), Invalid)
     \o Take(o.target)
     \o Check(o, "build", Geometry)
     \o BornReading("solid", {}, seen, FALSE)

RoutePoints(o) == Check(o, "points", Invalid)
WireRoute(o) ==
     Check(o, "params", Invalid)
  \o Slot(o, Unsupported) \o Check(o, "arity", Invalid)
  \o RoutePoints(o)
  \o Check(o, "bend", Geometry) \o Check(o, "build", Geometry)
  \o BornReading("solid", {o.picked}, 0, FALSE)

-----------------------------------------------------------------------------
\* Mold: others[1] is the parting line (the parting surface, for the split).
LineOf(o) == o.others[1]
Reading(ids) == {FirstVisible(id) : id \in ids}

\* FindOperationJson over the document, then the type of what it found.
PullDirection(line) ==
     Refuse(line \notin DOMAIN ops, Internal)
  \o Refuse(line \in DOMAIN ops /\ ops[line].type # "mold_parting_line", Invalid)
PullDirectionOfSurface(surface) ==
  IF surface \notin DOMAIN ops \/ ops[surface].type # "mold_parting_surface"
  THEN Refuse(TRUE, IF surface \in DOMAIN ops THEN Invalid ELSE Internal)
  ELSE PullDirection(LineOf(ops[surface]))

MoldPartingLine(o) ==
     Check(o, "params", Invalid)
  \o Required(o.target)
  \o Check(o, "loop", Geometry) \o Check(o, "build", Geometry)
  \o BornReading("wire", Reading({o.target}), 0, FALSE)

MoldShutoffSurface(o) ==
     Required(o.target) \o Required(LineOf(o))
  \o Check(o, "loop", Geometry) \o Check(o, "build", Geometry)
  \o Surface(Reading({o.target, LineOf(o)}))

MoldPartingSurface(o) ==
  LET line == FirstVisible(LineOf(o))
      shutoffs == {o.others[i] : i \in DOMAIN o.others \ {1}}
  IN Check(o, "params", Invalid)
     \o Required(LineOf(o))
     \o Refuse(line # 0 /\ bodies[line].kind # "wire", Invalid)
     \o Refuse(\E id \in shutoffs : FirstVisible(id) = 0, Missing)
     \o PullDirection(LineOf(o))
     \o Check(o, "build", Geometry)
     \o Surface(Reading({LineOf(o)} \cup shutoffs))

\* The split is born whole: inserts and cavity first, so that the operation's
\* id stands for output 0, the core.
MoldToolingSplit(o) ==
  LET read == {o.target} \cup {o.others[i] : i \in DOMAIN o.others}
  IN Check(o, "params", Invalid)
     \o Refuse(\E id \in read : FirstVisible(id) = 0, Missing)
     \o PullDirectionOfSurface(o.others[1])
     \o Check(o, "open part", Geometry) \o Check(o, "broken", Internal)
     \o Check(o, "count", Geometry)
     \o [i \in 1 .. 2 |-> [Body(2 - i, "solid", TRUE, FALSE) EXCEPT !.from = Reading(read)]]
================================================================================
