-------------------------------- MODULE SolidOps --------------------------------
(***************************************************************************)
(* The handlers that build a body from numbers, sketches and profiles:      *)
(* primitives, sketches and profiles, extrude, revolve, loft, sweep and the *)
(* imports.  An operation is a record                                       *)
(*   [type, form, profile, target, others, picked, fault]                   *)
(* form: the optional parts present (a set of names); profile, target: the  *)
(* operation ids it refers to; others: more of them; picked: the body its   *)
(* reference slot resolves on; fault: the check its data fails, or "none".  *)
(***************************************************************************)
EXTENDS BodyPool, SequencesExt

\* Root births: the body is named as a primitive, harvested, then produced.
Primitive(o) ==
     Check(o, "params", Invalid)
  \o Check(o, "broken", Internal)
  \o Born("solid")

CreateBox(o) == Primitive(o)
CreateCylinder(o) == Primitive(o)
CreateSphere(o) == Primitive(o)
CreateCone(o) == Refuse(o.fault = "equal radii", Invalid) \o Primitive(o)
CreateTorus(o) == Primitive(o)
CreateWedge(o) == Primitive(o)

CreateProfile(o) ==
     Check(o, "params", Invalid)
  \o Check(o, "broken", Internal)
  \o Leave("profile")

\* A sketch leaves a profile when its boundary closes, else an open path when
\* its boundary is one connected chain, else nothing.  The frame of a sketch on
\* a face and its edges need the registry only when they refer to a body.
SketchFrame(o) ==
  IF Has(o, "onFace")
  THEN Slot(o, Unsupported) \o Check(o, "arity", Invalid) \o Check(o, "not planar", Invalid)
  ELSE Check(o, "not a plane", Invalid)
SketchConstructionEdges(o) ==
  When(channel = "registry", Check(o, "degenerate", Invalid))
SketchBoundaryEdges(o) ==
  When(channel = "registry", Check(o, "boundary", Invalid))
Sketch(o) ==
     SketchFrame(o) \o SketchConstructionEdges(o) \o SketchBoundaryEdges(o)
  \o Check(o, "params", Invalid)
  \o CASE Has(o, "closed") -> Leave("profile")
       [] Has(o, "open") -> Leave("path")
       [] OTHER -> << >>

-----------------------------------------------------------------------------
\* Boolean of a fresh tool with a consumed target, shared by extrude, revolve
\* and sweep: the tool borrows the names it shares with its source, and the
\* result is attributed to the target and the tool.
ToolBoolean(o, noContact, badMode) ==
     Take(o.target)
  \o When(Has(o, "cut"), Check(o, "no contact", noContact))
  \o Check(o, "mode", badMode)
  \o Check(o, "boolean", Geometry)
  \o Attribute({o.target})
  \o Born("solid")

Joins(o) == o.form \cap {"join", "cut", "intersect"} # {}

\* The section of an extrusion: a planar face of a body, a profile or some of
\* its regions, or the band along an open path when a thickness is given.
FaceSection(o, wrongKind) ==
  Slot(o, Invalid) \o Check(o, "arity", Invalid) \o Check(o, "not planar", wrongKind)
ProfileSection(o, noThin) ==
  IF o.profile \in profiles
  THEN When(Has(o, "regions"), Check(o, "region", Missing) \o Check(o, "no region", Invalid))
  ELSE When(o.profile \in paths,
            Refuse(~ Has(o, "thin"), noThin) \o Check(o, "band", "THIN_FAILED"))
       \o Refuse(o.profile \notin paths, Missing)

ExtrudeV1(o) ==
     Check(o, "params", Invalid)
  \o Refuse(o.profile \notin profiles, Missing)
  \o Check(o, "broken", Internal)
  \o Born("solid")

ExtrudeStart(o) ==
  When(Has(o, "startObject"),
       Slot(o, Invalid) \o Check(o, "arity", Invalid) \o Check(o, "not parallel", Invalid))

ExtrudeExtent(o) ==
     When(Has(o, "throughAll"), Refuse(Visible = {}, Invalid) \o Check(o, "nothing ahead", Invalid))
  \o When(Has(o, "toFace"),
          Slot(o, Invalid) \o Check(o, "arity", Invalid) \o Check(o, "behind", Invalid))
  \o Check(o, "zero distance", Invalid)

ExtrudeShape(o) ==
     Refuse(Has(o, "taper") /\ (Has(o, "throughAll") \/ Has(o, "toFace")), Invalid)
  \o Check(o, "broken", Internal)
  \o When(Has(o, "taper"), Check(o, "taper", Geometry))
  \o When(Has(o, "thin") /\ (Has(o, "face") \/ o.profile \in profiles),
          Check(o, "hollow", "THIN_FAILED"))

ExtrudeV2(o) ==
     Check(o, "params", Invalid)
  \o (IF Has(o, "face") THEN FaceSection(o, Invalid) ELSE ProfileSection(o, Invalid))
  \o ExtrudeStart(o) \o ExtrudeExtent(o) \o ExtrudeShape(o)
  \o (IF Joins(o) THEN ToolBoolean(o, Geometry, Invalid) ELSE Born("solid"))

Extrude(o) == IF Has(o, "v2") THEN ExtrudeV2(o) ELSE ExtrudeV1(o)

BaseFlange(o) == ExtrudeV1(o)

RevolveV1(o) ==
     Check(o, "params", Invalid)
  \o Refuse(o.profile \notin profiles, Missing)
  \o Check(o, "axis", Invalid)
  \o Check(o, "build", Geometry)
  \o Born("solid")

\* A world axis needs no registry; an edge or a face does, and two distinct
\* lines through the entities it resolves are refused rather than ordered.
RevolveAxis(o) ==
     When(Has(o, "axisRef"),
            Slot(o, Unsupported) \o Check(o, "not an axis", WrongKind)
         \o Check(o, "two axes", Ambiguous) \o Check(o, "no axis", Missing))
  \o Check(o, "axis source", Invalid)

RevolveV2(o) ==
     (IF Has(o, "face")
      THEN Refuse(Has(o, "thin"), Invalid) \o FaceSection(o, WrongKind)
      ELSE Refuse(o.profile \in profiles /\ Has(o, "thin"), Invalid)
           \o ProfileSection(o, Invalid))
  \o Check(o, "degenerate", Invalid)
  \o RevolveAxis(o)
  \o Check(o, "params", Invalid)
  \o Check(o, "build", Geometry)
  \o Check(o, "self intersection", "SELF_INTERSECTION")
  \o (IF Joins(o) THEN ToolBoolean(o, "NO_CONTACT", Invalid) ELSE Born("solid"))

Revolve(o) == IF Has(o, "v2") THEN RevolveV2(o) ELSE RevolveV1(o)

Loft(o) ==
     Refuse(Len(o.others) < 2, Invalid)
  \o Refuse(\E i \in DOMAIN o.others : o.others[i] \notin profiles, Missing)
  \o Check(o, "coplanar", Geometry)
  \o Check(o, "build", Geometry)
  \o Born("solid")

-----------------------------------------------------------------------------
SweepPath(o) ==
     Slot(o, Invalid)
  \o Check(o, "arity", Invalid)
  \o Check(o, "not connected", Invalid)
SweepTangent(o) == Check(o, "tangent", Invalid)
SweepLimit(o) == Check(o, "extent", Invalid) \o Check(o, "trim", Geometry)
SweepLimitToReference(o) ==
  When(Has(o, "toReference"),
       Slot(o, Invalid) \o Check(o, "no crossing", Invalid) \o Check(o, "trim", Geometry))
SweepControls(o) ==
  When(Has(o, "taper"), Check(o, "controls", Invalid) \o Check(o, "controlled", Geometry))
SweepGuides(o) ==
  When(Has(o, "guide"), Slot(o, Invalid) \o Check(o, "guide", Invalid))

SweepSection(o) ==
  IF Has(o, "face") THEN FaceSection(o, WrongKind)
  ELSE Refuse(o.profile \notin profiles, Missing)
       \o When(Has(o, "regions"), Check(o, "no region", Invalid) \o Check(o, "region", Missing))

SweepSpine(o) ==
  Check(o, "params", Invalid) \o Check(o, "spine", Geometry) \o Check(o, "off plane", Invalid)

SweepV2(o) ==
     Refuse(Has(o, "guide") /\ Has(o, "guideSurface"), Invalid)
  \o SweepSection(o)
  \o SweepPath(o)
  \o (IF Has(o, "toReference") THEN SweepLimitToReference(o) ELSE SweepLimit(o))
  \o SweepSpine(o) \o SweepTangent(o) \o SweepControls(o)
  \o SweepGuides(o)
  \o Check(o, "build", Geometry)

SweepV1(o) ==
     Refuse(o.profile \notin profiles, Missing)
  \o Check(o, "params", Invalid)
  \o Check(o, "build", Geometry)

\* The root naming of a sweep finds its boundaries again: a closed path has
\* none, which only shows when the registry asks.
SweepBirthSpec(o) == When(channel = "registry", Check(o, "closed path", Invalid))

Sweep(o) ==
  IF ~ Has(o, "v2") THEN SweepV1(o) \o Born("solid")
  ELSE IF Joins(o) THEN SweepV2(o) \o ToolBoolean(o, Geometry, Invalid)
  ELSE SweepV2(o) \o SweepBirthSpec(o) \o Born("solid")

-----------------------------------------------------------------------------
\* Imports: retained bytes are checked against their digest, then rebuilt.  A
\* STEP import may declare several solids; they are born in birth order, so the
\* operation's id ends on the last of them.
ImportBytes(o) == Check(o, "base64", Geometry) \o Check(o, "digest", Invalid)
ImportMeshShape(o) == Check(o, "mesh", Geometry) \o Check(o, "sewing", Geometry)
ImportMesh(o) == ImportBytes(o) \o ImportMeshShape(o) \o Born("solid")

ImportStepShape(o) == Check(o, "read", Geometry)
ImportStepBodies(o) ==
  Check(o, "count", Geometry) \o Check(o, "tie", Geometry)
ImportStep(o) ==
     ImportBytes(o) \o ImportStepShape(o)
  \o (IF Has(o, "several")
      THEN ImportStepBodies(o) \o <<Body(0, "solid", TRUE, TRUE), Body(1, "solid", TRUE, TRUE)>>
      ELSE Born("solid"))
===============================================================================
