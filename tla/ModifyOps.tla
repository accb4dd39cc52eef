-------------------------------- MODULE ModifyOps --------------------------------
(***************************************************************************)
(* The handlers that change or copy a body that is already there: boolean,  *)
(* hole, transform, offset, fillet, chamfer, shell, mirror, the patterns    *)
(* and the datum operations.  Each consumes its target by operation id;     *)
(* those with a reference slot resolve it on the visible bodies first.      *)
(***************************************************************************)
EXTENDS SolidOps

BooleanCombine(o) ==
     Check(o, "params", Invalid)
  \o Take(o.target) \o Take(o.others[1])
  \o When(Has(o, "cut"), Check(o, "no contact", Geometry))
  \o Check(o, "boolean", Geometry)
  \o Attribute({o.target, o.others[1]})
  \o Born("solid")

HoleTool(o) == Check(o, "entry", Invalid) \o Check(o, "depth", Invalid) \o Check(o, "broken", Internal)
Hole(o) ==
     Check(o, "params", Invalid)
  \o Take(o.target)
  \o HoleTool(o)
  \o Check(o, "boolean", Geometry)
  \o Attribute({o.target})
  \o Born("solid")

Transform(o) ==
     Check(o, "params", Invalid)
  \o Take(o.target)
  \o Check(o, "build", Geometry)
  \o Attribute({o.target})
  \o Born("solid")

\* The face of a push must lie on the target: the guard runs over every visible
\* body of the target's operation, so with two of them one always disagrees.
LocalFaceOffset(o) ==
     Check(o, "curved", Geometry)
  \o Take(o.target)
  \o Check(o, "build", Geometry)
  \o Attribute({o.target})
  \o Born("solid")

Offset(o) ==
     Check(o, "params", Invalid)
  \o (IF Has(o, "face")
      THEN Slot(o, Unsupported)
           \o Check(o, "arity", Invalid)
           \o Refuse(\E b \in Visible : bodies[b].op = o.target /\ b # o.picked, Geometry)
           \o LocalFaceOffset(o)
      ELSE Refuse(channel # "none", Unsupported)
           \o Take(o.target)
           \o Check(o, "build", Geometry)
           \o Born("solid"))

\* The picked entity must lie on the first visible body of the target's
\* operation; Take then consumes the body the operation id stands for.
OnFirstBody(o, code) ==
  LET first == FirstVisible(o.target)
  IN Refuse(first # 0 /\ o.picked # first, code)

\* A sub-shape of one body is no sub-shape of another: the builder fails.
Foreign(o) ==
  Refuse(o.target \in DOMAIN available /\ o.picked # available[o.target], Geometry)

EdgeSlot(o) ==
     Slot(o, Unsupported)
  \o Check(o, "arity", Invalid)
  \o OnFirstBody(o, Invalid)

Fillet(o) ==
     Check(o, "params", Invalid)
  \o When(Has(o, "edges"), EdgeSlot(o))
  \o Take(o.target)
  \o (IF Has(o, "edges") THEN Foreign(o) ELSE Check(o, "no edges", Invalid))
  \o Check(o, "build", Geometry)
  \o Attribute({o.target})
  \o Born("solid")

Chamfer(o) == Fillet(o)

\* Closed shells cut an offset copy out of the target; open ones thicken it.
OpenShell(o) ==
     Check(o, "all faces", Invalid)
  \o Foreign(o)
  \o Check(o, "build", Geometry)
  \o Check(o, "broken", Internal)
ClosedShell(o) == Check(o, "build", Geometry) \o Check(o, "broken", Internal)
Shell(o) ==
     Check(o, "params", Invalid)
  \o When(Has(o, "openFaces"), EdgeSlot(o))
  \o Take(o.target)
  \o (IF Has(o, "openFaces") THEN OpenShell(o) ELSE ClosedShell(o))
  \o Attribute({o.target})
  \o Born("solid")

-----------------------------------------------------------------------------
\* mirror: the merged form consumes its source, the other copies the first
\* visible body of the source's operation and leaves it.
MirrorPlane(o) ==
     Refuse(channel # "registry", Unsupported)
  \o (IF Has(o, "plane")
      THEN Slot(o, Unsupported) \o Check(o, "arity", Invalid) \o Check(o, "not planar", Invalid)
      ELSE Check(o, "not a plane", Invalid))
Mirror(o) ==
  LET source == FirstVisible(o.target)
  IN MirrorPlane(o)
     \o (IF Has(o, "merge")
         THEN Take(o.target)
              \o Check(o, "build", Geometry) \o Check(o, "pieces", Geometry)
              \o Attribute({o.target}) \o Born("solid")
         ELSE Refuse(source = 0, Missing)
              \o Check(o, "build", Geometry)
              \o CopyFrom({source})
              \o BornReading("solid", {source}, 0, TRUE))

\* Patterns: the seed is the first visible body of its operation, read before
\* anything is consumed.  Its id is consumed too when consumeSeed is set, and the
\* harvest then retires the records of the body that was read.  A lone instance is
\* harvested as a fresh body, from no source.
PatternCore(o) ==
  LET seed == FirstVisible(o.target)
      target == o.form \cap {"union", "subtract"} # {}
      alone == Has(o, "single") /\ ~ target
  IN Check(o, "params", Invalid)
     \o Refuse(seed = 0, Missing)
     \o When(target, Take(o.others[1]))
     \o When(Has(o, "consumeSeed"), Take(o.target))
     \o Refuse(seed # 0 /\ bodies[seed].kind # "solid", Geometry)
     \o Check(o, "build", Geometry) \o Check(o, "pieces", Geometry)
     \o When(~ alone, AttributeWith({o.others[i] : i \in DOMAIN o.others},
                                   IF Has(o, "consumeSeed") THEN {seed} ELSE {}))
     \o BornReading("solid", {seed}, IF Has(o, "consumeSeed") THEN seed ELSE 0, TRUE)

PatternLinear(o) ==
     Check(o, "counts", Invalid) \o Check(o, "axes", Invalid)
  \o PatternCore(o)

PatternCircular(o) ==
     Check(o, "counts", Invalid)
  \o Slot(o, Unsupported)
  \o Check(o, "arity", Invalid)
  \o Check(o, "not an axis", Invalid)
  \o Refuse(Has(o, "fixed") /\ FirstVisible(o.target) = 0, Missing)
  \o PatternCore(o)

-----------------------------------------------------------------------------
\* Datum operations leave no body: one synthetic record of the registry.
PlaneFrame(o) ==
     Slot(o, Unsupported) \o Check(o, "arity", Invalid)
  \o Check(o, "datum", Invalid)
AxisFrame(o) ==
     Check(o, "position", Invalid)
  \o Slot(o, Unsupported) \o Check(o, "arity", Invalid)
  \o Check(o, "datum", Invalid)

DatumPlane(o) ==
  Refuse(channel # "registry", Unsupported) \o PlaneFrame(o) \o Check(o, "mode", Invalid)
  \o Check(o, "broken", Internal)
DatumAxis(o) ==
  Refuse(channel # "registry", Unsupported) \o AxisFrame(o) \o Check(o, "mode", Invalid)
  \o Check(o, "broken", Internal)
===============================================================================
