------------------------------ MODULE MCOperations ------------------------------
(***************************************************************************)
(* Documents of up to three operations over every operation type, each with *)
(* its optional parts and its faults, in families: births, joins of a fresh *)
(* tool, changes of a body, copies, and the longer chains of sheet metal,   *)
(* surfacing and mold tooling.  The order of the reads and the takes of a   *)
(* handler only shows on an operation id with several bodies, so every      *)
(* family has an operation that bears two.                                  *)
(***************************************************************************)
EXTENDS Operations

Template(type, form, needs, others, fault) ==
  [type |-> type, form |-> form, targets |-> "target" \in needs,
   profiles |-> "profile" \in needs, picks |-> "pick" \in needs,
   others |-> others, fault |-> fault]

\* An operation type: its forms, and the faults that stop it.
Kind(type, forms, needs, others, faults) ==
  {Template(type, form, needs, others, "none") : form \in forms}
  \cup {Template(type, form, needs, others, fault) : form \in forms, fault \in faults}

Plain == {{}}
Boxes == Kind("create_box", Plain, {}, 0, {"params", "broken"})
Box == Kind("create_box", Plain, {}, 0, {})
Profile == Kind("create_profile", Plain, {}, 0, {"params"})
SeveralSolids == Kind("import_step", {{"several"}}, {}, 0, {})

Primitives ==
  Boxes \cup Kind("create_cone", Plain, {}, 0, {"equal radii"})
  \cup UNION {Kind(t, Plain, {}, 0, {"params"}) :
              t \in {"create_cylinder", "create_sphere", "create_torus", "create_wedge"}}

Sketches == Kind("sketch", {{"closed"}, {"open"}, {}}, {}, 0,
                 {"not a plane", "degenerate", "boundary"})
            \cup Kind("sketch", {{"onFace", "closed"}}, {"pick"}, 0, {"arity", "not planar"})

Births ==
  Primitives \cup Sketches \cup Profile
  \cup Kind("extrude", {{}, {"v2"}, {"v2", "thin"}, {"v2", "regions"}, {"v2", "taper"}},
            {"profile"}, 0, {"params", "band", "region", "hollow", "broken"})
  \cup Kind("base_flange", Plain, {"profile"}, 0, {"broken"})
  \cup Kind("revolve", {{}, {"v2"}, {"v2", "thin"}}, {"profile"}, 0,
            {"build", "self intersection"})
  \cup Kind("sweep", {{}}, {"profile"}, 0, {"build"})
  \cup Kind("import_step", {{"several"}, {}}, {}, 0, {"digest", "base64", "read", "tie"})
  \cup Kind("import_mesh", Plain, {}, 0, {"mesh"})

Lofts == Profile \cup Kind("loft", Plain, {}, 2, {"coplanar"})

Joined ==
  Box \cup Profile \cup SeveralSolids
  \cup Kind("extrude", {{"v2", "join"}, {"v2", "cut"}}, {"profile", "target"}, 0, {"no contact"})
  \cup Kind("extrude", {{"v2", "face", "toFace"}, {"v2", "face", "join"},
                        {"v2", "face", "throughAll", "taper"}, {"v2", "startObject", "face"}},
            {"target", "pick"}, 0, {"not planar", "behind"})
  \cup Kind("revolve", {{"v2", "face", "axisRef"}, {"v2", "face", "join"}}, {"target", "pick"}, 0,
            {"two axes"})
  \cup Kind("sweep", {{"v2"}, {"v2", "guide"}, {"v2", "join"}, {"v2", "toReference"}},
            {"profile", "target", "pick"}, 0, {"not connected", "closed path", "guide"})

Changed ==
  Box \cup SeveralSolids
  \cup Kind("boolean_combine", {{}, {"cut"}}, {"target"}, 1, {"no contact", "boolean"})
  \cup Kind("hole", Plain, {"target"}, 0, {"depth"})
  \cup Kind("transform", Plain, {"target"}, 0, {"build"})
  \cup Kind("offset", {{}}, {"target"}, 0, {"build"})
  \cup Kind("offset", {{"face"}}, {"target", "pick"}, 0, {"curved"})
  \cup Kind("fillet", {{}}, {"target"}, 0, {"build"})
  \cup Kind("chamfer", {{"edges"}}, {"target", "pick"}, 0, {"ambiguous"})
  \cup Kind("shell", {{}}, {"target"}, 0, {"params"})
  \cup Kind("shell", {{"openFaces"}}, {"target", "pick"}, 0, {"all faces"})

Copies ==
  Box \cup SeveralSolids
  \cup Kind("mirror", {{"plane"}, {"plane", "merge"}}, {"target", "pick"}, 0, {"not planar"})
  \cup Kind("mirror", {{}, {"merge"}}, {"target"}, 0, {"pieces"})
  \cup Kind("pattern_linear", {{}, {"consumeSeed"}, {"single"}}, {"target"}, 0, {"counts"})
  \cup Kind("pattern_linear", {{"union"}, {"subtract", "consumeSeed"}}, {"target"}, 1, {"pieces"})
  \cup Kind("pattern_circular", {{"fixed", "consumeSeed"}}, {"target", "pick"}, 0, {"not an axis"})
  \cup Kind("datum_plane", Plain, {"pick"}, 0, {"datum"})
  \cup Kind("datum_axis", Plain, {"pick"}, 0, {"position"})

Sheets ==
  Profile \cup Kind("base_flange", Plain, {"profile"}, 0, {})
  \cup Kind("edge_flange", Plain, {"target", "pick"}, 0, {"build"})
  \cup Kind("unfold", Plain, {"target"}, 0, {"bends"})
  \cup Kind("pattern_linear", {{"consumeSeed"}}, {"target"}, 0, {})

Surfaces ==
  Box
  \cup Kind("boundary_surface", Plain, {"target"}, 0, {"loop"})
  \cup Kind("surface_offset", Plain, {"target"}, 0, {"params"})
  \cup Kind("stitch", {{}, {"closed"}}, {"target"}, 1, {"sewing"})
  \cup Kind("thicken", Plain, {"target"}, 0, {"build"})
  \cup Kind("wire_route", Plain, {"pick"}, 0, {"points", "bend"})
  \cup Kind("fillet", {{"edges"}}, {"target", "pick"}, 0, {})

Molds ==
  Box
  \cup Kind("mold_parting_line", Plain, {"target"}, 0, {"loop"})
  \cup Kind("mold_shutoff_surface", Plain, {"target"}, 1, {})
  \cup Kind("mold_parting_surface", Plain, {}, 1, {"build"})
  \cup Kind("mold_parting_surface", Plain, {}, 2, {})
  \cup Kind("mold_tooling_split", Plain, {"target"}, 1, {"open part", "count"})
  \cup Kind("transform", Plain, {"target"}, 0, {})

MCDocuments ==
  {[of |-> Births, length |-> 2], [of |-> Lofts, length |-> 3],
   [of |-> Joined, length |-> 3], [of |-> Changed, length |-> 3],
   [of |-> Copies, length |-> 3], [of |-> Sheets, length |-> 5],
   [of |-> Surfaces, length |-> 4], [of |-> Molds, length |-> 5]}

MCSeveralBodies == {[of |-> Copies, length |-> 2]}
=================================================================================
