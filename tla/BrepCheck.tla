----------------------------- MODULE BrepCheck -----------------------------
(***************************************************************************)
(* The validator of the boundary representation (brep_checked in           *)
(* src/c04/ops.bend): twelve stages in a fixed order, the first that fails *)
(* refuses the body.  A body is checked under one of two profiles and with *)
(* a fuel that must cover its longest list.                                *)
(*                                                                         *)
(* The stages on lists and incidence are decided as the code decides them  *)
(* (Brep); what coordinates decide - knots, the validity of points, curves *)
(* and surfaces, trims, embedding, coincidence, crossings, orientation -   *)
(* may turn out either way.                                                *)
(***************************************************************************)
EXTENDS Brep

CONSTANTS
  Bodies,  \* the bodies that are checked
  Fuels    \* the fuels they are checked with

ASSUME BodiesAssumption == \A x \in Bodies : Shaped(x)
ASSUME FuelsAssumption  == Fuels \subseteq Nat

VARIABLES
  b,        \* the body
  profile,  \* "solid" or "open"
  fuel,
  stage,    \* the stage to decide next, or the one that refused
  result    \* "none" so far, "ok", "invalid" or "exhausted"

vars == <<b, profile, fuel, stage, result>>

Stages == <<"bound", "assemble", "incidence", "uses", "loops", "kinds", "owners",
            "embedding", "links", "connection", "coincidence", "crossings", "orientation">>
Past(s) == {Stages[i] : i \in {k \in DOMAIN Stages : \E j \in 1..(k - 1) : Stages[j] = s}}

Init ==
  /\ b \in Bodies
  /\ profile \in {"solid", "open"}
  /\ fuel \in Fuels
  /\ stage = "bound"
  /\ result = "none"

Decide(at, ok, failure, next) ==
  /\ stage = at /\ result = "none"
  /\ IF ok THEN stage' = next /\ result' = result
           ELSE stage' = stage /\ result' = failure
  /\ UNCHANGED <<b, profile, fuel>>

\* The fuel must also cover what the B-spline curves need (es_nbmax).
Bound      == \E knotsCovered \in BOOLEAN :
                Decide("bound", Covers(fuel, b) /\ knotsCovered, "exhausted", "assemble")
\* The points, curves, surfaces and trims must be valid too (vx_valid .. fa_valid).
Assemble_Exhausted == \E geometric \in BOOLEAN :
                Decide("assemble", Assembles(b) /\ geometric, "exhausted", "incidence")
Assemble   == \E geometric \in BOOLEAN :
                Decide("assemble", Assembles(b) /\ geometric, "invalid", "incidence")
Incidence  == Decide("incidence", Incident(b), "invalid", "uses")
EdgeUses   == Decide("uses", EdgesPaired(b, profile), "invalid", "loops")
Loops      == \E trimsMeet \in BOOLEAN :
                Decide("loops", LoopsClosed(b) /\ trimsMeet, "invalid", "kinds")
FaceKinds  == Decide("kinds", OneOuter(b), "invalid", "owners")
Ownership  == Decide("owners", Owned(b, profile), "invalid", "embedding")
Embedding  == \E embedded \in BOOLEAN : Decide("embedding", embedded, "invalid", "links")
Links      == Decide("links", profile = "open" \/ VerticesLinked(b), "invalid", "connection")
Connection == Decide("connection", ShellsConnected(b), "invalid", "coincidence")
Coincidence == \E apart \in BOOLEAN : Decide("coincidence", apart, "invalid", "crossings")
Crossings  == \E clear \in BOOLEAN : Decide("crossings", clear, "invalid", "orientation")

(* The last stage answers with the body. *)
Orientation ==
  /\ stage = "orientation" /\ result = "none"
  /\ \E oriented \in BOOLEAN : result' = IF oriented THEN "ok" ELSE "invalid"
  /\ UNCHANGED <<b, profile, fuel, stage>>

Next ==
  \/ Bound \/ Assemble \/ Incidence \/ EdgeUses \/ Loops \/ FaceKinds \/ Ownership
  \/ Embedding \/ Links \/ Connection \/ Coincidence \/ Crossings \/ Orientation

Spec == Init /\ [][Next]_vars

-----------------------------------------------------------------------------
(***************************************************************************)
(* What the stages are to establish, said without their algorithms.        *)
(*                                                                         *)
(* A graph given by its nodes and a relation is in one piece when no part  *)
(* of it is cut off from the rest.                                         *)
(***************************************************************************)
OnePiece(nodes, Meet(_, _)) ==
  \A part \in SUBSET nodes :
    part = {} \/ part = nodes \/ \E x \in part, y \in nodes \ part : Meet(x, y)

(***************************************************************************)
(* A corner is a place in a loop: the loop arrives by one end of an edge   *)
(* and leaves by another.  The link of a vertex has the ends of edges      *)
(* there for nodes and the corners there for arcs.                         *)
(***************************************************************************)
Corners(v) ==
  UNION {{<<l, j>> : j \in {k \in DOMAIN b.lps[l].ces :
                              LET c == b.lps[l].ces[k] IN Start(b, c) = v /\ ~Degenerate(b, c)}} :
           l \in DOMAIN b.lps}

LeavesBy(k) ==
  LET c == Coedge(b, b.lps[k[1]].ces[k[2]]) IN <<c.edge, c.fwd>>
ArrivesBy(k) ==
  LET ces == b.lps[k[1]].ces
      c   == Coedge(b, ces[Before(ces, k[2])])
  IN  <<c.edge, ~c.fwd>>

LinkIsCycle(v) ==
  LET ks   == Corners(v)
      ends == {LeavesBy(k) : k \in ks} \cup {ArrivesBy(k) : k \in ks}
      Touch(k, m) == {LeavesBy(k), ArrivesBy(k)} \cap {LeavesBy(m), ArrivesBy(m)} # {}
  IN  /\ \A x \in ends : Cardinality({k \in ks : LeavesBy(k) = x})
                          + Cardinality({k \in ks : ArrivesBy(k) = x}) = 2
      /\ OnePiece(ks, Touch)

LinksAreCycles == Covered(b) /\ \A v \in Handles(b.vs) : LinkIsCycle(v)

(* The faces of a shell, in one piece across shared edges. *)
InOnePiece(fs) ==
  LET Share(f, g) == EdgesOfFace(b, f) \cap EdgesOfFace(b, g) # {}
  IN  OnePiece(Range(fs), Share)

-----------------------------------------------------------------------------
(***************************************************************************)
(* Only the fuel can exhaust a check, before any stage is decided          *)
(* (ck_done), and only the last stage accepts.                             *)
(***************************************************************************)
TypeOK ==
  /\ profile \in {"solid", "open"} /\ fuel \in Fuels
  /\ stage \in Range(Stages)
  /\ result \in {"none", "ok", "invalid", "exhausted"}
  /\ result = "exhausted" => stage = "bound"
  /\ result = "ok" => stage = "orientation"

(***************************************************************************)
(* The vertex stage finds the vertices whose link is not one cycle, and    *)
(* nothing else: the orbit of one coedge, its length summed over a label   *)
(* found by pointer jumping (orb_of, vx_orbit_ok), decides the shape of    *)
(* the whole link.                                                         *)
(***************************************************************************)
LinkVerdict ==
  profile = "solid" =>
    /\ stage \in Past("links") => LinksAreCycles
    /\ stage = "links" /\ result = "invalid" => ~LinksAreCycles

(***************************************************************************)
(* The shell stage finds the shells that fall apart, and nothing else,     *)
(* although it joins only neighbours in the sorted list of edges           *)
(* (ep_edges, sh_conn_ok).                                                 *)
(***************************************************************************)
ShellVerdict ==
  LET whole == \A i \in DOMAIN b.shs : InOnePiece(b.shs[i].faces) IN
    /\ stage \in Past("connection") => whole
    /\ stage = "connection" /\ result = "invalid" => ~whole

(***************************************************************************)
(* The loops of an accepted solid, each capped by a disc, are a closed     *)
(* surface with two sides, so V - E + L is even.  No stage counts anything *)
(* of the kind (docs/c04-contract.md section 4); pairing, chaining,        *)
(* coverage and links must give it together.  Poles are left aside.        *)
(***************************************************************************)
EulerEven ==
  result = "ok" /\ profile = "solid" =>
    LET v == Cardinality({x \in Handles(b.vs) : Corners(x) # {}})
        e == Cardinality({i \in DOMAIN b.es : ~b.es[i].degenerate})
        l == Cardinality({i \in DOMAIN b.lps :
                            \E c \in Range(b.lps[i].ces) : ~Degenerate(b, c)})
    IN  (v + e + l) % 2 = 0

(***************************************************************************)
(* The rim of an accepted open body closes up: as many of its coedges      *)
(* leave a vertex as arrive there.  The open profile asks only that a loop *)
(* closes and an edge has one use or two opposite ones (use_rule_ok), and  *)
(* not that every coedge is in a loop: that is a premise here.             *)
(***************************************************************************)
Rim(x) == {c \in Handles(x.ces) : Cardinality(Uses(x, Coedge(x, c).edge)) = 1}
RimBalanced(x) ==
  \A v \in Handles(x.vs) :
    Cardinality({c \in Rim(x) : Start(x, c) = v}) = Cardinality({c \in Rim(x) : End(x, c) = v})
RimCloses ==
  result = "ok" /\ profile = "open" /\ Covered(b) => RimBalanced(b)
=============================================================================
