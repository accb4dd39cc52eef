------------------------------- MODULE Brep -------------------------------
(***************************************************************************)
(* The boundary representation of a body (src/c04/types.bend) and the      *)
(* topological stages of its validation (src/c04/ops.bend).                *)
(*                                                                         *)
(* A body b is seven stores and a root.  A store is a list that only       *)
(* grows; entry i carries the stamp gen it was pushed with, and a handle   *)
(* names an entry by index and stamp (indices count from 1 here).  A       *)
(* vertex is vs[i]; an edge of es joins v0 to v1; a coedge of ces uses an  *)
(* edge in one direction; a loop of lps is a list of coedges, a face of    *)
(* fas a list of loops, a shell of shs a list of faces, and a solid of sos *)
(* an outer shell with cavities.  Points, curves, surfaces and trims are   *)
(* left out: what is decided from them is an outcome of BrepCheck.         *)
(***************************************************************************)
EXTENDS Integers, Sequences, FiniteSets, Functions

StoreNames == {"vs", "es", "ces", "lps", "fas", "shs", "sos"}

Handle(store, i) == [i |-> i, g |-> store[i].gen]
Handles(store)   == {Handle(store, i) : i \in DOMAIN store}
Live(store, h)   == h.i \in DOMAIN store /\ store[h.i].gen = h.g
At(store, h)     == store[h.i]

HandleShape == [i : Nat, g : Nat]
Shaped(b) ==
  /\ b.es \in Seq([gen : Nat, v0 : HandleShape, v1 : HandleShape, degenerate : BOOLEAN])
  /\ b.ces \in Seq([gen : Nat, edge : HandleShape, fwd : BOOLEAN])
  /\ b.lps \in Seq([gen : Nat, ces : Seq(HandleShape), kind : {"outer", "inner"}])
  /\ b.shs \in Seq([gen : Nat, faces : Seq(HandleShape), kind : {"outer", "inner", "open"}])

AllLive(store, hs) == \A j \in DOMAIN hs : Live(store, hs[j])

Coedge(b, c)     == At(b.ces, c)
EdgeOf(b, c)     == At(b.es, Coedge(b, c).edge)
Start(b, c)      == IF Coedge(b, c).fwd THEN EdgeOf(b, c).v0 ELSE EdgeOf(b, c).v1
End(b, c)        == IF Coedge(b, c).fwd THEN EdgeOf(b, c).v1 ELSE EdgeOf(b, c).v0
Degenerate(b, c) == EdgeOf(b, c).degenerate

(***************************************************************************)
(* The longest list of the body, and the stores assembled afresh: every    *)
(* entry has the shape its constructor asks for and a stamp of its own.    *)
(***************************************************************************)
Lengths(b) ==
  {Len(b[s]) : s \in StoreNames} \cup {Len(b.top.solids), Len(b.top.shells)}
    \cup {Len(b.lps[i].ces) : i \in DOMAIN b.lps}
    \cup {Len(b.fas[i].loops) : i \in DOMAIN b.fas}
    \cup {Len(b.shs[i].faces) : i \in DOMAIN b.shs}
    \cup {Len(b.sos[i].cavities) : i \in DOMAIN b.sos}

Covers(fuel, b) == \A n \in Lengths(b) : n <= fuel

WellShaped(b) ==
  /\ \A i \in DOMAIN b.es  : b.es[i].degenerate => b.es[i].v0 = b.es[i].v1
  /\ \A i \in DOMAIN b.lps : b.lps[i].ces # <<>>
  /\ \A i \in DOMAIN b.fas : b.fas[i].loops # <<>>
  /\ \A i \in DOMAIN b.shs : b.shs[i].faces # <<>>

Stamped(b) ==
  \A s \in StoreNames :
    LET gens == [i \in DOMAIN b[s] |-> b[s][i].gen]
    IN  Range(gens) \subseteq 1..b.stamp /\ IsInjective(gens)

Assembles(b) == WellShaped(b) /\ Stamped(b)

(***************************************************************************)
(* B.  Every handle an entry or the root holds is live.                    *)
(***************************************************************************)
Incident(b) ==
  /\ \A i \in DOMAIN b.es  : Live(b.vs, b.es[i].v0) /\ Live(b.vs, b.es[i].v1)
  /\ \A i \in DOMAIN b.ces : Live(b.es, b.ces[i].edge)
  /\ \A i \in DOMAIN b.lps : AllLive(b.ces, b.lps[i].ces)
  /\ \A i \in DOMAIN b.fas : AllLive(b.lps, b.fas[i].loops)
  /\ \A i \in DOMAIN b.shs : AllLive(b.fas, b.shs[i].faces)
  /\ \A i \in DOMAIN b.sos : Live(b.shs, b.sos[i].outer) /\ AllLive(b.shs, b.sos[i].cavities)
  /\ AllLive(b.sos, b.top.solids) /\ AllLive(b.shs, b.top.shells)

(***************************************************************************)
(* C.  An edge has two opposite uses, or under the open profile one.  The  *)
(* uses are counted over the store, whoever holds them.                    *)
(***************************************************************************)
Uses(b, e) == {c \in Handles(b.ces) : Coedge(b, c).edge = e}

TwiceOpposite(b, e) ==
  Cardinality(Uses(b, e)) = 2 /\ {Coedge(b, c).fwd : c \in Uses(b, e)} = BOOLEAN

EdgesPaired(b, profile) ==
  \A e \in Handles(b.es) :
    TwiceOpposite(b, e) \/ (profile = "open" /\ Cardinality(Uses(b, e)) = 1)

(***************************************************************************)
(* D.  A loop is a closed chain of different coedges, uses an edge twice   *)
(* only as a seam, and holds a degenerate edge only alone.                 *)
(***************************************************************************)
Before(ces, j) == IF j = 1 THEN Len(ces) ELSE j - 1

Chained_Unwrapped(b, ces) ==
  \A j \in DOMAIN ces : j # 1 => End(b, ces[j - 1]) = Start(b, ces[j])
Chained(b, ces) == \A j \in DOMAIN ces : End(b, ces[Before(ces, j)]) = Start(b, ces[j])

Seamed(b, ces) ==
  \A j, k \in DOMAIN ces :
    j # k /\ Coedge(b, ces[j]).edge = Coedge(b, ces[k]).edge
      => Coedge(b, ces[j]).fwd # Coedge(b, ces[k]).fwd

PoleAlone(b, ces) == Len(ces) = 1 \/ \A j \in DOMAIN ces : ~Degenerate(b, ces[j])

LoopsClosed(b) ==
  \A i \in DOMAIN b.lps : LET ces == b.lps[i].ces IN
    Chained(b, ces) /\ IsInjective(ces) /\ Seamed(b, ces) /\ PoleAlone(b, ces)

(***************************************************************************)
(* E, F.  A face has one outer loop.  No member is listed twice, by one    *)
(* owner or by two; the shells of a solid are outer and inner.             *)
(***************************************************************************)
OneOuter(b) ==
  \A i \in DOMAIN b.fas : LET ls == b.fas[i].loops IN
    Cardinality({j \in DOMAIN ls : At(b.lps, ls[j]).kind = "outer"}) = 1

ListedOnce(lists) ==
  \A k, m \in DOMAIN lists : \A j \in DOMAIN lists[k], n \in DOMAIN lists[m] :
    lists[k][j] = lists[m][n] => k = m /\ j = n

ShellsOf(so) == <<so.outer>> \o so.cavities

Owned(b, profile) ==
  /\ ListedOnce([i \in DOMAIN b.fas |-> b.fas[i].loops])
  /\ ListedOnce([i \in DOMAIN b.shs |-> b.shs[i].faces])
  /\ profile = "solid" =>
       /\ ListedOnce(Append([i \in DOMAIN b.sos |-> ShellsOf(b.sos[i])], b.top.shells))
       /\ ListedOnce(<<b.top.solids>>)
       /\ \A i \in DOMAIN b.shs : b.shs[i].kind # "open"
       /\ \A i \in DOMAIN b.sos :
            /\ At(b.shs, b.sos[i].outer).kind = "outer"
            /\ \A j \in DOMAIN b.sos[i].cavities : At(b.shs, b.sos[i].cavities[j]).kind = "inner"

(***************************************************************************)
(* H.  Every coedge is in one loop.  Turn takes a coedge that leaves a     *)
(* vertex to the next one around it: the other use of the edge by which    *)
(* its loop arrived.                                                       *)
(***************************************************************************)
LoopsWith(b, c) == {l \in DOMAIN b.lps : c \in Range(b.lps[l].ces)}

Covered_AtLeastOnce(b) == \A c \in Handles(b.ces) : LoopsWith(b, c) # {}
Covered(b) == \A c \in Handles(b.ces) : Cardinality(LoopsWith(b, c)) = 1

Prev(b, c) ==
  LET ces == b.lps[CHOOSE l \in LoopsWith(b, c) : TRUE].ces
  IN  ces[Before(ces, CHOOSE j \in DOMAIN ces : ces[j] = c)]

Twin(b, c) == CHOOSE d \in Uses(b, Coedge(b, c).edge) : d # c

Turn(b) == [c \in Handles(b.ces) |-> Twin(b, Prev(b, c))]

(***************************************************************************)
(* The orbits of f as pointer jumping finds them: n steps, n no less than  *)
(* the points, land on the cycles, and the least index met is the label.   *)
(***************************************************************************)
Orbits(f) ==
  LET n == Cardinality(DOMAIN f)
      walk[k \in 0..n] == IF k = 0 THEN [c \in DOMAIN f |-> c]
                          ELSE [c \in DOMAIN f |-> f[walk[k - 1][c]]]
  IN [cyclic |-> Range(walk[n]),
      label  |-> [c \in DOMAIN f |->
                    LET met == {walk[k][c].i : k \in 0..n}
                    IN  CHOOSE m \in met : \A x \in met : m <= x]]

(***************************************************************************)
(* A vertex passes when the orbit of its first coedge closes and has as    *)
(* many coedges as leave the vertex, degenerate ones aside.                *)
(***************************************************************************)
Leaving(b, v) == {c \in Handles(b.ces) : Start(b, c) = v /\ ~Degenerate(b, c)}

Fan_Uncounted(b, v, f, orbits) ==
  \A c \in Leaving(b, v) : c \in orbits.cyclic
Fan(b, v, f, orbits) ==
  LET cs    == Leaving(b, v)
      first == CHOOSE c \in cs : \A d \in cs : c.i <= d.i
      along == {c \in orbits.cyclic : orbits.label[c] = orbits.label[first]
                                      /\ ~Degenerate(b, c)}
      steps == IF f[first] = first THEN 1
               ELSE 1 + Cardinality(along) - (IF Degenerate(b, f[first]) THEN 0 ELSE 1)
  IN  \/ cs = {}
      \/ (f[first] = first \/ first \in orbits.cyclic) /\ steps = Cardinality(cs)

VerticesLinked(b) ==
  /\ Covered(b)
  /\ LET f == Turn(b)  orbits == Orbits(f)
     IN  \A v \in Handles(b.vs) : Fan(b, v, f, orbits)

(***************************************************************************)
(* I.  The faces of a shell, by their place in its list.  For each edge,   *)
(* only places next to each other among the edge's are joined.  What is    *)
(* reached from the first place is what the rounds of components label     *)
(* like it (RoundsSettle in Components).                                   *)
(***************************************************************************)
EdgesOfFace(b, f) ==
  {Coedge(b, c).edge : c \in UNION {Range(At(b.lps, l).ces) : l \in Range(At(b.fas, f).loops)}}

Joined(b, fs, p, q) ==
  \E e \in EdgesOfFace(b, fs[p]) \cap EdgesOfFace(b, fs[q]) :
    \A r \in DOMAIN fs : (p < r /\ r < q) \/ (q < r /\ r < p) => e \notin EdgesOfFace(b, fs[r])

ShellConnected_OneStep(b, fs) ==
  \A q \in DOMAIN fs : q = 1 \/ Joined(b, fs, 1, q)
ShellConnected(b, fs) ==
  LET reached[k \in 0..Len(fs)] ==
        IF k = 0 THEN {1}
        ELSE {q \in DOMAIN fs : \E p \in reached[k - 1] : p = q \/ Joined(b, fs, p, q)}
  IN  IsInjective(fs) /\ reached[Len(fs)] = DOMAIN fs

ShellsConnected(b) == \A i \in DOMAIN b.shs : ShellConnected(b, b.shs[i].faces)
=============================================================================
