---------------------------- MODULE MCEvaluator ----------------------------
(***************************************************************************)
(* Designs for TLC: two bodies and what is made of them, edited one thing  *)
(* at a time, with every way a node can fail.                              *)
(***************************************************************************)
EXTENDS FaithfulDesigns

Lit(v) == [par |-> 0, v |-> v]
Par(p) == [par |-> p, v |-> 0]

Node(id, k, a, b, x, it) ==
  [id |-> id, it |-> it, op |-> [k |-> k, a |-> a, b |-> b, x |-> x, s |-> <<>>]]

Block(x)   == Node(1, "box", 0, 0, x, "create")
Raised(x)  == Node(2, "pad", 1, 0, x, "add")
Cut(x)     == Node(2, "pocket", 1, 0, x, "remove")
Shift(x)   == Node(4, "move", 3, 0, x, "same")
Both       == Node(3, "union", 1, 2, Lit(0), "add")
Rest       == Node(3, "difference", 2, 1, Lit(0), "remove")
Common     == Node(3, "intersection", 2, 1, Lit(0), "remove")
Part(p)    == Node(2, "import", 0, 0, Lit(p), "create")
Foil       == Node(5, "naca4", 0, 0, Par(1), "create")

One(v) == <<[id |-> 1, v |-> v]>>
D(v, ns) == [ps |-> One(v), ns |-> ns]

MCDesigns == {
  D(2, <<Block(Par(1)), Raised(Lit(1)), Both, Shift(Lit(1))>>),
  D(3, <<Block(Par(1)), Raised(Lit(1)), Both, Shift(Lit(1))>>),
  D(3, <<Block(Par(1)), Raised(Par(1)), Rest, Foil>>),      \* an edited input
  D(3, <<Block(Par(1)), Cut(Par(1)), Both, Shift(Lit(1))>>),\* the cut is refused
  D(2, <<Block(Par(1)), Cut(Lit(1)), Both>>),               \* not its intent
  D(2, <<Block(Par(1)), Both, Shift(Lit(1))>>),             \* node 2 deleted
  D(2, <<Block(Par(2)), Raised(Lit(1)), Common>>),          \* no such parameter
  D(2, <<Part(4), Block(Par(1)), Common>>),
  D(2, <<Part(5), Block(Par(1)), Common>>),
  D(2, <<Block(Par(1)), Block(Lit(1))>>),                   \* ids not distinct
  D(2, <<>>) }

MCAsked == {<<>>, <<3>>, <<2, 4>>, <<9>>}
MCBumps == {<<1, 4>>, <<7, 4>>}
MCDigest == [p \in 0..5 |-> 100 + p]
=============================================================================
