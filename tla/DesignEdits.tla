---------------------------- MODULE DesignEdits ----------------------------
(***************************************************************************)
(* A design as apply changes it (src/c06/cli.bend, edit_one and the        *)
(* helpers it calls).  A node keeps its id, the node it is built on and a  *)
(* value for everything else; a material is the node it is bound to.       *)
(* Parameters and threads are left out: a parameter edit always applies,   *)
(* and a thread is bound to its node as a material is.                     *)
(***************************************************************************)
EXTENDS Naturals, Sequences, SequencesExt

EmptyDesign == [nodes |-> <<>>, mats |-> {}]

IdsOf(ns) == {ns[i].id : i \in DOMAIN ns}

First(ns, id) == CHOOSE i \in DOMAIN ns :
  /\ ns[i].id = id
  /\ \A j \in 1..(i - 1) : ns[j].id # id

(* A node of a known id is replaced where it stands. *)
SetNode(ns, n) ==
  IF n.id \in IdsOf(ns) THEN [ns EXCEPT ![First(ns, n.id)] = n] ELSE Append(ns, n)

DelNode(ns, id) ==
  IF id \in IdsOf(ns) THEN RemoveAt(ns, First(ns, id)) ELSE ns

EditOne(d, e) ==
  CASE e.k = "node"     -> [d EXCEPT !.nodes = SetNode(@, e.n)]
    [] e.k = "delete"   -> [d EXCEPT !.nodes = DelNode(@, e.n.id)]
    [] e.k = "material" -> [d EXCEPT !.mats = @ \union {e.n.id}]
    [] e.k = "junk"     -> d

Edited(d, es) == FoldLeft(EditOne, d, es)

EditsOk(es) == \A i \in DOMAIN es : es[i].k # "junk"

(***************************************************************************)
(* Every node builds and every material is bound to a node: ids are        *)
(* distinct and what a node is built on stands before it.  The geometry    *)
(* is the Evaluator's.                                                     *)
(***************************************************************************)
InputsStandBefore(ns) ==
  \A i \in DOMAIN ns : ns[i].base # 0 => \E j \in 1..(i - 1) : ns[j].id = ns[i].base

Builds(d) ==
  /\ \A i, j \in DOMAIN d.nodes : d.nodes[i].id = d.nodes[j].id => i = j
  /\ InputsStandBefore(d.nodes)
  /\ d.mats \subseteq IdsOf(d.nodes)
=============================================================================
