----------------------------- MODULE DesignOps -----------------------------
(***************************************************************************)
(* The operations of a design and what building one node of it does        *)
(* (src/c06/model.bend).  A design is a list of parameters and a list of   *)
(* nodes; a node has an id, an operation and the effect it declares.       *)
(*                                                                         *)
(* An operation is a record: its kind k, its inputs a and b (node ids), a  *)
(* dimension x (a literal, or a parameter of the design) and s, the nodes  *)
(* whose OPERATIONS it reads without evaluating them, as a blade or a skin *)
(* reads its naca4 sections.  One kind stands for each way an operation    *)
(* takes inputs and enters the cache key.                                  *)
(*                                                                         *)
(* A body is abstracted to its volume.  Bodies are nested, so a boolean of *)
(* two is the larger, the smaller or the difference of them.               *)
(***************************************************************************)
EXTENDS Integers, Sequences

CONSTANT Digest    \* the hash under which an imported payload enters a key

BooleanKinds == {"union", "difference", "intersection"}
BasedKinds   == {"pad", "pocket", "move"} \cup BooleanKinds
SectionKinds == {"blade", "skin"}
Kinds == BasedKinds \cup SectionKinds \cup {"box", "naca4", "import", "unknown"}

HasBase(o)  == o.k \in BasedKinds
HasBase2(o) == o.k \in BooleanKinds

Materials == {"create", "add", "remove", "same", "uncertain"}

(***************************************************************************)
(* What evaluating a node yields: a body with its measured effect, or a    *)
(* diagnosis.                                                              *)
(***************************************************************************)
Built(v, m)  == [ok |-> TRUE, vol |-> v, mat |-> m, why |-> "built"]
Refused(why) == [ok |-> FALSE, vol |-> 0, mat |-> "uncertain", why |-> why]

Whys == {"built", "missing-input-node", "input-node-missing-or-failed", "duplicate-id",
         "unknown-op", "sections-not-admitted", "not-finite", "not-positive",
         "empty-result", "intent"}

Results == [ok : BOOLEAN, vol : Int, mat : Materials, why : Whys]

NaN == -1

(***************************************************************************)
(* The value of a dimension: a parameter the design does not have is NaN.  *)
(***************************************************************************)
Value(x, ps) ==
  IF x.par = 0 THEN x.v
  ELSE IF \E i \in DOMAIN ps : ps[i].id = x.par
       THEN ps[CHOOSE i \in DOMAIN ps : ps[i].id = x.par].v
       ELSE NaN

(***************************************************************************)
(* The words an operation contributes to the cache key.  A blade names its *)
(* sections and a skin its sources by id only; an import contributes a     *)
(* hash of its payload; an unknown operation does not contribute its name. *)
(***************************************************************************)
Words(o, ps) ==
  CASE o.k = "unknown" -> <<o.k>>
    [] o.k = "import"  -> <<o.k, Digest[o.x.v]>>
    [] o.k = "skin"    -> <<o.k, o.s>>
    [] OTHER           -> <<o.k, o.a, o.b, o.s, o.x, Value(o.x, ps)>>

Missing == [k |-> "unknown", a |-> 0, b |-> 0, x |-> [par |-> 0, v |-> 0], s |-> <<>>]

OpAt(ns, id) ==
  IF \E i \in DOMAIN ns : ns[i].id = id
  THEN ns[CHOOSE i \in DOMAIN ns : ns[i].id = id].op
  ELSE Missing

SectionsAre4Digit(o, ns) == \A i \in DOMAIN o.s : OpAt(ns, o.s[i]).k = "naca4"

(***************************************************************************)
(* A stack is as thick as its first section says; BuildStack is reached    *)
(* with at least one section.                                              *)
(***************************************************************************)
BuildStack(o, d) ==
  IF ~SectionsAre4Digit(o, d.ns) \/ o.s = <<>>
  THEN Refused("sections-not-admitted")
  ELSE LET chord == Value(OpAt(d.ns, o.s[1]).x, d.ps)
       IN  IF chord > 0 THEN Built(10 * chord, "create")
                        ELSE Refused("not-finite")

BuildBoolean(o, va, vb) ==
  CASE o.k = "union"        -> IF vb > va THEN Built(vb, "add") ELSE Built(va, "same")
    [] o.k = "intersection" -> IF vb < va THEN Built(vb, "remove") ELSE Built(va, "same")
    [] OTHER                -> IF vb < va THEN Built(va - vb, "remove")
                                          ELSE Refused("empty-result")

(***************************************************************************)
(* Build the operation o of design d on bodies of volume va and vb.        *)
(***************************************************************************)
Build(o, va, vb, d) ==
  LET v == Value(o.x, d.ps)
  IN  CASE o.k = "unknown"        -> Refused("unknown-op")
        [] o.k \in SectionKinds   -> BuildStack(o, d)
        [] o.k \in BooleanKinds   -> BuildBoolean(o, va, vb)
        [] o.k = "move"           -> IF v = NaN THEN Refused("not-finite")
                                                ELSE Built(va, "same")
        [] v <= 0                 -> Refused("not-positive")
        [] o.k = "pad"            -> Built(va + v, "add")
        [] o.k = "pocket"         -> IF v < va THEN Built(va - v, "remove")
                                               ELSE Refused("empty-result")
        [] OTHER                  -> Built(v, "create")

(***************************************************************************)
(* Publish a built node only if it has the effect it declares.             *)
(***************************************************************************)
Publish(r, it) ==
  IF ~r.ok THEN r
  ELSE IF r.mat = it THEN r ELSE Refused("intent")

InputFailed == Refused("input-node-missing-or-failed")

(***************************************************************************)
(* Ids.  A design whose node ids, or parameter ids, are not distinct is    *)
(* refused as a whole.                                                     *)
(***************************************************************************)
Distinct(s) == \A i, j \in DOMAIN s : s[i].id = s[j].id => i = j

Ids(ns) == {ns[i].id : i \in DOMAIN ns}

(***************************************************************************)
(* The nodes that the nodes in ids need, found as the source finds them: a *)
(* worklist with a fuel of three visits per node and one per request, each *)
(* node pushing its inputs the first time it is seen.                      *)
(***************************************************************************)
Pushed(o, t) ==
  LET t2 == IF HasBase2(o) THEN <<o.b>> \o t ELSE t
  IN  IF HasBase(o) THEN <<o.a>> \o t2 ELSE t2

Fuel(ns, ids) == 3 * Len(ns) + Len(ids) + 1

Worklists == [todo : Seq(Nat), acc : SUBSET Nat]

Visit(ns, w) ==
  LET h == Head(w.todo)
  IN  IF h \in w.acc THEN [todo |-> Tail(w.todo), acc |-> w.acc]
      ELSE [todo |-> Pushed(OpAt(ns, h), Tail(w.todo)), acc |-> w.acc \cup {h}]

Exhausted == [w \in Worklists |-> w.acc]
Visited(ns, then) ==
  [w \in Worklists |-> IF w.todo = <<>> THEN w.acc ELSE then[Visit(ns, w)]]

NeedIds(ns, ids) ==
  LET need[f \in 0..Fuel(ns, ids)] == IF f = 0 THEN Exhausted ELSE Visited(ns, need[f - 1])
  IN  need[Fuel(ns, ids)][[todo |-> ids, acc |-> {}]]

(***************************************************************************)
(* The positions kept for a request: all of the design when it names no    *)
(* node.                                                                   *)
(***************************************************************************)
KeptFor(ns, ids) ==
  IF ids = <<>> THEN DOMAIN ns
  ELSE LET need == NeedIds(ns, ids) IN {i \in DOMAIN ns : ns[i].id \in need}

(***************************************************************************)
(* The level of each kept position: one more than the deepest of its       *)
(* inputs that come earlier in the list.                                   *)
(***************************************************************************)
Earlier(ns, keep, i, id) == {j \in keep : j < i /\ ns[j].id = id}

InputPositions_BaseOnly(ns, keep, i) ==
  IF HasBase(ns[i].op) THEN Earlier(ns, keep, i, ns[i].op.a) ELSE {}
InputPositions(ns, keep, i) ==
  (IF HasBase(ns[i].op) THEN Earlier(ns, keep, i, ns[i].op.a) ELSE {})
    \cup (IF HasBase2(ns[i].op) THEN Earlier(ns, keep, i, ns[i].op.b) ELSE {})

Deepest(S) == IF S = {} THEN 0 ELSE CHOOSE m \in S : \A n \in S : n <= m

Levels(ns, keep) ==
  LET lv[i \in DOMAIN ns] == 1 + Deepest({lv[j] : j \in InputPositions(ns, keep, i)})
  IN  [i \in keep |-> lv[i]]
=============================================================================
