-------------------------- MODULE FaithfulDesigns --------------------------
(***************************************************************************)
(* The designs for which the evaluator's key says all that building a node *)
(* reads, and under which its cache is therefore sound:                    *)
(*   - no operation reads other nodes' operations (blade, skin) or carries *)
(*     a name its words leave out (unknown);                               *)
(*   - the hash tells apart the payloads that are imported;                *)
(*   - inputs are listed before the nodes that use them, when they are     *)
(*     listed at all.                                                      *)
(* README, section 7, says what each of them excludes.                     *)
(***************************************************************************)
EXTENDS Evaluator

Ordered(ns) ==
  \A i, j \in DOMAIN ns :
    \/ HasBase(ns[i].op) /\ ns[j].id = ns[i].op.a
    \/ HasBase2(ns[i].op) /\ ns[j].id = ns[i].op.b
    => j < i

OpShaped(o) ==
  /\ o.k \in Kinds \ (SectionKinds \cup {"unknown"})
  /\ o.a \in Nat /\ o.b \in Nat
  /\ o.x.par \in Nat /\ o.x.v \in Nat
  /\ o.k = "import" => o.x.par = 0

NodeShaped(n) ==
  n.id \in Nat /\ n.it \in Materials /\ OpShaped(n.op)

ASSUME DesignsShaped ==
  \A d \in Designs :
    /\ d = [ps |-> d.ps, ns |-> d.ns]
    /\ d.ns \in Seq({d.ns[i] : i \in DOMAIN d.ns})
    /\ \A i \in DOMAIN d.ns : NodeShaped(d.ns[i])
    /\ \A i \in DOMAIN d.ps : d.ps[i].v \in Int
    /\ Ordered(d.ns)

ASSUME RequestsShaped ==
  /\ \A b \in Bumps : b \in Nat \X Int
  /\ \A want \in Asked : want \in Seq(Nat)
  /\ MaxRequests \in Nat

Payloads == {n.op.x.v : n \in UNION {{d.ns[i] : i \in DOMAIN d.ns} : d \in Designs}}

ASSUME DigestTellsApart ==
  \A p, q \in Payloads : Digest[p] = Digest[q] => p = q
-----------------------------------------------------------------------------
(***************************************************************************)
(* Every set of entries the server holds supports itself: each entry is    *)
(* what its node yields on inputs found in the same set, or on missing     *)
(* ones.                                                                   *)
(***************************************************************************)
Shapes == Designs \cup {Bumped(d, b) : d \in Designs, b \in Bumps}

NoEntry == [id |-> 0, key |-> NoKey, r |-> Refused("missing-input-node")]

IsInput(e, S, id) == e = NoEntry \/ (e \in S /\ e.id = id)

KeyFrom(n, ps, a, b) ==
  << Words(n.op, ps), n.it,
     IF HasBase(n.op) THEN a.key ELSE NoKey, IF HasBase2(n.op) THEN b.key ELSE NoKey >>

ResultFrom(n, d, a, b) ==
  IF (HasBase(n.op) => a.r.ok) /\ (HasBase2(n.op) => b.r.ok)
  THEN Publish(Build(n.op, a.r.vol, b.r.vol, d), n.it)
  ELSE InputFailed

Yields(c, d, i, a, b, S) ==
  /\ HasBase(d.ns[i].op)  => IsInput(a, S, d.ns[i].op.a)
  /\ HasBase2(d.ns[i].op) => IsInput(b, S, d.ns[i].op.b)
  /\ c = [id |-> d.ns[i].id, key |-> KeyFrom(d.ns[i], d.ps, a, b),
          r |-> ResultFrom(d.ns[i], d, a, b)]

Derived(c, S) ==
  \E d \in Shapes : \E i \in DOMAIN d.ns : \E a, b \in S \cup {NoEntry} :
    Yields(c, d, i, a, b, S)

SelfSupported ==
  /\ \A c \in cache : c = DuplicateEntry \/ Derived(c, cache)
  /\ \A c \in old : c = DuplicateEntry \/ Derived(c, old)
  /\ \A c \in acc \cup now : Derived(c, acc)

(***************************************************************************)
(* The pass is over a design a request could find, and holds entries of    *)
(* its kept nodes only.                                                    *)
(***************************************************************************)
PassOfDesign ==
  /\ design \in Shapes \cup {NoDesign}
  /\ pc = "pass" => design \in Shapes
  /\ pc = "pass" /\ stage = 1 => design \in Designs
  /\ DOMAIN ws \subseteq DOMAIN design.ns /\ todo \subseteq DOMAIN ws
  /\ \A c \in acc \cup now : \E j \in DOMAIN ws : c.id = design.ns[j].id
  /\ bump \in Bumps \cup {NoBump}
  /\ verb = "sens" => bump \in Bumps

IInv == TypeOK /\ Coherent /\ SelfSupported /\ PassOfDesign
-----------------------------------------------------------------------------
(***************************************************************************)
(* The entry the node at position i should have, over the entries S its    *)
(* inputs are found in.                                                    *)
(***************************************************************************)
Right(d, i, S) ==
  [id |-> d.ns[i].id, key |-> KeyOf(d.ns[i], d.ps, S), r |-> Reference(d)[i]]

(***************************************************************************)
(* What is kept is what the request needs.                                 *)
(***************************************************************************)
Asking ==
  /\ ids \in Asked \cup {<<>>}
  /\ verb = "apply" => ids = <<>>
  /\ pc # "idle" => Kept = Keep(design, verb, stage, ids)

(***************************************************************************)
(* The kept nodes of the levels that are done have their entries in acc,   *)
(* those of the running level theirs in now, or are still to do.           *)
(***************************************************************************)
Levelled ==
  /\ pc = "idle" => todo = {}
  /\ pc # "idle" => ws = Levels(design.ns, Kept)
  /\ todo \subseteq AtLevel(ws, lvl)
  /\ \A i \in Kept : ws[i] < lvl => Has(acc, design.ns[i].id)
  /\ \A i \in Kept : ws[i] = lvl => i \in todo \/ Has(now, design.ns[i].id)

(***************************************************************************)
(* Every entry of the pass is the one its node should have.                *)
(***************************************************************************)
RightEntries ==
  pc # "idle" /\ WellFormed =>
    \A c \in acc \cup now : \E i \in Kept : ws[i] <= lvl /\ c = Right(design, i, acc)

(***************************************************************************)
(* The second pass of a query finds every node of the design in what it    *)
(* may reuse, and adds nothing to it.                                      *)
(***************************************************************************)
Reuses ==
  pc # "idle" /\ WellFormed /\ verb = "query" /\ stage = 2 =>
    /\ \A i \in DOMAIN design.ns : Right(design, i, old) \in old
    /\ \A c \in old : \E i \in DOMAIN design.ns : c = Right(design, i, old)
    /\ acc \cup now \subseteq old

FreshInv ==
  Asking /\ Levelled /\ RightEntries /\ Reuses /\ AnswerFresh /\ SecondPassBuildsNothing
=============================================================================
