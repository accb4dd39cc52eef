----------------------------- MODULE Evaluator -----------------------------
(***************************************************************************)
(* Incremental evaluation of a design (src/c06/model.bend, ev_part and     *)
(* ev_for) as the resident server and the command line drive it            *)
(* (src/c06/cli.bend, srv_cmd, srv_commit, sens).                          *)
(*                                                                         *)
(* One evaluation is a pass over the kept nodes of a design, level by      *)
(* level; the nodes of a level are evaluated in parallel and see only the  *)
(* entries of earlier levels.  Each node yields an entry <<id, key,        *)
(* result>>.  The key is the node's own words, its declared effect and the *)
(* keys of its inputs; when the previous pass left an entry of the same id *)
(* and an equal key, its result is published again instead of building.    *)
(*                                                                         *)
(* Requests drive passes:                                                  *)
(*   query  the whole design against the server's cache, which takes the   *)
(*          result; then the nodes asked for, against that result          *)
(*   apply  the edited design against the cache, which takes the result    *)
(*          only if every node is valid                                    *)
(*   sens   the nodes asked for from nothing; then the same nodes with a   *)
(*          bumped parameter, against the first result                     *)
(* A run of the command line is a request to a server that just started.   *)
(***************************************************************************)
EXTENDS DesignOps, FiniteSets

CONSTANTS
  Designs,     \* the designs a request may find: [ps, ns]
  Asked,       \* the lists of node ids a request may name; <<>> is "all"
  Bumps,       \* <<parameter id, value>> a sensitivity request may try
  MaxRequests  \* bound: how many requests one server answers

VARIABLES
  pc,        \* "idle", "pass", "answered"
  verb,      \* "none", "query", "apply", "sens"
  stage,     \* which pass of the request this is, 1 or 2
  design,    \* the design being evaluated
  ids,       \* the node ids the request names
  bump,      \* the bump of a sensitivity request
  old,       \* the entries the pass may reuse
  ws,        \* the level of each kept position (ews)
  lvl,       \* the level being evaluated
  todo,      \* the positions of this level not evaluated yet
  now,       \* the entries of this level
  acc,       \* the entries of earlier levels
  built,     \* the ids built, not reused, by this pass
  answer,    \* the entries the request was answered from
  cache,     \* the server's entries
  requests   \* how many requests have been taken

request == <<verb, ids, bump>>
pass    == <<stage, design, old, ws, lvl, todo, now, acc, built>>
vars    == <<pc, request, pass, answer, cache, requests>>

NoDesign == [ps |-> <<>>, ns |-> <<>>]
NoBump   == <<0, 0>>

(***************************************************************************)
(* Keys and entries.                                                       *)
(***************************************************************************)
NoKey == <<>>

Has(S, id) == \E c \in S : c.id = id

Find(S, id) ==
  IF Has(S, id) THEN CHOOSE c \in S : c.id = id
  ELSE [id |-> 0, key |-> NoKey, r |-> Refused("missing-input-node")]

KeyOf_OwnWords(n, ps, S) == <<Words(n.op, ps), n.it, NoKey, NoKey>>
KeyOf(n, ps, S) ==
  << Words(n.op, ps), n.it,
     IF HasBase(n.op)  THEN Find(S, n.op.a).key ELSE NoKey,
     IF HasBase2(n.op) THEN Find(S, n.op.b).key ELSE NoKey >>

(***************************************************************************)
(* The inputs of the node at position i are usable: each comes earlier in  *)
(* the list, is evaluated, and did not fail.                               *)
(***************************************************************************)
Usable(ns, keep, i, S, id) ==
  /\ Earlier(ns, keep, i, id) # {}
  /\ Has(S, id)
  /\ Find(S, id).r.ok

InputsUsable(ns, keep, i, S) ==
  /\ HasBase(ns[i].op)  => Usable(ns, keep, i, S, ns[i].op.a)
  /\ HasBase2(ns[i].op) => Usable(ns, keep, i, S, ns[i].op.b)

Reusable_ById(S, id, key) == Has(S, id)
Reusable(S, id, key) == Has(S, id) /\ Find(S, id).key = key

BuildNode(n, d, S) ==
  Publish(Build(n.op, Find(S, n.op.a).r.vol, Find(S, n.op.b).r.vol, d), n.it)

ResultOf(d, keep, i, S, reuse) ==
  LET n == d.ns[i] IN
  IF ~InputsUsable(d.ns, keep, i, S) THEN InputFailed
  ELSE IF Reusable(reuse, n.id, KeyOf(n, d.ps, S)) THEN Find(reuse, n.id).r
  ELSE BuildNode(n, d, S)

EntryOf(d, keep, i, S, reuse) ==
  [id |-> d.ns[i].id, key |-> KeyOf(d.ns[i], d.ps, S),
   r |-> ResultOf(d, keep, i, S, reuse)]

DuplicateEntry_OwnKey == [id |-> 0, key |-> <<"duplicate">>, r |-> Refused("duplicate-id")]
DuplicateEntry == [id |-> 0, key |-> NoKey, r |-> Refused("duplicate-id")]

AllOk(S) == \A c \in S : c.r.ok

(***************************************************************************)
(* Passes.                                                                 *)
(***************************************************************************)
Keep(d, v, st, want) ==
  IF v = "apply" \/ (v = "query" /\ st = 1) THEN DOMAIN d.ns ELSE KeptFor(d.ns, want)

AtLevel(w, l) == {i \in DOMAIN w : w[i] = l}

LastLevel(w) == Deepest({w[i] : i \in DOMAIN w})

Kept == DOMAIN ws

StartPass(v, st, d, want, reuse) ==
  /\ stage' = st /\ design' = d /\ old' = reuse
  /\ ws' = Levels(d.ns, Keep(d, v, st, want))
  /\ lvl' = 1 /\ todo' = AtLevel(ws', 1)
  /\ now' = {} /\ acc' = {} /\ built' = {}

Bumped(d, b) ==
  [d EXCEPT !.ps = [i \in DOMAIN d.ps |->
     IF d.ps[i].id = b[1] THEN [d.ps[i] EXCEPT !.v = b[2]] ELSE d.ps[i]]]

Init ==
  /\ pc = "idle" /\ verb = "none" /\ stage = 1 /\ design = NoDesign
  /\ ids = <<>> /\ bump = NoBump /\ old = {} /\ ws = <<>> /\ lvl = 0 /\ todo = {}
  /\ now = {} /\ acc = {} /\ built = {} /\ answer = {} /\ cache = {}
  /\ requests = 0

Request(v, d, want, b, reuse) ==
  /\ pc = "idle" /\ requests < MaxRequests
  /\ pc' = "pass" /\ verb' = v /\ ids' = want /\ bump' = b
  /\ StartPass(v, 1, d, want, reuse)
  /\ requests' = requests + 1
  /\ UNCHANGED <<answer, cache>>

Query == \E d \in Designs, want \in Asked : Request("query", d, want, NoBump, cache)

Apply == \E d \in Designs : Request("apply", d, <<>>, NoBump, cache)

Sens == \E d \in Designs, want \in Asked \ {<<>>}, b \in Bumps :
          Request("sens", d, want, b, {})

WellFormed == Distinct(design.ns) /\ Distinct(design.ps)

(***************************************************************************)
(* A design with repeated ids yields the one entry that says so.           *)
(***************************************************************************)
RefuseDuplicates ==
  /\ pc = "pass" /\ ~WellFormed
  /\ pc' = "answered"
  /\ answer' = {DuplicateEntry}
  /\ cache' = IF verb = "query" THEN {DuplicateEntry} ELSE cache
  /\ UNCHANGED <<request, pass, requests>>

EvalNode(i) ==
  /\ pc = "pass" /\ WellFormed /\ i \in todo
  /\ todo' = todo \ {i}
  /\ LET n == design.ns[i]
         hit == Reusable(old, n.id, KeyOf(n, design.ps, acc))
     IN  /\ now' = now \cup {EntryOf(design, Kept, i, acc, old)}
         /\ built' = IF InputsUsable(design.ns, Kept, i, acc) /\ ~hit
                     THEN built \cup {n.id} ELSE built
  /\ UNCHANGED <<pc, request, stage, design, old, ws, lvl, acc, answer, cache, requests>>

EndLevel ==
  /\ pc = "pass" /\ WellFormed /\ todo = {} /\ lvl < LastLevel(ws)
  /\ acc' = acc \cup now /\ now' = {}
  /\ lvl' = lvl + 1 /\ todo' = AtLevel(ws, lvl + 1)
  /\ UNCHANGED <<pc, request, stage, design, old, ws, built, answer, cache, requests>>

PassEnds_PastLast == pc = "pass" /\ WellFormed /\ todo = {} /\ lvl > LastLevel(ws)
PassEnds == pc = "pass" /\ WellFormed /\ todo = {} /\ lvl >= LastLevel(ws)

EndWholePass_NoReuse ==
  /\ PassEnds /\ verb = "query" /\ stage = 1
  /\ cache' = acc \cup now
  /\ StartPass(verb, 2, design, ids, {})
  /\ UNCHANGED <<pc, request, answer, requests>>
EndWholePass ==
  /\ PassEnds /\ verb = "query" /\ stage = 1
  /\ cache' = acc \cup now
  /\ StartPass(verb, 2, design, ids, acc \cup now)
  /\ UNCHANGED <<pc, request, answer, requests>>

EndFirstSens ==
  /\ PassEnds /\ verb = "sens" /\ stage = 1
  /\ StartPass(verb, 2, Bumped(design, bump), ids, acc \cup now)
  /\ UNCHANGED <<pc, request, answer, cache, requests>>

EndApply ==
  /\ PassEnds /\ verb = "apply"
  /\ pc' = "answered" /\ answer' = acc \cup now
  /\ cache' = IF AllOk(acc \cup now) THEN acc \cup now ELSE cache
  /\ UNCHANGED <<request, pass, requests>>

EndSecondPass ==
  /\ PassEnds /\ stage = 2
  /\ pc' = "answered" /\ answer' = acc \cup now
  /\ UNCHANGED <<request, pass, cache, requests>>

Idle(c) ==
  /\ pc' = "idle" /\ verb' = "none" /\ stage' = 1 /\ design' = NoDesign
  /\ ids' = <<>> /\ bump' = NoBump /\ old' = {} /\ ws' = <<>> /\ lvl' = 0 /\ todo' = {}
  /\ now' = {} /\ acc' = {} /\ built' = {} /\ answer' = {} /\ cache' = c

Reply == pc = "answered" /\ Idle(cache) /\ UNCHANGED requests

Restart == pc = "idle" /\ cache # {} /\ Idle({}) /\ UNCHANGED requests

EvalSome == \E i \in todo : EvalNode(i)

Step == \/ EvalSome \/ EndLevel \/ EndWholePass \/ EndFirstSens \/ EndApply
        \/ EndSecondPass \/ RefuseDuplicates \/ Reply

Next == Query \/ Apply \/ Sens \/ Step \/ Restart

(***************************************************************************)
(* The server is one process that never waits inside a request: whatever   *)
(* it can do next, it does.  Clients and restarts are under no obligation. *)
(***************************************************************************)
Spec == Init /\ [][Next]_vars /\ WF_vars(Step)

-----------------------------------------------------------------------------
(***************************************************************************)
(* The reference: the nodes in list order, one after another, from         *)
(* nothing.                                                                *)
(***************************************************************************)
Reference(d) ==
  LET res[i \in DOMAIN d.ns] ==
        LET n == d.ns[i]
            before(id) == Earlier(d.ns, DOMAIN d.ns, i, id)
            from(id) == IF before(id) = {} THEN InputFailed
                        ELSE res[CHOOSE j \in before(id) : TRUE]
        IN  IF \/ HasBase(n.op) /\ ~from(n.op.a).ok
               \/ HasBase2(n.op) /\ ~from(n.op.b).ok
            THEN InputFailed
            ELSE Publish(Build(n.op, from(n.op.a).vol, from(n.op.b).vol, d), n.it)
  IN  res

(***************************************************************************)
(* The types of the variables: an entry has an id of the design, a key of  *)
(* four parts and a result.                                                *)
(***************************************************************************)
EntryTyped(c) ==
  /\ DOMAIN c = {"id", "key", "r"}
  /\ c.id \in Nat /\ c.r \in Results
  /\ c.key = NoKey \/ DOMAIN c.key = 1..4

TypeOK ==
  /\ pc \in {"idle", "pass", "answered"}
  /\ verb \in {"none", "query", "apply", "sens"}
  /\ stage \in 1..2 /\ lvl \in Nat /\ requests \in 0..MaxRequests
  /\ DOMAIN ws \subseteq DOMAIN design.ns /\ todo \subseteq DOMAIN ws
  /\ built \subseteq Ids(design.ns)
  /\ \A c \in cache \cup old \cup acc \cup now \cup answer : EntryTyped(c)

(***************************************************************************)
(* No hash trust, no stale entry: of all the entries alive in the server,  *)
(* those of one id with equal keys carry the same result, whichever design *)
(* and whichever request they were computed for (ev_one, node_go).         *)
(***************************************************************************)
Alive == cache \cup old \cup acc \cup now

Coherent ==
  \A c, e \in Alive : c.id = e.id /\ c.key = e.key => c.r = e.r

(***************************************************************************)
(* Every answer is the one the command line would give: what a request is  *)
(* answered from is, node by node, what evaluating the whole design in     *)
(* list order from nothing gives, whatever the cache held, whatever part   *)
(* of the design was needed and in whatever order the levels ran.  A       *)
(* sensitivity request compares its first pass with the bumped design.     *)
(***************************************************************************)
AnswerFresh ==
  pc = "answered" /\ WellFormed =>
    /\ Len(ids) = 0 => {c.id : c \in answer} = Ids(design.ns)
    /\ \A i \in DOMAIN ids : ids[i] \in Ids(design.ns) => Has(answer, ids[i])
    /\ \A c \in answer : \A i \in DOMAIN design.ns :
         design.ns[i].id = c.id => c.r = Reference(design)[i]

(***************************************************************************)
(* The nodes of a level may run in parallel: before any of them runs,      *)
(* every input it has among the earlier kept nodes has been evaluated      *)
(* (ews, ev_lvls).                                                         *)
(***************************************************************************)
InputsSettled ==
  \A i \in todo : \A id \in {design.ns[i].op.a, design.ns[i].op.b} :
    (HasBase(design.ns[i].op) /\ id = design.ns[i].op.a)
      \/ (HasBase2(design.ns[i].op) /\ id = design.ns[i].op.b)
    => (Earlier(design.ns, Kept, i, id) # {} => Has(acc, id))

(***************************************************************************)
(* The second pass of a query reuses everything the first one built: a     *)
(* query never pays for a node twice (srv_query hands cs to run_go).       *)
(***************************************************************************)
SecondPassBuildsNothing == verb = "query" /\ stage = 2 => built = {}

(***************************************************************************)
(* A request that was taken is answered.                                   *)
(***************************************************************************)
EveryRequestAnswered == pc = "pass" ~> pc = "answered"
=============================================================================
