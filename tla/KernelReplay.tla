------------------------------ MODULE KernelReplay ------------------------------
(***************************************************************************)
(* The replay cache of the kernel host (DocumentEvaluator): a snapshot of   *)
(* the evaluation state after every operation, keyed by the cumulative hash *)
(* of the operations so far, and the evaluation that resumes from the       *)
(* longest prefix it finds.                                                 *)
(*                                                                         *)
(* An operation is [kind, word, anchors, suppressed].  kind is what the     *)
(* cache could confuse:                                                     *)
(*   "birth"    roots a body, with names and records;                       *)
(*   "modify"   combines the bodies so far and attributes all of them;      *)
(*   "select"   does so with a reference slot, "profile" roots a body with  *)
(*              one (they differ in the refusal without a registry);        *)
(*   "surface"  names its result and leaves no records of it (thicken,      *)
(*              stitch, boundary_surface, the mold operations);             *)
(*   "unfold"   names its flat body only for a registry;                    *)
(*   "offset"   a whole-body offset, refused while names are recorded;      *)
(*   "fails"    the geometry does.                                          *)
(* word stands for the content that is hashed; anchors and                  *)
(* metadata.suppressed are not.  The hash itself is taken to be injective.  *)
(* Left out: a harvest that refuses a result for its topology (the counts   *)
(* of HarvestBirth), an INTERNAL_ERROR of a cold evaluation like the one    *)
(* modelled.                                                                *)
(***************************************************************************)
EXTENDS Naturals, Sequences, FiniteSets, SequencesExt, FiniteSetsExt

CONSTANTS
  Documents,      \* documents a request may carry (sequences of operations)
  Budget,         \* cacheBudgetBytes
  MaxRequests     \* bound: requests in one life of the process

Slots == {"select", "profile"}
Kinds == {"birth", "modify", "surface", "unfold", "offset", "fails"} \cup Slots
Operation == [kind : Kinds, word : Nat, anchors : Nat, suppressed : BOOLEAN]

ASSUME ReplayAssumption ==
  Budget \in Nat /\ MaxRequests \in Nat /\ Documents \subseteq Seq(Operation)

VARIABLES
  reuse,          \* ReplayCacheEnabled: read from the environment
  entries,        \* key |-> [snapshot, bytes]
  recency,        \* keys, most recent first
  totalBytes, stored, evictions, hits, misses,
  request,        \* the request under way: [doc, names], or NoRequest
  state,          \* EvaluationState of the worker
  index,          \* operations of the document done
  warm,           \* the evaluation resumed from a restored prefix
  answers,        \* the requests answered, in order: [doc, names]
  last            \* the latest of them, with its result and whether it was warm

cacheVars == <<entries, recency, totalBytes, stored, evictions>>
vars == <<reuse, cacheVars, hits, misses, request, state, index, warm, answers, last>>

\* A sequence, never empty, stands in for "no request" and "no answer yet".
NoRequest == [doc |-> << >>, names |-> FALSE]
NoAnswer == [code |-> "none", bodies |-> << >>, named |-> {}]
Idle == request = NoRequest

-----------------------------------------------------------------------------
\* Mutant: the hash loses an operation's content.
StripExcluded_KindOnly(op) == [kind |-> op.kind, word |-> 0]

\* CanonicalOperationBytes: anchors and metadata never reach the hash.
StripExcluded(op) == [kind |-> op.kind, word |-> op.word]
CumulativeHash(doc, n) == [i \in 1 .. n |-> StripExcluded(doc[i])]

\* A registry when any operation has a reference slot, else a book when names
\* are asked for, else none.
RequiresRegistry(doc) == \E i \in DOMAIN doc : doc[i].kind \in Slots
Channel(doc, names) ==
  IF RequiresRegistry(doc) THEN "registry" ELSE IF names THEN "book" ELSE "none"

\* EvaluationState: the operations in the bodies, whether a book is live, the
\* bodies it names and those the registry holds records of.
Fresh(channel) ==
  [done |-> << >>, book |-> channel # "none", named |-> {}, recorded |-> {}]

\* A snapshot has the bodies and the book, and no records.
TakeSnapshot(st) == [st EXCEPT !.recorded = {}]

\* What executing an operation adds, with the registry or with none.
Applied(op) == [word |-> op.word, anchors |-> IF op.kind \in Slots THEN op.anchors ELSE 0]
Names(st, op, registry) == st.book /\ (op.kind = "unfold" => registry)
Records(op, registry) == registry /\ op.kind # "surface"
Extended(st, op, registry) ==
  LET body == Len(st.done) + 1
  IN [done |-> Append(st.done, Applied(op)), book |-> st.book,
      named |-> st.named \cup (IF Names(st, op, registry) THEN {body} ELSE {}),
      recorded |-> st.recorded \cup (IF Records(op, registry) THEN {body} ELSE {})]

\* What is combined needs its names if there is a book, and its records if there
\* is a registry: HarvestOperation throws without them.
Attributed(st, registry) ==
  /\ st.book => st.named = DOMAIN st.done
  /\ registry => st.recorded = DOMAIN st.done

\* What stops an operation, "ok" if nothing does.
Refusal(st, op, registry) ==
  CASE op.kind = "fails" -> "GEOMETRY_FAILED"
    [] op.kind = "select" /\ ~ registry -> "UNSUPPORTED_OPERATION"
    [] op.kind = "profile" /\ ~ registry -> "INVALID_REQUEST"
    [] op.kind = "offset" /\ st.book -> "UNSUPPORTED_OPERATION"
    [] op.kind \in {"modify", "select"} /\ ~ Attributed(st, registry) -> "INTERNAL_ERROR"
    [] OTHER -> "ok"

\* RestoreFrom: the bodies, and the book if the snapshot has one; without one a
\* registry keeps its own empty book and a bare book is dropped.
RestoreFrom(snapshot, channel) ==
  [snapshot EXCEPT !.book = snapshot.book \/ channel = "registry"]

\* Names are asked of the channel's book: with none, the answer reads an empty
\* optional.
Answer(st, names) ==
  IF names /\ ~ st.book THEN [code |-> "undefined", bodies |-> st.done, named |-> {}]
  ELSE IF names /\ st.named # DOMAIN st.done
  THEN [code |-> "INTERNAL_ERROR", bodies |-> << >>, named |-> {}]
  ELSE [code |-> "ok", bodies |-> st.done, named |-> IF names THEN st.named ELSE {}]
Failure(code) == [code |-> code, bodies |-> << >>, named |-> {}]

-----------------------------------------------------------------------------
\* The governor: entries and their recency, least recent evicted until the total
\* fits the budget, never the last one.
EstimateSnapshotBytes(snapshot) == 1 + Len(snapshot.done) + Cardinality(snapshot.named)

BytesOf(keys, table) ==
  LET sum[n \in 0 .. Len(keys)] == IF n = 0 THEN 0 ELSE sum[n - 1] + table[keys[n]].bytes
  IN sum[Len(keys)]

\* position_: a key is erased from its place, if it has one, and pushed to the front.
Touch(keys, key) == <<key>> \o RemoveFirst(keys, key)

\* How many of the most recent keys the budget keeps.
Kept(keys, table) ==
  CHOOSE n \in 1 .. Len(keys) :
    /\ n = 1 \/ BytesOf(SubSeq(keys, 1, n), table) <= Budget
    /\ n = Len(keys) \/ BytesOf(SubSeq(keys, 1, n + 1), table) > Budget

\* Mutant: what is evicted stays in the total.
EvictToBudget_KeepTotal(keys, table, total) ==
  LET n == Kept(keys, table)
      kept == SubSeq(keys, 1, n)
  IN /\ recency' = kept
     /\ entries' = [key \in Range(kept) |-> table[key]]
     /\ totalBytes' = total
     /\ evictions' = evictions + Len(keys) - n

EvictToBudget(keys, table, total) ==
  LET n == Kept(keys, table)
      kept == SubSeq(keys, 1, n)
  IN /\ recency' = kept
     /\ entries' = [key \in Range(kept) |-> table[key]]
     /\ totalBytes' = total - BytesOf(SubSeq(keys, n + 1, Len(keys)), table)
     /\ evictions' = evictions + Len(keys) - n

Put(key, snapshot) ==
  LET bytes == EstimateSnapshotBytes(snapshot)
      old == IF key \in DOMAIN entries THEN entries[key].bytes ELSE 0
      table == [k \in DOMAIN entries \cup {key} |->
                  IF k = key THEN [snapshot |-> snapshot, bytes |-> bytes] ELSE entries[k]]
  IN /\ stored' = stored + (IF key \in DOMAIN entries THEN 0 ELSE 1)
     /\ EvictToBudget(Touch(recency, key), table, totalBytes - old + bytes)

-----------------------------------------------------------------------------
Init ==
  /\ reuse \in BOOLEAN
  /\ entries = [key \in {} |-> NoAnswer] /\ recency = << >>
  /\ totalBytes = 0 /\ stored = 0 /\ evictions = 0 /\ hits = 0 /\ misses = 0
  /\ request = NoRequest /\ state = Fresh("none") /\ index = 0 /\ warm = FALSE
  /\ answers = << >>
  /\ last = [doc |-> << >>, names |-> FALSE, warm |-> FALSE, result |-> NoAnswer]

\* The longest prefix of the document with a live snapshot, 0 if there is none.
LongestCached(doc) ==
  LET live == {n \in 1 .. Len(doc) : CumulativeHash(doc, n) \in DOMAIN entries}
  IN IF reuse /\ live # {} THEN Max(live) ELSE 0

\* DocumentEvaluator::Evaluate up to its loop: the channel, the lookup, the restore.
Evaluate ==
  /\ Idle /\ Len(answers) < MaxRequests
  /\ \E doc \in Documents, names \in BOOLEAN :
       LET channel == Channel(doc, names)
           prefix == LongestCached(doc)
           key == CumulativeHash(doc, prefix)
       IN /\ request' = [doc |-> doc, names |-> names]
          /\ index' = prefix
          /\ warm' = (prefix > 0)
          /\ state' = IF prefix = 0 THEN Fresh(channel)
                      ELSE RestoreFrom(entries[key].snapshot, channel)
          /\ recency' = IF prefix = 0 THEN recency ELSE Touch(recency, key)
          /\ hits' = hits + (IF reuse /\ prefix > 0 THEN 1 ELSE 0)
          /\ misses' = misses + (IF reuse /\ prefix = 0 THEN 1 ELSE 0)
  /\ UNCHANGED <<reuse, entries, totalBytes, stored, evictions, answers, last>>

Current == request.doc[index + 1]
Running == ~ Idle /\ index < Len(request.doc)

Respond(result) ==
  /\ last' = [doc |-> request.doc, names |-> request.names, warm |-> warm, result |-> result]
  /\ answers' = Append(answers, request)
  /\ request' = NoRequest /\ state' = Fresh("none") /\ index' = 0 /\ warm' = FALSE
  /\ UNCHANGED <<reuse, cacheVars, hits, misses>>

\* The registry is threaded only into a fresh evaluation.
TailRegistry == RequiresRegistry(request.doc) /\ ~ warm

\* ExecuteOperation and the snapshot after it; a suppressed operation is left out
\* and its snapshot stored all the same.
Execute ==
  /\ Running
  /\ Current.suppressed \/ Refusal(state, Current, TailRegistry) = "ok"
  /\ state' = IF Current.suppressed THEN state ELSE Extended(state, Current, TailRegistry)
  /\ index' = index + 1
  /\ IF reuse THEN Put(CumulativeHash(request.doc, index + 1), TakeSnapshot(state'))
     ELSE UNCHANGED cacheVars
  /\ UNCHANGED <<reuse, hits, misses, request, warm, answers, last>>

\* An operation that throws leaves no snapshot; the ones before it stay.
Throw ==
  /\ Running /\ ~ Current.suppressed
  /\ Refusal(state, Current, TailRegistry) # "ok"
  /\ Respond(Failure(Refusal(state, Current, TailRegistry)))

Cancel == Running /\ Respond(Failure("CANCELLED"))

Return ==
  /\ ~ Idle /\ index = Len(request.doc)
  /\ Respond(Answer(state, request.names))

Next == Evaluate \/ Execute \/ Throw \/ Cancel \/ Return

Spec == Init /\ [][Next]_vars

-----------------------------------------------------------------------------
\* The reference: n operations of the same document evaluated from nothing, the
\* state they leave and the code that stopped them.
ColdStep(channel, before, op) ==
  LET registry == channel = "registry"
      refusal == Refusal(before.state, op, registry)
  IN IF before.code # "ok" \/ op.suppressed THEN before
     ELSE IF refusal # "ok" THEN [code |-> refusal, state |-> before.state]
     ELSE [code |-> "ok", state |-> Extended(before.state, op, registry)]
ColdAfter(channel, doc, n) ==
  LET cold[k \in 0 .. n] ==
        IF k = 0 THEN [code |-> "ok", state |-> Fresh(channel)]
        ELSE ColdStep(channel, cold[k - 1], doc[k])
  IN cold[n]
Cold(doc, names) ==
  LET end == ColdAfter(Channel(doc, names), doc, Len(doc))
  IN IF end.code = "ok" THEN Answer(end.state, names) ELSE Failure(end.code)

\* The governor's books: the recency list and the table hold the same keys, the
\* running total is what the entries weigh, it fits the budget unless one entry
\* alone does not, and every entry was stored once and not evicted.
CacheAccounted ==
  /\ Range(recency) = DOMAIN entries /\ Len(recency) = Cardinality(DOMAIN entries)
  /\ \A key \in DOMAIN entries : entries[key].bytes = EstimateSnapshotBytes(entries[key].snapshot)
  /\ totalBytes = BytesOf(recency, entries)
  /\ totalBytes <= Budget \/ Len(recency) = 1
  /\ Len(recency) = stored - evictions

\* None of the other requests shares a prefix with q, up to n operations, while
\* differing in the anchors or the suppression of its operations, or in its name
\* channel.
SameContent(one, other) == one.kind = other.kind /\ one.word = other.word
UntangledTo(q, n, others) ==
  \A other \in others : \A k \in 1 .. n :
    k <= Len(other.doc) /\ (\A i \in 1 .. k : SameContent(other.doc[i], q.doc[i]))
      => /\ SubSeq(other.doc, 1, k) = SubSeq(q.doc, 1, k)
         /\ Channel(other.doc, other.names) = Channel(q.doc, q.names)
Untangled == UntangledTo(last, Len(last.doc), Range(answers))

\* What a tail without the registry may answer and an evaluation from nothing
\* would not: the refusal of a slot, and the missing name of a flat body.
TailRefusals == {"UNSUPPORTED_OPERATION", "INVALID_REQUEST", "INTERNAL_ERROR"}

\* Short of that, an evaluation that carries no slot answers as a cold one, warm
\* or not.  One that carries a slot and was resumed has no registry in its tail:
\* it may refuse what a cold one does, or do what a cold one cannot harvest; but
\* when both succeed, and when the geometry fails, they agree (the tail registry
\* of DocumentEvaluator::Evaluate).
WarmAgrees ==
  Untangled /\ last.result.code \notin {"none", "CANCELLED"} =>
    LET cold == Cold(last.doc, last.names)
    IN \/ last.result = cold
       \/ /\ last.warm /\ RequiresRegistry(last.doc)
          /\ last.result.code \in TailRefusals \/ cold.code = "INTERNAL_ERROR"

\* What geometry.hpp says of the cache: a warm evaluation gives the output of a
\* cold one, but for the typed refusal of a slot in a tail, which the comment on
\* the tail registry states.
WarmIsCold ==
  last.result.code \notin {"none", "CANCELLED"} =>
    \/ last.result = Cold(last.doc, last.names)
    \/ /\ last.result.code \in {"UNSUPPORTED_OPERATION", "INVALID_REQUEST"}
       /\ last.warm /\ RequiresRegistry(last.doc)
================================================================================
