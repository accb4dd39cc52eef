------------------------------ MODULE ElementNames ------------------------------
(***************************************************************************)
(* The names of faces, edges and vertices (element_names.cpp): a root name  *)
(* for every sub-shape of a new body, and the pass that names every         *)
(* sub-shape of an operation's result from the names of its inputs and the  *)
(* history the geometry kernel reports.                                     *)
(*                                                                         *)
(* A name is a sequence of segments.  The hash of a set of names is the     *)
(* bag of the names hashed, and the quantised geometry of a shape is the    *)
(* shape itself: both are taken to be injective.                            *)
(***************************************************************************)
EXTENDS Naturals, Sequences, FiniteSets, SequencesExt, FiniteSetsExt

CONSTANT Rounds   \* bound on the sweeps to a fixpoint (32 in the code)

ASSUME RoundsAssumption == Rounds \in Nat

VARIABLE shapes   \* every sub-shape so far: [kind, below, looks, ancestry, continues]

\* A finite set laid out in some order.
InSomeOrder(set) ==
  LET order[part \in SUBSET set] ==
        IF part = {} THEN << >>
        ELSE LET x == CHOOSE x \in part : TRUE IN Append(order[part \ {x}], x)
  IN order[set]

\* One map laid over another, and a map with one more entry.
Over(f, g) == [x \in DOMAIN f \cup DOMAIN g |-> IF x \in DOMAIN f THEN f[x] ELSE g[x]]
Bind(f, x, value) == [y \in DOMAIN f \cup {x} |-> IF y = x THEN value ELSE f[y]]

\* A sequence without the elements of a set.
Dropping(seq, set) ==
  LET kept[n \in 0 .. Len(seq)] ==
        IF n = 0 THEN << >>
        ELSE IF seq[n] \in set THEN kept[n - 1] ELSE Append(kept[n - 1], seq[n])
  IN kept[Len(seq)]

Kind(x) == shapes[x].kind
Below(x) == shapes[x].below
Above(result, x) == {y \in ToSet(result) : x \in Below(y)}
OfKind(result, kind) == {x \in ToSet(result) : Kind(x) = kind}

-----------------------------------------------------------------------------
\* "n1:<op>.f.3", ".../M.<op>", ".../G.<op>.<hash>", "n1:S.<op>.<hash>",
\* "n1:L.<op>.<hash>", "n1:Q.<hash>": `of' is what the hash is taken of, `by'
\* what tells several images of one step apart, `geometry' the quantised key.
Segment(tag, op) == [tag |-> tag, op |-> op, of |-> {}, by |-> {}, geometry |-> 0]
Root(kind, op, k) == <<[Segment(kind, op) EXCEPT !.geometry = k]>>

\* Mutant: the steps that tell siblings apart are erased, the plain ones stay.
Plain_Swapped(segment) == segment.tag = "M" /\ ~ (segment.by = {} /\ segment.geometry = 0)
Plain(segment) == segment.tag = "M" /\ segment.by = {} /\ segment.geometry = 0
NormalizeName(name) == Dropping(name, {segment \in ToSet(name) : Plain(segment)})

HashNameSet(set, names) ==
  {<<n, Cardinality({x \in set : NormalizeName(names[x]) = n})>> :
     n \in {NormalizeName(names[x]) : x \in set}}

\* AddPrimitive: ordinals in the order of the body's sub-shapes of each kind.
OrdinalOf(parts, i) == Cardinality({j \in 1 .. i : Kind(parts[j]) = Kind(parts[i])})
RootNames(op, parts) ==
  [x \in ToSet(parts) |-> LET i == CHOOSE i \in DOMAIN parts : parts[i] = x
                          IN Root(Kind(x), op, OrdinalOf(parts, i))]
AddPrimitive(book, op, parts) ==
  [names |-> Over(RootNames(op, parts), book),
   fault |-> \E x \in ToSet(parts) \cap DOMAIN book : book[x] # RootNames(op, parts)[x]]
\* AddDerivedPrimitive: a sub-shape shared with the body it came from keeps its name.
AddDerivedPrimitive(book, op, parts) == [names |-> Over(book, RootNames(op, parts)), fault |-> FALSE]

-----------------------------------------------------------------------------
\* One operation: its inputs, its result (sequences of sub-shapes) and the
\* history [modified, generated], the images of every source.
Sources(inputs) ==
  LET seen[k \in 0 .. Len(inputs)] ==
        IF k = 0 THEN << >> ELSE seen[k - 1] \o Dropping(inputs[k], ToSet(seen[k - 1]))
  IN seen[Len(inputs)]
ImagesIn(history, what, x) == IF x \in DOMAIN history[what] THEN history[what][x] ELSE {}
\* BuildReverseHistory: the ordinals of the sources an image comes from.
Parents(sources, history, what, image) ==
  {i \in DOMAIN sources : image \in ImagesIn(history, what, sources[i])}

\* Assign: an entity is named once, and a second name that differs is a fault.
Assign(st, fresh) ==
  [st EXCEPT !.names = Over(st.names, fresh),
             !.fault = st.fault \/ \E x \in DOMAIN fresh \cap DOMAIN st.names :
                                     st.names[x] # fresh[x]]

\* PlanAndAssignHistoryImages: the step an entity was born by, its last segment
\* still without what tells siblings apart.
Preferred(sources, parents, kind) ==
  LET wanted == IF kind = "v" THEN "e" ELSE "f"
      chosen == {i \in parents : Kind(sources[i]) = wanted}
  IN IF kind # "f" /\ Cardinality(chosen) >= 2 THEN chosen ELSE parents
StepOf(book, op, sources, history, x) ==
  LET modified == Parents(sources, history, "modified", x)
      generated == Parents(sources, history, "generated", x)
      nameOf == [i \in DOMAIN sources |-> book[sources[i]]]
      from(i, tag) == [of |-> i, name |-> Append(nameOf[i], Segment(tag, op))]
  IN CASE modified # {} -> from(Min(modified), "M")
       [] modified = {} /\ Cardinality(generated) = 1 -> from(Min(generated), "G")
       [] modified = {} /\ Cardinality(generated) > 1 ->
            [of |-> 0, name |-> <<[Segment("S", op) EXCEPT
               !.of = HashNameSet(Preferred(sources, generated, Kind(x)), nameOf)]>>]
       [] OTHER -> [of |-> 0, name |-> << >>]

LastBut(name, segment) == Append(Front(name), segment)

\* ResolvePendingDisambiguators, for the pending siblings of one kind.
Disambiguate(st, kind, force) ==
  LET open == {x \in st.pending : Kind(x) = kind}
      known == {x \in open : Below(x) # {} /\ Below(x) \subseteq DOMAIN st.names}
      ready == IF force \/ kind = "v" THEN open ELSE known
      named == [x \in ready |->
                  LET step == st.step[x].name
                  IN LastBut(step, IF kind # "v" /\ x \in known
                                   THEN [Last(step) EXCEPT !.by = HashNameSet(Below(x), st.names)]
                                   ELSE [Last(step) EXCEPT !.geometry = x])]
  IN [Assign(st, named) EXCEPT !.pending = st.pending \ ready]
ResolvePending(st, force) ==
  Disambiguate(Disambiguate(Disambiguate(st, "v", force), "e", force), "f", force)

\* ResolveLowerBoundNames: an edge from the faces around it, a vertex from the
\* edges around it.
Reconstruct(st, op, result, kind) ==
  LET open == {x \in OfKind(result, kind) \ DOMAIN st.names :
                 Above(result, x) # {} /\ Above(result, x) \subseteq DOMAIN st.names}
  IN Assign(st, [x \in open |->
                   <<[Segment("L", op) EXCEPT !.of = HashNameSet(Above(result, x), st.names)]>>])
LowerBound(st, op, result) == Reconstruct(Reconstruct(st, op, result, "e"), op, result, "v")

QuantizedRoot(x) == <<[Segment("Q", 0) EXCEPT !.geometry = x]>>
IsBareQuantizedRoot(name) == Len(name) = 1 /\ name[1].tag = "Q"

\* ApplyOperation: survivors keep their names, images take a step, siblings are
\* told apart and the rest reconstructed to a fixpoint, then by force, and what
\* is left is rooted at its own geometry.
ApplyOperation(book, op, inputs, result, history) ==
  LET sources == Sources(inputs)
      kept == ToSet(sources) \cap ToSet(result)
      step == [x \in ToSet(result) \ kept |-> StepOf(book, op, sources, history, x)]
      planned == {x \in DOMAIN step : step[x].name # << >>}
      siblings(x) == {y \in planned : step[y] = step[x] /\ Kind(y) = Kind(x)}
      alone == {x \in planned : siblings(x) = {x}}
      start == [names |-> Over([x \in kept |-> book[x]], [x \in alone |-> step[x].name]),
                step |-> step, pending |-> planned \ alone, fault |-> FALSE]
      settled[n \in 0 .. Rounds] ==
        IF n = 0 THEN start ELSE LowerBound(ResolvePending(settled[n - 1], FALSE), op, result)
      forced[n \in 0 .. Rounds] ==
        IF n = 0 THEN ResolvePending(settled[Rounds], TRUE) ELSE LowerBound(forced[n - 1], op, result)
      end == forced[Rounds]
      rest == ToSet(result) \ DOMAIN end.names
      named == Over(end.names, [x \in rest |-> QuantizedRoot(x)])
  IN [names |-> Over(named, book),
      fault |-> \/ ToSet(sources) \ DOMAIN book # {}
                \/ end.fault
                \/ \E x \in ToSet(result) \cap DOMAIN book : book[x] # named[x]]
=================================================================================
