-------------------------- MODULE CommandLineProofs --------------------------
(***************************************************************************)
(* The two guards of the bendcad command line, which share no state: the   *)
(* request gate that every request meets, and the design file it serves.   *)
(*                                                                         *)
(* The gate, for every cap, every set of tokens and every design size,     *)
(* keeps its types and its budget is exact at the boundary.  The node      *)
(* count and the cap go down together, so their difference is what the     *)
(* invariant carries: nodes - cap = ids - left while ids are counted.      *)
(* And for every argument list the decision is the one the whole list asks *)
(* for: what has been read is a prefix of flags, and no longer one exists  *)
(* where the reading stops.                                                *)
(*                                                                         *)
(* The file, for every set of requests, any of which may be killed at any  *)
(* step: served in turn, it always loads as a design that builds, and      *)
(* implements AtomicDesign.                                                *)
(***************************************************************************)
EXTENDS RequestGate, DesignFile, TLAPS

(***************************************************************************)
(* The gate.                                                               *)
(***************************************************************************)
\* The part of the invariant that BudgetExact needs: what has been counted
\* of the ids has been taken from the cap, and a verdict of the gate was
\* reached with one of the two at zero.
CountInv ==
  /\ pc = "flags" => ids = nodes /\ decision = "none"
  /\ pc = "count" => nodes + left = cap + ids /\ decision = "none"
  /\ decision = "go" => nodes + left = cap + ids /\ ids = 0
  /\ decision = "over" => nodes + left = cap + ids /\ left = 0 /\ ids > 0

GateInv == GateTypeOK /\ CountInv

\* The state a request starts in is well typed and has counted nothing.
LEMMA InitGateInv == GateInit => GateInv
<1> SUFFICES ASSUME GateInit PROVE GateInv
  OBVIOUS
<1>1. argv \in Seq(Tokens)
  <2>1. PICK n \in 0..MaxArgs : argv \in [1..n -> Tokens]
    BY DEF GateInit
  <2>2. n \in Nat
    BY <2>1
  <2>3. QED
    BY <2>1, <2>2
<1>2. nodes \in Nat
  BY GateConstants DEF GateInit
<1>3. CapMax \in Nat
  BY GateConstants
<1>4. GateTypeOK
  <2>1. /\ pc = "flags" /\ pos = 1 /\ cap = CapMax /\ cancel = FALSE
        /\ verb = "no-verb" /\ ids = nodes /\ left = 0 /\ decision = "none"
    BY DEF GateInit
  <2>2. cancel \in BOOLEAN
    BY <2>1, Zenon
  <2>3. pos \in Nat \ {0} /\ left \in Nat
    BY <2>1, SMT
  <2>4. pc \in {"flags", "count", "done"} /\ decision \in Decisions
    BY <2>1 DEF Decisions
  <2>5. QED
    BY <1>1, <1>2, <1>3, <2>1, <2>2, <2>3, <2>4, Zenon DEF GateTypeOK
<1>5. CountInv
  BY DEF GateInit, CountInv
<1>6. QED
  BY <1>4, <1>5 DEF GateInv

\* Reading a flag touches neither the count nor, unless it refuses, the
\* verdict.
LEMMA FlagsKeep ==
  GateInv /\ (MaxNodesFlag \/ CancelledFlag \/ UnknownFlag) => GateInv'
<1> SUFFICES ASSUME GateInv, MaxNodesFlag \/ CancelledFlag \/ UnknownFlag
             PROVE  GateInv'
  OBVIOUS
<1> USE GateConstants DEF GateInv, GateTypeOK, CountInv, Decisions, End, AtEnd
<1>1. CASE MaxNodesFlag
  BY <1>1 DEF MaxNodesFlag
<1>2. CASE CancelledFlag
  BY <1>2 DEF CancelledFlag
<1>3. CASE UnknownFlag
  BY <1>3 DEF UnknownFlag
<1>4. QED
  BY <1>1, <1>2, <1>3

\* The verb starts the count with the whole cap and the whole design.
LEMMA VerbKeeps == GateInv /\ Verb => GateInv'
<1> SUFFICES ASSUME GateInv, Verb PROVE GateInv'
  OBVIOUS
<1> USE DEF GateInv, GateTypeOK, CountInv, Decisions
<1>1. verb' \in Tokens \cup {"no-verb"}
  <2>1. CASE AtEnd
    BY <2>1 DEF Verb
  <2>2. CASE ~AtEnd
    <3>1. pos \in 1..Len(argv)
      BY <2>2 DEF AtEnd
    <3>2. argv[pos] \in Tokens
      BY <3>1
    <3>3. QED
      BY <2>2, <3>2 DEF Verb
  <2>3. QED
    BY <2>1, <2>2
<1>2. CASE verb' = "new"
  BY <1>1, <1>2 DEF Verb, End
<1>3. CASE verb' # "new" /\ cancel
  BY <1>1, <1>3 DEF Verb, End
<1>4. CASE verb' # "new" /\ ~cancel
  BY <1>1, <1>4 DEF Verb, End
<1>5. QED
  BY <1>2, <1>3, <1>4

\* Counting one id takes one unit of the cap; the two verdicts of the gate
\* are reached with one of the two spent.
LEMMA CountKeeps == GateInv /\ (CountId \/ OverBudget \/ WithinBudget) => GateInv'
<1> SUFFICES ASSUME GateInv, CountId \/ OverBudget \/ WithinBudget
             PROVE  GateInv'
  OBVIOUS
<1> USE DEF GateInv, GateTypeOK, CountInv, Decisions, End
<1>1. CASE CountId
  BY <1>1 DEF CountId
<1>2. CASE OverBudget
  BY <1>2 DEF OverBudget
<1>3. CASE WithinBudget
  BY <1>3 DEF WithinBudget
<1>4. QED
  BY <1>1, <1>2, <1>3

\* The strengthened invariant is inductive.
LEMMA GateInvariant == GateSpec => []GateInv
<1>1. GateInv /\ [GateNext]_gateVars => GateInv'
  <2> SUFFICES ASSUME GateInv, [GateNext]_gateVars PROVE GateInv'
    OBVIOUS
  <2>1. CASE GateNext
    BY <2>1, FlagsKeep, VerbKeeps, CountKeeps DEF GateNext
  <2>2. CASE UNCHANGED gateVars
    BY <2>2 DEF gateVars, GateInv, GateTypeOK, CountInv
  <2>3. QED
    BY <2>1, <2>2
<1>2. QED
  BY InitGateInv, <1>1, PTL DEF GateSpec

\* Every reachable state of a request is well typed (state of run_part,
\* src/c06/cli.bend, with the flags of src/c13/req.bend).
THEOREM GateTypes == GateSpec => []GateTypeOK
<1>1. GateInv => GateTypeOK
  BY DEF GateInv
<1>2. QED
  BY GateInvariant, <1>1, PTL

\* The node budget of over_ids is exact for every cap and every design: a
\* request passes iff the design is no larger than the cap.
THEOREM GateBudgetExact == GateSpec => []BudgetExact
<1>1. GateInv => BudgetExact
  BY DEF GateInv, GateTypeOK, CountInv, BudgetExact
<1>2. QED
  BY GateInvariant, <1>1, PTL

-----------------------------------------------------------------------------
(***************************************************************************)
(* The flags.                                                              *)
(***************************************************************************)

\* What parse_go has read before pos: a prefix of flags, whole (its last
\* token is no --max-nodes that waits for its numeral), the last cap in it,
\* and whether it has a --cancelled.
Capped(i) == IF Value[argv[i + 1]] <= CapMax THEN Value[argv[i + 1]] ELSE CapMax
LastCap(i) ==
  /\ argv[i] = "--max-nodes"
  /\ \A j \in 1..(pos - 1) : argv[j] = "--max-nodes" => j <= i
CapRead ==
  \/ cap = CapMax /\ \A i \in 1..(pos - 1) : argv[i] # "--max-nodes"
  \/ \E i \in 1..(pos - 1) : LastCap(i) /\ cap = Capped(i)
FlagsRead ==
  /\ pos \in 1..(Len(argv) + 1)
  /\ IsPrefixOfFlags(pos - 1)
  /\ pos > 1 => argv[pos - 1] # "--max-nodes"
  /\ cancel <=> \E i \in 1..(pos - 1) : argv[i] = "--cancelled"
  /\ CapRead

\* What the gate counts under: the argument list asks for a verb that meets
\* it, for no cancellation, and for this cap.
CountingAsAsked ==
  VerbAsked \notin Flags /\ VerbAsked # "new" /\ ~CancelAsked /\ cap = AskedCap

DInv ==
  /\ pc = "flags" => FlagsRead
  /\ pc = "count" => CountingAsAsked
  /\ DecidedAsAsked

\* The argument list never changes, nor does what it asks for.
LEMMA SameList ==
  ASSUME UNCHANGED <<argv, nodes>>
  PROVE  /\ VerbAsked' = VerbAsked /\ AskedCap' = AskedCap /\ Expected' = Expected
         /\ CancelAsked' <=> CancelAsked
         /\ \A n : IsPrefixOfFlags(n)' <=> IsPrefixOfFlags(n)
BY DEF VerbAsked, AskedCap, Expected, CancelAsked, FlagPrefix, IsPrefixOfFlags

\* Where no longer prefix of flags exists, the prefix read is the prefix
\* asked for, and the cap and the cancellation read are those asked for.
LEMMA ReadIsAsked ==
  ASSUME GateTypeOK, FlagsRead, \A m \in pos..Len(argv) : ~IsPrefixOfFlags(m)
  PROVE  /\ VerbAsked = IF AtEnd THEN "no-verb" ELSE argv[pos]
         /\ CancelAsked <=> cancel
         /\ AskedCap = cap
<1>1. Len(argv) \in Nat /\ pos \in Nat /\ pos - 1 \in 0..Len(argv)
  BY DEF GateTypeOK, FlagsRead
<1>2. FlagPrefix = pos - 1
  <2> DEFINE P(n) == /\ n \in 0..Len(argv) /\ IsPrefixOfFlags(n)
                     /\ \A m \in (n + 1)..Len(argv) : ~IsPrefixOfFlags(m)
  <2>1. P(pos - 1)
    BY <1>1 DEF FlagsRead
  <2>2. ASSUME NEW n, P(n) PROVE n = pos - 1
    <3>1. ~ (n > pos - 1)
      BY <1>1, <2>2
    <3>2. ~ (n < pos - 1)
      <4> SUFFICES ASSUME n < pos - 1 PROVE FALSE
        OBVIOUS
      <4>1. pos - 1 \in (n + 1)..Len(argv)
        BY <1>1, <2>2
      <4> QED
        BY <2>2, <4>1 DEF FlagsRead
    <3> QED
      BY <1>1, <2>2, <3>1, <3>2
  <2>3. FlagPrefix = CHOOSE n : P(n)
    BY DEF FlagPrefix
  <2> HIDE DEF P
  <2> QED
    BY <2>1, <2>2, <2>3
<1>3. VerbAsked = IF AtEnd THEN "no-verb" ELSE argv[pos]
  BY <1>1, <1>2 DEF VerbAsked, AtEnd
<1>4. CancelAsked <=> cancel
  BY <1>2 DEF CancelAsked, FlagsRead
<1>5. AskedCap = cap
  <2> DEFINE caps == {i \in 1..(pos - 1) : argv[i] = "--max-nodes"}
             last == CHOOSE i \in caps : \A j \in caps : j <= i
  <2>1. AskedCap = IF caps = {} THEN CapMax ELSE Capped(last)
    BY <1>2 DEF AskedCap, Capped
  <2>2. CASE caps = {}
    BY <2>1, <2>2 DEF FlagsRead, CapRead, LastCap
  <2>3. CASE caps # {}
    <3>1. PICK i \in 1..(pos - 1) : LastCap(i) /\ cap = Capped(i)
      BY <2>3 DEF FlagsRead, CapRead
    <3>2. i \in caps /\ \A j \in caps : j <= i
      BY <3>1 DEF LastCap
    <3>3. last \in caps /\ \A j \in caps : j <= last
      BY <3>2
    <3>4. caps \subseteq Nat
      BY <1>1
    <3> HIDE DEF caps, last
    <3>5. last = i
      BY <3>2, <3>3, <3>4
    <3> QED
      BY <2>1, <2>3, <3>1, <3>5
  <2> QED
    BY <2>2, <2>3
<1> QED
  BY <1>3, <1>4, <1>5

\* The reading stops at a token that begins no flag with what it needs: no
\* prefix of flags reaches it.
LEMMA StopsThere ==
  ASSUME GateTypeOK, FlagsRead,
         ~AtEnd => /\ argv[pos] # "--cancelled"
                   /\ argv[pos] = "--max-nodes" =>
                        ~(pos < Len(argv) /\ argv[pos + 1] \in Numerals)
  PROVE  \A m \in pos..Len(argv) : ~IsPrefixOfFlags(m)
<1> SUFFICES ASSUME NEW m \in pos..Len(argv), IsPrefixOfFlags(m) PROVE FALSE
  OBVIOUS
<1>1. Len(argv) \in Nat /\ pos \in Nat \ {0} /\ pos <= m /\ m <= Len(argv) /\ m \in Nat
  BY DEF GateTypeOK
<1>2. PICK value \in SUBSET (1..m) :
        \A i \in 1..m :
          IF i \in value
          THEN i > 1 /\ i - 1 \notin value /\ argv[i - 1] = "--max-nodes"
               /\ argv[i] \in Numerals
          ELSE \/ argv[i] = "--cancelled"
               \/ argv[i] = "--max-nodes" /\ i + 1 \in value
  BY DEF IsPrefixOfFlags
<1>3. pos \in 1..m /\ ~AtEnd
  BY <1>1 DEF AtEnd
<1>4. pos \notin value
  BY <1>2, <1>3 DEF FlagsRead
<1>5. argv[pos] = "--max-nodes" /\ pos + 1 \in value
  BY <1>2, <1>3, <1>4
<1>6. pos + 1 \in 1..m
  BY <1>2, <1>5
<1>7. argv[pos + 1] \in Numerals /\ pos < Len(argv)
  BY <1>1, <1>2, <1>5, <1>6
<1> QED
  BY <1>3, <1>5, <1>7

\* A flag read whole makes the prefix longer.
LEMMA LongerPrefix ==
  ASSUME NEW n \in Nat, IsPrefixOfFlags(n)
  PROVE  /\ argv[n + 1] = "--cancelled" => IsPrefixOfFlags(n + 1)
         /\ argv[n + 1] = "--max-nodes" /\ argv[n + 2] \in Numerals => IsPrefixOfFlags(n + 2)
<1>1. PICK value \in SUBSET (1..n) :
        \A i \in 1..n :
          IF i \in value
          THEN i > 1 /\ i - 1 \notin value /\ argv[i - 1] = "--max-nodes"
               /\ argv[i] \in Numerals
          ELSE \/ argv[i] = "--cancelled"
               \/ argv[i] = "--max-nodes" /\ i + 1 \in value
  BY DEF IsPrefixOfFlags
<1>2. ASSUME argv[n + 1] = "--cancelled" PROVE IsPrefixOfFlags(n + 1)
  <2>1. value \in SUBSET (1..(n + 1)) /\ n + 1 \notin value
    OBVIOUS
  <2>2. \A i \in 1..(n + 1) : i \in 1..n \/ i = n + 1
    OBVIOUS
  <2>3. \A i \in 1..(n + 1) :
          IF i \in value
          THEN i > 1 /\ i - 1 \notin value /\ argv[i - 1] = "--max-nodes"
               /\ argv[i] \in Numerals
          ELSE \/ argv[i] = "--cancelled"
               \/ argv[i] = "--max-nodes" /\ i + 1 \in value
    BY <1>1, <1>2, <2>1, <2>2
  <2> QED
    BY <2>1, <2>3 DEF IsPrefixOfFlags
<1>3. ASSUME argv[n + 1] = "--max-nodes", argv[n + 2] \in Numerals
      PROVE  IsPrefixOfFlags(n + 2)
  <2> DEFINE longer == value \cup {n + 2}
  <2>1. longer \in SUBSET (1..(n + 2)) /\ n + 1 \notin longer /\ n + 2 \in longer
    OBVIOUS
  <2>2. \A i \in 1..n : /\ i \in longer <=> i \in value
                        /\ i - 1 \in longer <=> i - 1 \in value
                        /\ i + 1 \in value => i + 1 \in longer
    OBVIOUS
  <2> HIDE DEF longer
  <2>3. \A i \in 1..(n + 2) : i \in 1..n \/ i = n + 1 \/ i = n + 2
    OBVIOUS
  <2>4. n + 2 > 1 /\ (n + 2) - 1 = n + 1 /\ (n + 1) + 1 = n + 2
    OBVIOUS
  <2>5. \A i \in 1..(n + 2) :
          IF i \in longer
          THEN i > 1 /\ i - 1 \notin longer /\ argv[i - 1] = "--max-nodes"
               /\ argv[i] \in Numerals
          ELSE \/ argv[i] = "--cancelled"
               \/ argv[i] = "--max-nodes" /\ i + 1 \in longer
    <3> TAKE i \in 1..(n + 2)
    <3>1. CASE i \in 1..n
      BY <1>1, <2>2, <3>1
    <3>2. CASE i = n + 1
      BY <1>3, <2>1, <2>4, <3>2
    <3>3. CASE i = n + 2
      BY <1>3, <2>1, <2>4, <3>3
    <3> QED
      BY <2>3, <3>1, <3>2, <3>3
  <2> QED
    BY <2>1, <2>5 DEF IsPrefixOfFlags
<1> QED
  BY <1>2, <1>3

-----------------------------------------------------------------------------
LEMMA CancelledKeeps ==
  ASSUME GateTypeOK, FlagsRead, CancelledFlag
  PROVE  FlagsRead'
<1>1. /\ argv' = argv /\ pos' = pos + 1 /\ cap' = cap /\ cancel' = TRUE
      /\ argv[pos] = "--cancelled" /\ pos \in 1..Len(argv) /\ nodes' = nodes
  BY DEF CancelledFlag, AtEnd, FlagsRead, GateTypeOK
<1>2. Len(argv) \in Nat /\ pos - 1 \in Nat /\ (pos - 1) + 1 = pos /\ pos' - 1 = pos
  BY <1>1 DEF GateTypeOK
<1>3. IsPrefixOfFlags(pos)
  BY <1>1, <1>2, LongerPrefix DEF FlagsRead
<1>4. IsPrefixOfFlags(pos - 1)'
  BY <1>1, <1>2, <1>3 DEF IsPrefixOfFlags
<1>5. \A i \in 1..pos : i \in 1..(pos - 1) \/ i = pos
  BY <1>2
<1>6. CapRead'
  <2>1. CASE cap = CapMax /\ \A i \in 1..(pos - 1) : argv[i] # "--max-nodes"
    <3>1. cap' = CapMax /\ \A i \in 1..(pos' - 1) : argv'[i] # "--max-nodes"
      BY <1>1, <1>2, <1>5, <2>1
    <3> QED
      BY <3>1 DEF CapRead
  <2>2. ASSUME NEW i \in 1..(pos - 1), LastCap(i), cap = Capped(i) PROVE CapRead'
    <3>1. i \in 1..(pos' - 1)
      BY <1>2
    <3>2. argv'[i] = "--max-nodes" /\ cap' = IF Value[argv'[i + 1]] <= CapMax THEN Value[argv'[i + 1]] ELSE CapMax
      BY <1>1, <2>2 DEF LastCap, Capped
    <3>3. \A j \in 1..(pos' - 1) : argv'[j] = "--max-nodes" => j <= i
      BY <1>1, <1>2, <1>5, <2>2 DEF LastCap
    <3> QED
      BY <3>1, <3>2, <3>3 DEF CapRead, LastCap, Capped
  <2> QED
    BY <2>1, <2>2 DEF FlagsRead, CapRead
<1>7. \E i \in 1..(pos' - 1) : argv'[i] = "--cancelled"
  BY <1>1, <1>2
<1> QED
  BY <1>1, <1>2, <1>4, <1>6, <1>7 DEF FlagsRead

LEMMA CapKeeps ==
  ASSUME GateTypeOK, FlagsRead, MaxNodesFlag, pos < Len(argv), argv[pos + 1] \in Numerals
  PROVE  FlagsRead'
<1>1. /\ argv' = argv /\ pos' = pos + 2 /\ cancel' = cancel /\ nodes' = nodes
      /\ argv[pos] = "--max-nodes" /\ pos \in 1..Len(argv)
      /\ cap' = IF Value[argv[pos + 1]] <= CapMax THEN Value[argv[pos + 1]] ELSE CapMax
  BY DEF MaxNodesFlag, AtEnd, FlagsRead, GateTypeOK
<1>2. /\ Len(argv) \in Nat /\ pos - 1 \in Nat /\ (pos - 1) + 1 = pos
      /\ (pos - 1) + 2 = pos + 1 /\ pos' - 1 = pos + 1
  BY <1>1 DEF GateTypeOK
<1>3. IsPrefixOfFlags(pos + 1)
  BY <1>1, <1>2, LongerPrefix DEF FlagsRead
<1>4. IsPrefixOfFlags(pos - 1)'
  BY <1>1, <1>2, <1>3 DEF IsPrefixOfFlags
<1>5. \A i \in 1..(pos + 1) : i \in 1..(pos - 1) \/ i = pos \/ i = pos + 1
  BY <1>2
<1>6. argv[pos + 1] \notin {"--max-nodes", "--cancelled"} /\ argv[pos] # "--cancelled"
  BY <1>1, GateConstants
<1>7. CapRead'
  <2>1. pos \in 1..(pos' - 1)
    BY <1>1, <1>2
  <2>2. \A j \in 1..(pos' - 1) : argv'[j] = "--max-nodes" => j <= pos
    BY <1>1, <1>2, <1>5, <1>6
  <2> QED
    BY <1>1, <2>1, <2>2 DEF CapRead, LastCap, Capped
<1>8. cancel' <=> \E i \in 1..(pos' - 1) : argv'[i] = "--cancelled"
  <2>1. (\E i \in 1..(pos + 1) : argv[i] = "--cancelled")
          <=> \E i \in 1..(pos - 1) : argv[i] = "--cancelled"
    BY <1>2, <1>5, <1>6
  <2> QED
    BY <1>1, <1>2, <2>1 DEF FlagsRead
<1>9. pos' \in 1..(Len(argv') + 1) /\ argv'[pos' - 1] # "--max-nodes"
  BY <1>1, <1>2, <1>6
<1> QED
  BY <1>4, <1>7, <1>8, <1>9 DEF FlagsRead

\* A flag that is not well formed refuses, as the list asks.
LEMMA BadFlagAsked ==
  ASSUME GateTypeOK, FlagsRead, ~AtEnd, argv[pos] \in Flags, argv[pos] # "--cancelled",
         argv[pos] = "--max-nodes" => ~(pos < Len(argv) /\ argv[pos + 1] \in Numerals)
  PROVE  Expected = "bad-flag"
<1>1. VerbAsked = argv[pos]
  BY StopsThere, ReadIsAsked
<1> QED
  BY <1>1, GateConstants DEF Expected

\* Every step keeps the decision the one asked for.
LEMMA StepDInv == ASSUME GateInv, DInv, [GateNext]_gateVars PROVE DInv'
<1>0. GateTypeOK /\ CountInv
  BY DEF GateInv
<1>1. CASE MaxNodesFlag
  <2>1. pc = "flags" /\ ~AtEnd /\ argv[pos] = "--max-nodes" /\ UNCHANGED <<argv, nodes>>
    BY <1>1 DEF MaxNodesFlag
  <2>2. FlagsRead /\ decision = "none"
    BY <1>0, <2>1 DEF DInv, CountInv
  <2>3. CASE pos < Len(argv) /\ argv[pos + 1] \in Numerals
    <3>1. pc' = "flags" /\ decision' = "none"
      BY <1>1, <2>1, <2>2, <2>3 DEF MaxNodesFlag
    <3> QED
      BY <1>0, <1>1, <2>2, <2>3, <3>1, CapKeeps DEF DInv, DecidedAsAsked
  <2>4. CASE ~(pos < Len(argv) /\ argv[pos + 1] \in Numerals)
    <3>1. pc' = "done" /\ decision' = "bad-flag"
      BY <1>1, <2>4 DEF MaxNodesFlag, End
    <3>2. Expected = "bad-flag"
      BY <1>0, <2>1, <2>2, <2>4, BadFlagAsked, GateConstants
    <3> QED
      BY <2>1, <3>1, <3>2, SameList DEF DInv, DecidedAsAsked
  <2> QED
    BY <2>3, <2>4
<1>2. CASE CancelledFlag
  <2>1. pc = "flags" /\ pc' = "flags" /\ decision' = decision
    BY <1>2 DEF CancelledFlag
  <2>2. FlagsRead /\ decision = "none"
    BY <1>0, <2>1 DEF DInv, CountInv
  <2> QED
    BY <1>0, <1>2, <2>1, <2>2, CancelledKeeps DEF DInv, DecidedAsAsked
<1>3. CASE UnknownFlag
  <2>1. /\ pc = "flags" /\ ~AtEnd /\ argv[pos] \in Flags \ {"--max-nodes", "--cancelled"}
        /\ pc' = "done" /\ decision' = "bad-flag" /\ UNCHANGED <<argv, nodes>>
    BY <1>3 DEF UnknownFlag, End
  <2>2. Expected = "bad-flag"
    BY <1>0, <2>1, BadFlagAsked DEF DInv
  <2> QED
    BY <2>1, <2>2, SameList DEF DInv, DecidedAsAsked
<1>4. CASE Verb
  <2>1. /\ pc = "flags" /\ (~AtEnd => argv[pos] \notin Flags)
        /\ verb' = (IF AtEnd THEN "no-verb" ELSE argv[pos])
        /\ UNCHANGED <<argv, nodes, cap, cancel>>
    BY <1>4 DEF Verb
  <2>2. FlagsRead /\ decision = "none"
    BY <1>0, <2>1 DEF DInv, CountInv
  <2>3. VerbAsked = verb' /\ (CancelAsked <=> cancel) /\ AskedCap = cap
    BY <1>0, <2>1, <2>2, StopsThere, ReadIsAsked, GateConstants
  <2>4. verb' \notin Flags
    BY <2>1, GateConstants DEF Tokens
  <2>5. CASE verb' = "new"
    <3>1. pc' = "done" /\ decision' = "created"
      BY <1>4, <2>5 DEF Verb, End
    <3>2. Expected = "created"
      BY <2>3, <2>4, <2>5 DEF Expected
    <3> QED
      BY <2>1, <3>1, <3>2, SameList DEF DInv, DecidedAsAsked
  <2>6. CASE verb' # "new" /\ cancel
    <3>1. pc' = "done" /\ decision' = "cancelled"
      BY <1>4, <2>6 DEF Verb, End
    <3>2. Expected = "cancelled"
      BY <2>3, <2>4, <2>6 DEF Expected
    <3> QED
      BY <2>1, <3>1, <3>2, SameList DEF DInv, DecidedAsAsked
  <2>7. CASE verb' # "new" /\ ~cancel
    <3>1. pc' = "count" /\ decision' = decision
      BY <1>4, <2>7 DEF Verb
    <3>2. CountingAsAsked'
      BY <2>1, <2>3, <2>4, <2>7, SameList DEF CountingAsAsked
    <3> QED
      BY <2>2, <3>1, <3>2 DEF DInv, DecidedAsAsked
  <2> QED
    BY <2>5, <2>6, <2>7
<1>5. CASE CountId
  <2>1. pc = "count" /\ pc' = "count" /\ UNCHANGED <<argv, nodes, cap, decision>>
    BY <1>5 DEF CountId
  <2> QED
    BY <2>1, SameList DEF DInv, DecidedAsAsked, CountingAsAsked
<1>6. CASE OverBudget \/ WithinBudget
  <2>1. /\ pc = "count" /\ pc' = "done" /\ UNCHANGED <<argv, nodes, cap, ids, left>>
        /\ \/ ids > 0 /\ left = 0 /\ decision' = "over"
           \/ ids = 0 /\ decision' = "go"
    BY <1>6 DEF OverBudget, WithinBudget, End
  <2>2. CountingAsAsked /\ nodes + left = cap + ids
    BY <1>0, <2>1 DEF DInv, CountInv
  <2>3. Expected = IF nodes > cap THEN "over" ELSE "go"
    BY <2>2 DEF CountingAsAsked, Expected
  <2>4. decision' = Expected
    BY <1>0, <2>1, <2>2, <2>3 DEF GateTypeOK
  <2> QED
    BY <2>1, <2>4, SameList DEF DInv, DecidedAsAsked
<1>7. CASE UNCHANGED gateVars
  <2>1. UNCHANGED <<argv, nodes, pc, pos, cap, cancel, decision>>
    BY <1>7 DEF gateVars
  <2>2. FlagsRead' <=> FlagsRead
    BY <2>1 DEF FlagsRead, CapRead, LastCap, Capped, IsPrefixOfFlags
  <2> QED
    BY <2>1, <2>2, SameList DEF DInv, DecidedAsAsked, CountingAsAsked
<1> QED
  BY <1>1, <1>2, <1>3, <1>4, <1>5, <1>6, <1>7 DEF GateNext

LEMMA InitDInv == ASSUME GateInit, GateInv PROVE DInv
<1>1. pc = "flags" /\ pos = 1 /\ cap = CapMax /\ cancel = FALSE /\ decision = "none"
  BY DEF GateInit
<1>2. Len(argv) \in Nat
  BY DEF GateInv, GateTypeOK
<1>3. 1..(pos - 1) = {}
  BY <1>1
<1>4. IsPrefixOfFlags(pos - 1)
  BY <1>3 DEF IsPrefixOfFlags
<1> QED
  BY <1>1, <1>2, <1>3, <1>4 DEF DInv, DecidedAsAsked, FlagsRead, CapRead

\* For every argument list, of any tokens and any length, and every design:
\* the decision is the one the list asks for, read as a whole (parse_go,
\* main_isnew_go and over_ids against docs/c13-errors.md).
THEOREM GateDecidesAsAsked == GateSpec => []DecidedAsAsked
<1>1. GateInv /\ DInv /\ [GateNext]_gateVars => DInv'
  BY StepDInv
<1>2. GateInit => DInv
  BY InitGateInv, InitDInv
<1>3. DInv => DecidedAsAsked
  BY DEF DInv
<1> QED
  BY <1>1, <1>2, <1>3, GateInvariant, PTL DEF GateSpec

-----------------------------------------------------------------------------
(***************************************************************************)
(* The design file.                                                        *)
(***************************************************************************)
(***************************************************************************)
(* The committed design depends on the file, on who writes and on what     *)
(* was loaded, and on nothing else.                                        *)
(***************************************************************************)
LEMMA SameCommitted ==
  ASSUME Writing' = Writing, base' = base, file' = file
  PROVE  Committed' = Committed
  BY DEF Committed, Quiet, Load

USE DEF Working, Ended, Writing, Quiet

(* The empty design builds: what new writes, and what an empty file holds. *)
LEMMA EmptyBuilds == Builds(EmptyDesign)
  BY DEF Builds, EmptyDesign, InputsStandBefore, IdsOf

(***************************************************************************)
(* The words for what a request came to differ from no word at all.        *)
(***************************************************************************)
LEMMA SaidSomething ==
  /\ \A w \in {"shown", "invalid", "rejected", "committed", "created", "killed"} :
       Said(w) # Nothing
  /\ \A d : [what |-> "shown", saw |-> d] # Nothing
  BY DEF Said, Nothing

(***************************************************************************)
(* A beginning of a design that builds loads as one that builds: its nodes *)
(* stand on nodes before them, and materials follow only when all nodes    *)
(* are there.                                                              *)
(***************************************************************************)
LEMMA BeginningBuilds ==
  ASSUME NEW d, Builds(d), NEW f \in Beginnings(d)
  PROVE  Builds(Load(f))
<1>1. CASE f.cut
  BY <1>1, EmptyBuilds DEF Load
<1>2. CASE ~f.cut
  <2>1. PICK n \in {k \in 0..Len(d.nodes) : 1..k \subseteq DOMAIN d.nodes} :
          f.d.nodes = [i \in 1..n |-> d.nodes[i]]
    BY DEF Beginnings, FirstNodes
  <2>2. n \in Nat /\ 1..n \subseteq DOMAIN d.nodes
    BY <2>1
  <2>3. DOMAIN f.d.nodes = 1..n /\ \A i \in 1..n : f.d.nodes[i] = d.nodes[i]
    BY <2>1
  <2>4. \A i, j \in DOMAIN f.d.nodes : f.d.nodes[i].id = f.d.nodes[j].id => i = j
    BY <2>2, <2>3 DEF Builds
  <2>5. InputsStandBefore(f.d.nodes)
    <3> SUFFICES ASSUME NEW i \in 1..n, d.nodes[i].base # 0
                 PROVE  \E j \in 1..(i - 1) : f.d.nodes[j].id = d.nodes[i].base
      BY <2>3 DEF InputsStandBefore
    <3>1. PICK j \in 1..(i - 1) : d.nodes[j].id = d.nodes[i].base
      BY <2>2 DEF Builds, InputsStandBefore
    <3>2. j \in 1..n
      BY <2>2
    <3> QED
      BY <2>3, <3>1, <3>2
  <2>6. f.d.mats \subseteq IdsOf(f.d.nodes)
    BY DEF Beginnings, Builds
  <2> QED
    BY <1>2, <2>4, <2>5, <2>6 DEF Load, Builds
<1> QED
  BY <1>1, <1>2

(***************************************************************************)
(* What a request that is killed while it writes leaves.                   *)
(***************************************************************************)
LEMMA TornBuilds ==
  ASSUME IInv, NEW r \in Requests, stage[r] = "writing"
  PROVE  Builds(Load(file)) /\ Load(file) \in LeftOf(draft[r])
<1>1. Builds(draft[r])
  BY EmptyBuilds DEF IInv, Drafted
<1>2. file = Whole(EmptyDesign) \/ file \in Beginnings(draft[r])
  BY DEF IInv, Written
<1>3. Builds(Load(file))
  BY <1>1, <1>2, BeginningBuilds, EmptyBuilds DEF Load, Whole
<1> QED
  BY <1>2, <1>3 DEF LeftOf

LEMMA InitIInv == ASSUME Init PROVE IInv
  BY RequestsAssumption
  DEF Init, IInv, Shaped, OneAtWork, Loaded, Drafted, Undecided, Written, FileBuilds,
      Whole, Load

(***************************************************************************)
(* One lemma for each step that moves the file or the draft.               *)
(***************************************************************************)
LEMMA StepIInv ==
  ASSUME IInv, [Next]_vars
  PROVE  IInv'
<1> USE DEF IInv, Shaped, OneAtWork, Loaded, Drafted, Undecided, Written, FileBuilds, Load
<1>1. CASE UNCHANGED vars \/ AllTold
  BY <1>1 DEF vars, AllTold
<1>2. ASSUME NEW r \in Requests, Query(r) PROVE IInv'
  BY <1>2, SaidSomething DEF Query, InTurn, Answers
<1>3. ASSUME NEW r \in Requests, Read(r) PROVE IInv'
  BY <1>3 DEF Read, InTurn
<1>4. ASSUME NEW r \in Requests, Refuse(r) PROVE IInv'
  BY <1>4, SaidSomething DEF Refuse, Answers
<1>5. ASSUME NEW r \in Requests, Accept(r) PROVE IInv'
  BY <1>5 DEF Accept
<1>6. ASSUME NEW r \in Requests, New(r) PROVE IInv'
  BY <1>6 DEF New, InTurn
<1>7. ASSUME NEW r \in Requests, Truncate(r) PROVE IInv'
  BY <1>7 DEF Truncate
<1>8. ASSUME NEW r \in Requests, WritePart(r) PROVE IInv'
  BY <1>8 DEF WritePart
<1>9. ASSUME NEW r \in Requests, WriteRest(r) PROVE IInv'
  BY <1>9, SaidSomething, EmptyBuilds DEF WriteRest, Answers, Whole
<1>10. ASSUME NEW r \in Requests, Tell(r) PROVE IInv'
  BY <1>10 DEF Tell
<1>11. ASSUME NEW r \in Requests, Kill(r) PROVE IInv'
  BY <1>11, TornBuilds DEF Kill
<1>12. QED
  BY <1>1, <1>2, <1>3, <1>4, <1>5, <1>6, <1>7, <1>8, <1>9, <1>10, <1>11 DEF Next, Serve

LEMMA Inductive == Spec => []IInv
<1>1. Init => IInv
  BY InitIInv
<1>2. IInv /\ [Next]_vars => IInv'
  BY StepIInv
<1>3. QED
  BY <1>1, <1>2, PTL DEF Spec

(***************************************************************************)
(* Whenever nobody is writing, the next request loads a design that        *)
(* builds, wherever requests were killed: apply evaluates before it opens  *)
(* the file (commit_e), one request at a time, and what a torn write left  *)
(* is a beginning.                                                         *)
(***************************************************************************)
THEOREM FileAlwaysBuilds == Spec => []FileBuilds
<1>1. IInv => FileBuilds
  BY DEF IInv
<1>2. QED
  BY Inductive, <1>1, PTL

-----------------------------------------------------------------------------
(***************************************************************************)
(* Refinement.  The committed design is what the file held before the one  *)
(* writer opened it.                                                       *)
(***************************************************************************)
LEMMA CommittedIs ==
  ASSUME IInv
  PROVE  /\ Quiet => Committed = Load(file)
         /\ \A r \in Requests : stage[r] = "writing" => Committed = base[r]
<1>1. ASSUME Quiet PROVE Committed = Load(file)
  BY <1>1 DEF Committed
<1>2. ASSUME NEW r \in Requests, stage[r] = "writing" PROVE Committed = base[r]
  <2>1. \A q \in Writing : q = r
    BY <1>2 DEF IInv, OneAtWork
  <2>2. r \in Writing
    BY <1>2
  <2>3. (CHOOSE q \in Writing : TRUE) = r
    BY <2>1, <2>2
  <2>4. ~Quiet
    BY <2>2
  <2>5. QED
    BY <2>3, <2>4 DEF Committed
<1>3. QED
  BY <1>1, <1>2

LEMMA InitPromised == ASSUME Init PROVE Promise!Init
<1>1. Committed = Initial
  BY DEF Init, Committed, Load, Whole
<1>2. QED
  BY <1>1 DEF Init, Promise!Init, Nothing, Said, Promise!Nothing, Promise!Said

(***************************************************************************)
(* While nobody writes before or after a step that leaves the file alone,  *)
(* the committed design stays.                                             *)
(***************************************************************************)
LEMMA StaysCommitted ==
  ASSUME IInv, IInv', Quiet, Quiet', UNCHANGED file
  PROVE  Committed' = Committed
<1>1. Committed = Load(file)
  BY CommittedIs
<1>2. Committed' = Load(file)
  BY DEF Committed, Load
<1>3. QED
  BY <1>1, <1>2

LEMMA StepPromised ==
  ASSUME IInv, IInv', [Next]_vars
  PROVE  [Promise!Next]_(Promise!avars)
<1> DEFINE Same == Committed' = Committed /\ UNCHANGED <<verdict, told>>
<1> USE DEF Promise!avars, Promise!Said, Promise!Nothing, Said, Nothing
<1>1. CASE UNCHANGED vars \/ AllTold
  <2>1. UNCHANGED vars
    BY <1>1 DEF AllTold
  <2>2. Writing' = Writing /\ base' = base /\ file' = file
    BY <2>1 DEF vars
  <2>3. Committed' = Committed
    BY <2>2, SameCommitted
  <2>4. QED
    BY <2>1, <2>3 DEF vars
<1>2. ASSUME NEW r \in Requests, Query(r) PROVE Promise!Look(r)
  <2>1. Quiet /\ Quiet' /\ UNCHANGED file
    BY <1>2 DEF Query, InTurn, Answers, IInv, Shaped
  <2>2. Committed' = Committed /\ Committed = Load(file)
    BY <2>1, StaysCommitted DEF Committed
  <2>3. QED
    BY <1>2, <2>2 DEF Query, Answers, Promise!Look, Promise!Becomes, IInv, Undecided
<1>3. ASSUME NEW r \in Requests, Read(r) PROVE Same
  <2>1. Quiet /\ Quiet' /\ UNCHANGED file
    BY <1>3 DEF Read, InTurn, IInv, Shaped
  <2>2. QED
    BY <1>3, <2>1, StaysCommitted DEF Read
<1>4. ASSUME NEW r \in Requests, Refuse(r) PROVE Promise!Invalid(r) \/ Promise!Reject(r)
  <2>1. Quiet /\ Quiet' /\ UNCHANGED file
    BY <1>4 DEF Refuse, Answers, IInv, Shaped, OneAtWork
  <2>2. Committed' = Committed /\ Committed = base[r]
    BY <1>4, <2>1, StaysCommitted, CommittedIs DEF Refuse, IInv, Loaded
  <2>3. Kind[r] = "apply" /\ draft[r] = Edited(base[r], Edits[r])
    BY <1>4 DEF Refuse, IInv, Drafted
  <2>4. verdict[r] = Nothing /\ told[r] = Nothing /\ UNCHANGED told
    BY <1>4 DEF Refuse, IInv, Undecided
  <2>5. CASE EditsOk(Edits[r])
    BY <1>4, <2>2, <2>3, <2>4, <2>5 DEF Refuse, Answers, Promise!Reject, Promise!Becomes
  <2>6. CASE ~EditsOk(Edits[r])
    BY <1>4, <2>2, <2>3, <2>4, <2>6 DEF Refuse, Answers, Promise!Invalid, Promise!Becomes
  <2>7. QED
    BY <2>5, <2>6
<1>5. ASSUME NEW r \in Requests, Accept(r) PROVE Same
  <2>1. Quiet /\ Quiet' /\ UNCHANGED file
    BY <1>5 DEF Accept, IInv, Shaped, OneAtWork
  <2>2. QED
    BY <1>5, <2>1, StaysCommitted DEF Accept
<1>6. ASSUME NEW r \in Requests, New(r) PROVE Same
  <2>1. Quiet /\ Quiet' /\ UNCHANGED file
    BY <1>6 DEF New, InTurn, IInv, Shaped
  <2>2. QED
    BY <1>6, <2>1, StaysCommitted DEF New
<1>7. ASSUME NEW r \in Requests, Truncate(r) PROVE Same
  <2>1. Quiet /\ stage'[r] = "writing" /\ base'[r] = Load(file)
    BY <1>7 DEF Truncate, IInv, Shaped, OneAtWork, Loaded
  <2>2. Committed = Load(file)
    BY <2>1, CommittedIs
  <2>3. \A q \in Writing' : q = r
    BY <1>7, <2>1 DEF IInv, OneAtWork
  <2>4. r \in Writing'
    BY <2>1
  <2>5. Committed' = base'[r]
    BY <2>3, <2>4 DEF Committed
  <2>6. QED
    BY <1>7, <2>1, <2>2, <2>5 DEF Truncate
<1>8. ASSUME NEW r \in Requests, WritePart(r) PROVE Same
  <2>1. Committed = base[r] /\ r \in Writing
    BY <1>8, CommittedIs DEF WritePart
  <2>2. Writing' = Writing /\ base' = base
    BY <1>8 DEF WritePart
  <2>3. Committed' = Committed
    BY <2>1, <2>2 DEF Committed
  <2>4. QED
    BY <1>8, <2>3 DEF WritePart
<1>9. ASSUME NEW r \in Requests, WriteRest(r) PROVE Promise!Commit(r) \/ Promise!StartOver(r)
  <2>1. Committed = base[r]
    BY <1>9, CommittedIs DEF WriteRest
  <2>2. Quiet'
    BY <1>9 DEF WriteRest, Answers, IInv, Shaped, OneAtWork
  <2>3. Committed' = draft[r]
    BY <1>9, <2>2 DEF WriteRest, Whole, Committed, Load
  <2>4. verdict[r] = Nothing /\ told[r] = Nothing /\ UNCHANGED told
    BY <1>9 DEF WriteRest, IInv, Undecided
  <2>5. CASE Kind[r] = "apply"
    <3>1. /\ EditsOk(Edits[r]) /\ Builds(draft[r])
          /\ draft[r] = Edited(base[r], Edits[r])
      BY <1>9, <2>5 DEF WriteRest, IInv, Drafted
    <3>2. QED
      BY <1>9, <2>1, <2>3, <2>4, <2>5, <3>1
      DEF WriteRest, Answers, Promise!Commit, Promise!Becomes
  <2>6. CASE Kind[r] = "new"
    <3>1. draft[r] = EmptyDesign
      BY <1>9, <2>6 DEF WriteRest, IInv, Drafted
    <3>2. QED
      BY <1>9, <2>3, <2>4, <2>6, <3>1
      DEF WriteRest, Answers, Promise!StartOver, Promise!Becomes
  <2>7. QED
    BY <1>9, <2>5, <2>6 DEF WriteRest, IInv, Drafted
<1>10. ASSUME NEW r \in Requests, Tell(r) PROVE Promise!Hear(r)
  <2>1. Quiet /\ Quiet' /\ UNCHANGED file
    BY <1>10 DEF Tell, IInv, Shaped, OneAtWork
  <2>2. QED
    BY <1>10, <2>1, StaysCommitted DEF Tell, Promise!Hear, IInv, Undecided
<1>11. ASSUME NEW r \in Requests, Kill(r), stage[r] # "writing" PROVE Promise!Lose(r)
  <2>1. Writing' = Writing
    BY <1>11 DEF Kill, IInv, Shaped
  <2>2. base' = base /\ file' = file
    BY <1>11 DEF Kill
  <2>3. Committed' = Committed
    BY <2>1, <2>2, SameCommitted
  <2>4. QED
    BY <1>11, <2>3 DEF Kill, Promise!Lose, IInv, Undecided
<1>12. ASSUME NEW r \in Requests, Kill(r), stage[r] = "writing" PROVE Promise!Tear(r)
  <2>1. Committed = base[r]
    BY <1>12, CommittedIs
  <2>2. Quiet'
    BY <1>12 DEF Kill, IInv, Shaped, OneAtWork
  <2>3. Committed' = Load(file)
    BY <1>12, <2>2 DEF Kill, Committed, Load
  <2>4. Committed' \in LeftOf(draft[r])
    BY <1>12, <2>3, TornBuilds
  <2>5. verdict[r] = Nothing /\ told[r] = Nothing /\ UNCHANGED verdict
    BY <1>12 DEF Kill, IInv, Undecided
  <2>6. told' = [told EXCEPT ![r] = Said("killed")]
    BY <1>12 DEF Kill
  <2>7. CASE Kind[r] = "new"
    <3>1. Promise!Asked(r) = draft[r]
      BY <1>12, <2>7 DEF Promise!Asked, IInv, Drafted
    <3> QED
      BY <2>4, <2>5, <2>6, <2>7, <3>1 DEF Promise!Tear
  <2>8. CASE Kind[r] = "apply"
    <3>1. Promise!Asked(r) = draft[r] /\ EditsOk(Edits[r]) /\ Builds(draft[r])
      BY <1>12, <2>1, <2>8 DEF Promise!Asked, IInv, Drafted
    <3> QED
      BY <2>4, <2>5, <2>6, <2>8, <3>1 DEF Promise!Tear
  <2> QED
    BY <1>12, <2>7, <2>8 DEF IInv, Drafted
<1>13. QED
  BY <1>1, <1>2, <1>3, <1>4, <1>5, <1>6, <1>7, <1>8, <1>9, <1>10, <1>11, <1>12
  DEF Next, Serve, Promise!Next

(***************************************************************************)
(* Served in turn and killed at any step, every request takes effect at    *)
(* one moment and is answered with what took effect; only the design of a  *)
(* request killed inside write_file may be cut short, to a beginning of    *)
(* itself.  For every set of requests, edits and kills.                    *)
(***************************************************************************)
THEOREM ApplyIsAtomic == Spec => Linearizable
<1>1. Init => Promise!Init
  BY InitPromised
<1>2. IInv /\ IInv' /\ [Next]_vars => [Promise!Next]_(Promise!avars)
  BY StepPromised
<1>3. QED
  BY Inductive, <1>1, <1>2, PTL DEF Spec, Linearizable, Promise!Spec
=============================================================================
