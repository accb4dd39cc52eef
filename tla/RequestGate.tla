---------------------------- MODULE RequestGate ----------------------------
(***************************************************************************)
(* The request gate of the bendcad command line (packet c13).              *)
(*                                                                         *)
(*   bendcad <design> [--max-nodes N] [--cancelled] <verb> [args...]       *)
(*                                                                         *)
(* The flags are read left to right until a token that is no flag, which   *)
(* is the verb.  A request whose flags are well formed is then decided     *)
(* before anything is evaluated: a cancelled request first, then a design  *)
(* with more node ids than the cap.  The verb "new" reaches neither the    *)
(* design nor the gate.  Node ids are counted one by one against the cap,  *)
(* as the source does, so that a design is never counted past it.          *)
(***************************************************************************)
EXTENDS Naturals, Sequences

CONSTANTS
  Flags,      \* the tokens that begin with two dashes
  Words,      \* the other tokens that are no numeral: verbs and arguments
  Numerals,   \* the tokens that U64.read reads
  Value,      \* the number each numeral stands for
  CapMax,     \* the cap of a request that names none
  MaxArgs,    \* bound: length of the argument list
  MaxNodes    \* bound: number of nodes of the design

Tokens == Flags \cup Words \cup Numerals

ASSUME GateConstants ==
  /\ {"--max-nodes", "--cancelled"} \subseteq Flags
  /\ "new" \in Words /\ "no-verb" \notin Tokens
  /\ Flags \cap Words = {} /\ Flags \cap Numerals = {}
  /\ Value \in [Numerals -> Nat]
  /\ CapMax \in Nat
  /\ MaxArgs \in Nat /\ MaxNodes \in Nat

VARIABLES
  argv,     \* the tokens after the design path
  nodes,    \* how many nodes the design file holds
  pc,       \* "flags", "count", "done"
  pos,      \* the next token
  cap,      \* the cap read so far
  cancel,   \* whether --cancelled was read
  verb,     \* the verb, or "no-verb" while there is none
  ids,      \* node ids not counted yet
  left,     \* what is left of the cap
  decision  \* "none", then how the request ended

gateVars == <<argv, nodes, pc, pos, cap, cancel, verb, ids, left, decision>>

Decisions == {"none", "bad-flag", "created", "cancelled", "over", "go"}

GateInit ==
  /\ argv \in UNION {[1..n -> Tokens] : n \in 0..MaxArgs}
  /\ nodes \in 0..MaxNodes
  /\ pc = "flags" /\ pos = 1
  /\ cap = CapMax /\ cancel = FALSE /\ verb = "no-verb"
  /\ ids = nodes /\ left = 0
  /\ decision = "none"

End(v) == pc' = "done" /\ decision' = v

AtEnd == pos > Len(argv)

(***************************************************************************)
(* --max-nodes N: the last one wins, an unreadable or missing N refuses.   *)
(***************************************************************************)
MaxNodesFlag ==
  /\ pc = "flags" /\ ~AtEnd /\ argv[pos] = "--max-nodes"
  /\ \/ /\ pos < Len(argv) /\ argv[pos + 1] \in Numerals
        /\ LET v == Value[argv[pos + 1]]
           IN  cap' = IF v <= CapMax THEN v ELSE CapMax
        /\ pos' = pos + 2
        /\ UNCHANGED <<pc, decision>>
     \/ /\ ~(pos < Len(argv) /\ argv[pos + 1] \in Numerals)
        /\ cap' = CapMax
        /\ End("bad-flag")
        /\ UNCHANGED pos
  /\ UNCHANGED <<argv, nodes, cancel, verb, ids, left>>

CancelledFlag ==
  /\ pc = "flags" /\ ~AtEnd /\ argv[pos] = "--cancelled"
  /\ cancel' = TRUE /\ pos' = pos + 1
  /\ UNCHANGED <<argv, nodes, pc, cap, verb, ids, left, decision>>

UnknownFlag ==
  /\ pc = "flags" /\ ~AtEnd
  /\ argv[pos] \in Flags \ {"--max-nodes", "--cancelled"}
  /\ End("bad-flag")
  /\ UNCHANGED <<argv, nodes, pos, cap, cancel, verb, ids, left>>

\* Mutant of Verb: the budget is counted before cancellation is looked at.
Verb_BudgetFirst ==
  /\ pc = "flags" /\ (~AtEnd => argv[pos] \notin Flags)
  /\ verb' = IF AtEnd THEN "no-verb" ELSE argv[pos]
  /\ CASE verb' = "new"                              -> End("created") /\ UNCHANGED left
       [] verb' # "new" /\ cancel /\ nodes <= cap     -> End("cancelled") /\ UNCHANGED left
       [] OTHER                                      -> /\ pc' = "count" /\ left' = cap
                                                        /\ UNCHANGED decision
  /\ UNCHANGED <<argv, nodes, pos, cap, cancel, ids>>

(***************************************************************************)
(* The verb, or the end of the arguments (a request without a verb is      *)
(* gated like any other).  "new" writes an empty design at once; any other *)
(* verb reads the design and meets the gate: a cancelled request ends      *)
(* here, whatever the size of the design.                                  *)
(***************************************************************************)
Verb ==
  /\ pc = "flags" /\ (~AtEnd => argv[pos] \notin Flags)
  /\ verb' = IF AtEnd THEN "no-verb" ELSE argv[pos]
  /\ CASE verb' = "new"               -> End("created") /\ UNCHANGED left
       [] verb' # "new" /\ cancel     -> End("cancelled") /\ UNCHANGED left
       [] OTHER                       -> /\ pc' = "count" /\ left' = cap
                                         /\ UNCHANGED decision
  /\ UNCHANGED <<argv, nodes, pos, cap, cancel, ids>>

\* Mutant of CountId: the cap is not looked at while there are ids.
CountId_PastCap ==
  /\ pc = "count" /\ ids > 0
  /\ ids' = ids - 1 /\ left' = left - 1
  /\ UNCHANGED <<argv, nodes, pc, pos, cap, cancel, verb, decision>>

(***************************************************************************)
(* over_ids: one id and one unit of the cap at a time.                     *)
(***************************************************************************)
CountId ==
  /\ pc = "count" /\ ids > 0 /\ left > 0
  /\ ids' = ids - 1 /\ left' = left - 1
  /\ UNCHANGED <<argv, nodes, pc, pos, cap, cancel, verb, decision>>

\* Mutant of OverBudget: refuses when the last unit of the cap is taken.
OverBudget_Early ==
  /\ pc = "count" /\ ids > 0 /\ left <= 1
  /\ End("over")
  /\ UNCHANGED <<argv, nodes, pos, cap, cancel, verb, ids, left>>

OverBudget ==
  /\ pc = "count" /\ ids > 0 /\ left = 0
  /\ End("over")
  /\ UNCHANGED <<argv, nodes, pos, cap, cancel, verb, ids, left>>

\* Mutant of WithinBudget: lets through only a design below the cap.
WithinBudget_Strict ==
  /\ pc = "count" /\ ids = 0 /\ left > 0
  /\ End("go")
  /\ UNCHANGED <<argv, nodes, pos, cap, cancel, verb, ids, left>>

WithinBudget ==
  /\ pc = "count" /\ ids = 0
  /\ End("go")
  /\ UNCHANGED <<argv, nodes, pos, cap, cancel, verb, ids, left>>

GateNext ==
  \/ MaxNodesFlag \/ CancelledFlag \/ UnknownFlag \/ Verb
  \/ CountId \/ OverBudget \/ WithinBudget

GateSpec == GateInit /\ [][GateNext]_gateVars /\ WF_gateVars(GateNext)
-----------------------------------------------------------------------------
(***************************************************************************)
(* Properties.                                                             *)
(***************************************************************************)

\* Every variable has its type: the state of one request of run_part.
GateTypeOK ==
  /\ argv \in Seq(Tokens) /\ nodes \in Nat
  /\ pc \in {"flags", "count", "done"} /\ pos \in Nat \ {0}
  /\ cap \in Nat /\ cancel \in BOOLEAN /\ verb \in Tokens \cup {"no-verb"}
  /\ ids \in Nat /\ left \in Nat
  /\ decision \in Decisions

\* The node budget is exact at its boundary (laws exact_budget_ok and
\* one_over_refuses, over_ids): a request goes through iff the design has
\* at most as many nodes as the cap, and is refused iff it has more.
BudgetExact ==
  /\ decision = "go" => nodes <= cap
  /\ decision = "over" => nodes > cap

\* The positions the flags occupy, read off the whole argument list: the
\* longest prefix made of --cancelled and of --max-nodes with its numeral.
\* This is what docs/c13-errors.md says of the flags, independently of the
\* left-to-right reading of parse_go.
IsPrefixOfFlags(n) ==
  \E value \in SUBSET (1..n) :
    \A i \in 1..n :
      IF i \in value
      THEN i > 1 /\ i - 1 \notin value /\ argv[i - 1] = "--max-nodes"
           /\ argv[i] \in Numerals
      ELSE \/ argv[i] = "--cancelled"
           \/ argv[i] = "--max-nodes" /\ i + 1 \in value

FlagPrefix ==
  CHOOSE n \in 0..Len(argv) :
    /\ IsPrefixOfFlags(n)
    /\ \A m \in (n + 1)..Len(argv) : ~IsPrefixOfFlags(m)

CancelAsked == \E i \in 1..FlagPrefix : argv[i] = "--cancelled"

AskedCap ==
  LET caps == {i \in 1..FlagPrefix : argv[i] = "--max-nodes"}
      last == CHOOSE i \in caps : \A j \in caps : j <= i
  IN  IF caps = {} THEN CapMax
      ELSE IF Value[argv[last + 1]] <= CapMax
           THEN Value[argv[last + 1]] ELSE CapMax

VerbAsked == IF FlagPrefix = Len(argv) THEN "no-verb" ELSE argv[FlagPrefix + 1]

\* What a whole request comes to, from its argument list and its design:
\* a token left in flag position refuses, "new" ignores the gate, then
\* cancellation wins over the budget (law cancel_wins), then the budget.
Expected ==
  CASE VerbAsked \in Flags      -> "bad-flag"
    [] VerbAsked = "new"        -> "created"
    [] OTHER -> IF CancelAsked THEN "cancelled"
                ELSE IF nodes > AskedCap THEN "over" ELSE "go"

\* The decision of the gate is the one the argument list asks for.
DecidedAsAsked == decision # "none" => decision = Expected

\* Every request is decided (parse_go and over_ids consume their lists).
EventuallyDecided == <>(decision # "none")
=============================================================================
