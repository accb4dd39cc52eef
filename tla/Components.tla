---------------------------- MODULE Components ----------------------------
(***************************************************************************)
(* The components of a graph by hooking and pointer jumping (components in *)
(* src/base/par.bend), which decide whether a shell is in one piece        *)
(* (sh_conn_ok in src/c04/ops.bend).                                       *)
(*                                                                         *)
(* Every node points at a label.  A round hooks the greater label of each  *)
(* edge onto the least label it meets and then jumps until all point at    *)
(* roots.  The round that finds nothing to hook settles the answer; one    *)
(* that is not settled when the rounds run out is not an answer, and a     *)
(* shell is refused for it.                                                *)
(*                                                                         *)
(* Nodes are the places 1 .. n of the shell's list of faces, labels are a  *)
(* list of n places (both count from 0 in the code).                       *)
(***************************************************************************)
EXTENDS BrepCheck, FiniteSetsExt

\* The labels that hook, each onto the least label across one of its edges.
Crossing(edges, ps) == {{ps[e[1]], ps[e[2]]} : e \in {d \in edges : ps[d[1]] # ps[d[2]]}}
Hooks(edges, ps) ==
  LET pairs == Crossing(edges, ps) IN
  [hi \in {Max(c) : c \in pairs} |-> Min({Min(c) : c \in {d \in pairs : Max(d) = hi}})]

List(ps) == SubSeq(ps, 1, Len(ps))
Apply(hooks, ps) ==
  List([i \in DOMAIN ps |-> IF i \in DOMAIN hooks THEN hooks[i] ELSE ps[i]])

\* As many jumps as a chain through all n nodes needs, and one more.
RoundsOf(n) == 1 + Min({d \in 0 .. n : 2 ^ d >= n})
Shortcut_Once(r, ps) == List([i \in DOMAIN ps |-> ps[ps[i]]])
Shortcut(r, ps) ==
  LET jump[k \in 0 .. r] ==
        IF k = 0 THEN ps
                 ELSE LET q == jump[k - 1] IN List([i \in DOMAIN ps |-> q[q[i]]])
  IN jump[r]

Round(n, edges, ps) ==
  LET hooks == Hooks(edges, ps)
  IN  [done |-> DOMAIN hooks = {}, ps |-> Shortcut(RoundsOf(n), Apply(hooks, ps))]

\* What the graph's labels are after some rounds; the code allows 64.
Labelled(n, edges, rounds) ==
  LET after[k \in 0 .. rounds] ==
        IF k = 0 THEN [done |-> FALSE, ps |-> [i \in 1 .. n |-> i]]
                 ELSE LET s == after[k - 1] IN IF s.done THEN s ELSE Round(n, edges, s.ps)
  IN after[rounds]

\* sh_adj and cc_conn: the graph of a shell, and all faces labelled like the first.
Adjacency(fs) == {e \in (DOMAIN fs) \X (DOMAIN fs) : e[1] < e[2] /\ Joined(b, fs, e[1], e[2])}
ConnectedByRounds(fs) ==
  LET cc == Labelled(Len(fs), Adjacency(fs), 64)
  IN  IsInjective(fs) /\ cc.done /\ \A i \in DOMAIN fs : cc.ps[i] = 1

-----------------------------------------------------------------------------
(***************************************************************************)
(* The 64 rounds are enough and decide as reaching from face to face does  *)
(* (ShellConnected).  Two rounds leave at most half the roots of a piece   *)
(* that has several, although one round may hook a single root: one that   *)
(* keeps all its neighbours off is met, in the next round, by the lesser   *)
(* root they went to.  One more round finds nothing to hook.  So a shell   *)
(* settles within one round and two for each time its faces can be halved, *)
(* 63 for what a U32 counts, if each round jumps far enough.               *)
(***************************************************************************)
Halvings(n) == Max({d \in 0 .. n : 2 ^ d <= n})
RoundsSettle ==
  stage = "connection" /\ result = "none" =>
    \A i \in DOMAIN b.shs :
      LET fs == b.shs[i].faces
      IN  /\ Labelled(Len(fs), Adjacency(fs), 2 * Halvings(Len(fs)) + 1).done
          /\ ConnectedByRounds(fs) <=> ShellConnected(b, fs)
=============================================================================
