------------------------------ MODULE MCBrep ------------------------------
(***************************************************************************)
(* Bodies for TLC, built from plans.  A plan numbers its parts; Build puts *)
(* them in the stores in the order of the stores, each with the next       *)
(* stamp, as pushing them one after the other would.                       *)
(***************************************************************************)
EXTENDS Components

InOrder(s) ==
  [k \in 1..Cardinality(s) |-> CHOOSE x \in s : Cardinality({y \in s : y < x}) = k - 1]
Each(n)    == [i \in 1..n |-> <<i>>]

Build(p) ==
  LET ne == Len(p.ends)  nc == Len(p.ces)  nl == Len(p.loops)  nf == Len(p.faces)
      ns == Len(p.roles)
      V(i) == [i |-> i, g |-> i]
      E(i) == [i |-> i, g |-> p.nv + i]
      C(i) == [i |-> i, g |-> p.nv + ne + i]
      L(i) == [i |-> i, g |-> p.nv + ne + nc + i]
      F(i) == [i |-> i, g |-> p.nv + ne + nc + nl + i]
      S(i) == [i |-> i, g |-> p.nv + ne + nc + nl + nf + i]
      O(i) == [i |-> i, g |-> p.nv + ne + nc + nl + nf + ns + i]
      Members(list, H(_)) == [j \in DOMAIN list |-> H(list[j])]
      shellsWith(role) == InOrder({s \in 1..ns : p.roles[s] = role})
      outers == shellsWith("outer")
      kind == [s \in 1..ns |-> CASE p.roles[s] \in {"outer", "free"} -> "outer"
                                 [] p.roles[s] = "cavity" -> "inner"
                                 [] p.roles[s] = "open"   -> "open"]
  IN [vs  |-> [i \in 1..p.nv |-> [gen |-> V(i).g]],
      es  |-> [i \in 1..ne |-> [gen |-> E(i).g, v0 |-> V(p.ends[i][1]),
                                v1 |-> V(p.ends[i][2]), degenerate |-> i \in p.poles]],
      ces |-> [i \in 1..nc |-> [gen |-> C(i).g, edge |-> E(p.ces[i][1]), fwd |-> p.ces[i][2]]],
      lps |-> [i \in 1..nl |->
                 [gen |-> L(i).g, ces |-> Members(p.loops[i], C),
                  kind |-> IF \E f \in 1..nf : i = p.faces[f][1] THEN "outer" ELSE "inner"]],
      fas |-> [i \in 1..nf |-> [gen |-> F(i).g, loops |-> Members(p.faces[i], L)]],
      shs |-> [i \in 1..ns |-> [gen |-> S(i).g, faces |-> Members(p.shells[i], F), kind |-> kind[i]]],
      sos |-> [k \in DOMAIN outers |->
                 [gen |-> O(k).g, outer |-> S(outers[k]),
                  cavities |-> IF k = 1 THEN Members(shellsWith("cavity"), S) ELSE <<>>]],
      top |-> [solids |-> [k \in DOMAIN outers |-> O(k)],
               shells |-> Members(shellsWith("free") \o shellsWith("open"), S)],
      stamp |-> p.nv + ne + nc + nl + nf + ns + Len(outers)]

(***************************************************************************)
(* Loops are the cycles of a permutation of the coedges.                   *)
(***************************************************************************)
Permuted(n) == {f \in [1..n -> 1..n] : IsInjective(f)}

Cycle(f, c) ==
  LET at[k \in 1..Cardinality(DOMAIN f)] == IF k = 1 THEN c ELSE f[at[k - 1]]
      len == CHOOSE k \in DOMAIN at : f[at[k]] = c /\ \A m \in 1..(k - 1) : f[at[m]] # c
  IN  SubSeq(at, 1, len)

Cycles(f) ==
  LET firsts == {c \in DOMAIN f : \A k \in DOMAIN Cycle(f, c) : c <= Cycle(f, c)[k]}
      order  == InOrder(firsts)
  IN  [i \in DOMAIN order |-> Cycle(f, order[i])]

(***************************************************************************)
(* Ways to put n parts into owners, some into none.                        *)
(***************************************************************************)
Groupings(n) ==
  LET growing(f) == \A i \in 1..n : f[i] = 0 \/ f[i] = 1 \/ \E j \in 1..(i - 1) : f[j] = f[i] - 1
      groups(f)  == LET used == {f[i] : i \in 1..n} \ {0}
                    IN  [k \in 1..Cardinality(used) |-> InOrder({i \in 1..n : f[i] = k})]
  IN  {groups(f) : f \in {g \in [1..n -> 0..n] : growing(g)}}

Roles(n) ==
  {r \in [1..n -> {"outer", "cavity", "free"}] : \E i \in 1..n : r[i] = "outer"}
    \cup {[i \in 1..n |-> "open"]}

Whole(n)   == [i \in 1..n |-> i]
Plain(n)   == [faces |-> Each(n), shells |-> <<Whole(n)>>, roles |-> <<"outer">>]
Open(n)    == [Plain(n) EXCEPT !.roles = <<"open">>]
Owners(n)  ==
  UNION {UNION {{[faces |-> fs, shells |-> ss, roles |-> rs] : rs \in Roles(Len(ss))}
                : ss \in Groupings(Len(fs)) \ {<<>>}}
         : fs \in Groupings(n) \ {<<>>}}
Arranged   == <<Owners(1), Owners(2), Owners(3), {Plain(4), Open(4)}>>

Plan(nv, ends, poles, ces, loops, owners) ==
  [nv |-> nv, ends |-> ends, poles |-> poles, ces |-> ces, loops |-> loops,
   faces |-> owners.faces, shells |-> owners.shells, roles |-> owners.roles]

(***************************************************************************)
(* The ends of the edges, and the permutations that chain on them.         *)
(***************************************************************************)
From(ends, ce) == IF ce[2] THEN ends[ce[1]][1] ELSE ends[ce[1]][2]
To(ends, ce)   == IF ce[2] THEN ends[ce[1]][2] ELSE ends[ce[1]][1]
Chains(ends, ces, f) == \A c \in DOMAIN f : To(ends, ces[c]) = From(ends, ces[f[c]])

Ends(n, nv)  == [1..n -> (1..nv) \X (1..nv)]
Paired(n)    == [c \in 1..(2 * n) |-> <<(c + 1) \div 2, c % 2 = 1>>]
Circles(ends) == {e \in DOMAIN ends : ends[e][1] = ends[e][2]}

(* Two edges used both ways, with every owner of their loops. *)
TwoEdges ==
  UNION {UNION {LET loops == Cycles(f) IN
    IF Chains(ends, Paired(2), f)
    THEN {Plan(2, ends, {}, Paired(2), loops, owners) : owners \in Arranged[Len(loops)]}
      \cup {Plan(2, ends, poles, Paired(2), loops, owners) :
              poles \in SUBSET Circles(ends), owners \in {Plain(Len(loops)), Open(Len(loops))}}
    ELSE {Plan(2, ends, {}, Paired(2), loops, Plain(Len(loops)))}
  : ends \in Ends(2, 2)} : f \in Permuted(4)}

(* Edges with other uses. *)
OddUses == {<<<<1, TRUE>>, <<1, FALSE>>, <<2, TRUE>>>>,
            <<<<1, TRUE>>, <<1, FALSE>>, <<2, TRUE>>, <<2, TRUE>>>>,
            <<<<1, TRUE>>, <<2, TRUE>>>>}
OddEdges ==
  UNION {UNION {UNION {LET loops == Cycles(f) IN
    {Plan(2, ends, {}, ces, loops, owners) : owners \in {Plain(Len(loops)), Open(Len(loops))}}
  : ends \in Ends(2, 2)} : f \in Permuted(Len(ces))} : ces \in OddUses}

(* Three edges used both ways, where they chain. *)
ThreeEdges ==
  UNION {UNION {LET loops == Cycles(f) IN
    {Plan(2, ends, {}, Paired(3), loops, Plain(Len(loops)))}
  : ends \in {e \in Ends(3, 2) : e[1][1] = 1 /\ Chains(e, Paired(3), f)}} : f \in Permuted(6)}

(* Coedges in no loop or in two. *)
Uncovered ==
  UNION {UNION {UNION {
    {Plan(2, ends, {}, Paired(2), loops, owners) :
       owners \in {Plain(Len(loops)), Open(Len(loops))}}
  : loops \in {Tail(Cycles(f)), Append(Cycles(f), Cycles(f)[1])} \ {<<>>}}
  : ends \in {e \in Ends(2, 2) : Chains(e, Paired(2), f)}} : f \in Permuted(4)}

(***************************************************************************)
(* Two faces that share three edges, and what can be wrong with them.      *)
(***************************************************************************)
Pillow == Build(Plan(3, <<<<1, 2>>, <<2, 3>>, <<3, 1>>>>, {}, Paired(3),
                     <<<<1, 3, 5>>, <<6, 4, 2>>>>, Plain(2)))
Apart  == Build(Plan(3, <<<<1, 2>>, <<2, 3>>, <<3, 1>>>>, {}, Paired(3),
                     <<<<1, 3, 5>>, <<6, 4, 2>>>>,
                     [faces |-> Each(2), shells |-> Each(2), roles |-> <<"outer", "cavity">>]))
Faulty ==
  {[Pillow EXCEPT !.stamp = 0],
   [Pillow EXCEPT !.vs[2].gen = 1],
   [Pillow EXCEPT !.es[1].degenerate = TRUE],
   [Pillow EXCEPT !.lps[1].ces = <<>>],
   [Pillow EXCEPT !.fas[1].loops = <<>>],
   [Pillow EXCEPT !.shs[1].faces = <<>>],
   [Pillow EXCEPT !.es[1].v0.g = 0],
   [Pillow EXCEPT !.ces[1].edge.i = 9],
   [Pillow EXCEPT !.lps[1].ces[1].g = 0],
   [Pillow EXCEPT !.fas[1].loops[1].i = 9],
   [Pillow EXCEPT !.shs[1].faces[1].g = 0],
   [Pillow EXCEPT !.sos[1].outer.g = 0],
   [Pillow EXCEPT !.top.solids[1].i = 9],
   [Pillow EXCEPT !.lps[1].kind = "inner"],
   [Pillow EXCEPT !.fas[2].loops = Pillow.fas[1].loops],
   [Pillow EXCEPT !.shs[1].faces = <<Pillow.shs[1].faces[1], Pillow.shs[1].faces[1]>>],
   [Pillow EXCEPT !.sos[1].cavities = <<Pillow.sos[1].outer>>],
   [Pillow EXCEPT !.top.solids = <<Pillow.top.solids[1], Pillow.top.solids[1]>>],
   [Pillow EXCEPT !.top.shells = <<Pillow.sos[1].outer>>],
   [Pillow EXCEPT !.shs[1].kind = "open"],
   [Apart EXCEPT !.shs[2].kind = "outer"],
   [Apart EXCEPT !.shs[1].kind = "inner"]}

(***************************************************************************)
(* Sheets that hang together one after the other, each by one edge, listed *)
(* in every order: labels travel far, and in few or many rounds.           *)
(***************************************************************************)
Strip(order) ==
  LET n == Len(order)
      loop(k) == (IF k = 1 THEN <<>> ELSE <<2 * (k - 1)>>) \o (IF k = n THEN <<>> ELSE <<2 * k - 1>>)
  IN  Build(Plan(1, [k \in 1..(n - 1) |-> <<1, 1>>], {}, Paired(n - 1),
                 [k \in 1..n |-> loop(k)],
                 [faces |-> Each(n), shells |-> <<order>>, roles |-> <<"open">>]))
Strips == {Strip(order) : order \in Permuted(5) \cup {Whole(7)}}

MCBodies == Strips \cup {Build(p) : p \in TwoEdges \cup OddEdges \cup ThreeEdges \cup Uncovered}
              \cup {Pillow, Apart} \cup Faulty
=============================================================================
