----------------------------- MODULE MCKernelReplay -----------------------------
(***************************************************************************)
(* Documents a user edits one into another: a feature appended, its content *)
(* changed, suppressed and brought back, a selector added, its anchors      *)
(* refreshed, a surface and an unfold after it, an operation that fails and *)
(* is repaired.  The budget of the passing run holds two snapshots and a    *)
(* part of a third, so that every document evicts.                          *)
(***************************************************************************)
EXTENDS KernelReplay

Op(kind, word) == [kind |-> kind, word |-> word, anchors |-> 0, suppressed |-> FALSE]
A == Op("birth", 1)
B == Op("birth", 2)
M == Op("modify", 3)
N == Op("modify", 4)
S == Op("select", 5)
O == Op("offset", 6)
F == Op("fails", 7)
P == Op("profile", 8)
T == Op("surface", 9)
U == Op("unfold", 10)

Off(op) == [op EXCEPT !.suppressed = TRUE]
Anchored(op) == [op EXCEPT !.anchors = 1]

MCDocuments ==
  {<<A>>, <<A, M>>, <<A, M, N>>, <<A, N>>, <<A, F>>, <<A, Off(M)>>, <<A, Off(M), N>>,
   <<A, S>>, <<A, Anchored(S)>>, <<A, S, M>>, <<A, P>>, <<A, O>>, <<B, A>>,
   <<A, U>>, <<A, S, U>>, <<A, S, T>>, <<A, S, T, M>>}

MCPlain == {<<A>>, <<A, M>>, <<A, Off(M)>>, <<A, M, N>>, <<A, Off(M), N>>}
=================================================================================
