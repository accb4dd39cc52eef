---------------------------- MODULE MCDesignFile ---------------------------
(***************************************************************************)
(* Requests for TLC: edits that add, replace, orphan, delete and garble,   *)
(* around a plate and a boss on it.                                        *)
(***************************************************************************)
EXTENDS DesignFile

N(id, b, v) == [id |-> id, base |-> b, v |-> v]
PutNode(id, b, v) == [k |-> "node", n |-> N(id, b, v)]
Delete(id)   == [k |-> "delete", n |-> N(id, 0, 0)]
Material(id) == [k |-> "material", n |-> N(id, 0, 0)]
Junk         == [k |-> "junk", n |-> N(0, 0, 0)]

PlateAndBoss == [nodes |-> <<N(1, 0, 1), N(2, 1, 1)>>, mats |-> {}]

MCRequests == {"resize", "turn", "clear", "graft", "garbled", "look", "restart"}
MCKind == [r \in MCRequests |->
  CASE r = "look" -> "query" [] r = "restart" -> "new" [] OTHER -> "apply"]
MCEdits == [r \in MCRequests |->
  CASE r = "resize"  -> <<PutNode(1, 0, 2), PutNode(3, 2, 1)>>
    [] r = "turn"    -> <<PutNode(1, 2, 1)>>               \* builds only without 2
    [] r = "clear"   -> <<Delete(2), Material(1)>>         \* orphans what stood on 2
    [] r = "graft"   -> <<PutNode(2, 1, 2), Material(2)>>
    [] r = "garbled" -> <<Delete(1), Junk>>
    [] OTHER         -> <<>>]
=============================================================================
