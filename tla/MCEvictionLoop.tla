--------------------------- MODULE MCEvictionLoop ---------------------------
(* Instances of EvictionLoop.tla: three keys, entries from 4 to 9 bytes, so   *)
(* that one, two or no eviction makes room and victims can be alternatives.  *)
EXTENDS EvictionLoop

MCKeys == {"a", "b", "c"}
MCKeyOrder == <<"a", "b", "c">>
MCKeyLen == [k \in MCKeys |-> 1]
MCValues == {"s", "big", "huge"}
MCValueLen == [v \in MCValues |-> CASE v = "s" -> 1 [] v = "big" -> 3 [] v = "huge" -> 6]

String(v, deadline) == [type |-> "string", items |-> <<v>>, expires_at |-> deadline]
List(items) == [type |-> "list", items |-> items, expires_at |-> None]

MCShapes == {String("s", None), String("big", 1), String("huge", None), List(<<"s", "big">>)}

=============================================================================
