---------------------------- MODULE MCMemoryStore ---------------------------
(* Instances of MemoryStore.tla for TLC.  The constants of the code that only *)
(* scale the arithmetic (64 bytes per entry, 24 per list item) are scaled     *)
(* down with the payloads and the limit.                                      *)
EXTENDS StoreRefinement, TLC

MCKeys == {"a", "b"}
MCKeyOrder == <<"a", "b">>
MCKeyLen == [k \in MCKeys |-> 1]

MCValues == {"s", "t", "big", "huge"}
MCValueLen == [v \in MCValues |-> CASE v \in {"s", "t"} -> 1 [] v = "big" -> 3 [] v = "huge" -> 6]

\* An entry of a small string takes 4 of 8 bytes, a big one 6, a huge one 9; a
\* list takes 3 and 2 per small item.

Far == 9  \* seconds no instant can represent

StringCommands ==
  {[op |-> "SET", key |-> "a", value |-> "s"],
   [op |-> "SET", key |-> "a", value |-> "huge"],
   [op |-> "SET", key |-> "b", value |-> "big"],
   [op |-> "DEL", keys |-> <<"a", "b", "a">>],
   [op |-> "EXPIRE", key |-> "a", seconds |-> 1],
   [op |-> "EXPIRE", key |-> "a", seconds |-> Far],
   [op |-> "PERSIST", key |-> "a"]}

ListCommands ==
  {[op |-> "RPUSH", key |-> "a", values |-> <<"s">>],
   [op |-> "LPUSH", key |-> "a", values |-> <<"t", "s">>],
   [op |-> "LPOP", key |-> "a"],
   [op |-> "RPOP", key |-> "a"],
   [op |-> "SET", key |-> "b", value |-> "s"],
   [op |-> "SET", key |-> "a", value |-> "huge"],
   [op |-> "EXPIREAT", key |-> "a", seconds |-> 1]}

ReadCommands ==
  {[op |-> "SET", key |-> "a", value |-> "s"],
   [op |-> "SET", key |-> "a", value |-> "huge"],
   [op |-> "RPUSH", key |-> "b", values |-> <<"s", "s">>],
   [op |-> "EXPIRE", key |-> "a", seconds |-> 1],
   [op |-> "EXPIREAT", key |-> "b", seconds |-> 1],
   [op |-> "GET", key |-> "a"],
   [op |-> "GET", key |-> "b"],
   [op |-> "EXISTS", keys |-> <<"a", "b", "a">>],
   [op |-> "TTL", key |-> "a"],
   [op |-> "PERSIST", key |-> "b"],
   [op |-> "LPOP", key |-> "b"],
   [op |-> "LRANGE", key |-> "b", start |-> 0, stop |-> -1],
   [op |-> "LRANGE", key |-> "b", start |-> -3, stop |-> 0],
   [op |-> "LRANGE", key |-> "b", start |-> 1, stop |-> 5],
   [op |-> "LRANGE", key |-> "a", start |-> -1, stop |-> 0],
   [op |-> "STATS"],
   [op |-> "INSPECT", limit |-> 0],
   [op |-> "INSPECT", limit |-> 1]}

\* Clients are interchangeable in Init, Next and every safety property.
ClientSymmetry == Permutations(Clients)

=============================================================================
