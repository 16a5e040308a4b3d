--------------------------- MODULE MCAppendOnlyFile ---------------------------
(* Instances of AppendOnlyFile.tla: frames of two, three and four items.      *)
EXTENDS AppendOnlyFile

MCNumeral == [p \in {ToString(n) : n \in 0..9} |-> CHOOSE n \in 0..9 : ToString(n) = p]

MCUppercase == [p \in {} |-> p]

MCLogged ==
  {[op |-> "DEL", keys |-> <<"a">>],
   [op |-> "EXPIREAT", key |-> "a", seconds |-> 7],
   [op |-> "RPUSH", key |-> "b", values |-> <<"x", "DEL">>]}

=============================================================================
