----------------------------- MODULE MCDashboard -----------------------------
(* An instance of Dashboard.tla.                                              *)
EXTENDS Dashboard

MCKeys == {"a", "b", "c"}
MCKeyOrder == <<"a", "b", "c">>
MCKeyLen == [k \in MCKeys |-> 1]
MCValues == {"x", "yy"}
MCValueLen == [v \in MCValues |-> IF v = "x" THEN 1 ELSE 2]

MCNumeral ==
  ("0" :> 0) @@ ("1" :> 1) @@ ("2" :> 2) @@ ("3" :> 3) @@ ("4" :> 4) @@ ("5" :> 5)
    @@ ("6" :> 6) @@ ("7" :> 7) @@ ("8" :> 8) @@ ("9" :> 9) @@ ("10" :> 10) @@ ("11" :> 11)
    @@ ("12" :> 12) @@ ("13" :> 13) @@ ("14" :> 14) @@ ("15" :> 15) @@ ("16" :> 16)

MCUppercase == <<>>

\* A dated string and a list; more keys than the limit shows.
String(v, deadline) == [type |-> "string", items |-> <<v>>, expires_at |-> deadline]
List(items) == [type |-> "list", items |-> items, expires_at |-> None]
Holding(a, b, c) == ("a" :> a) @@ ("b" :> b) @@ ("c" :> c)

MCStores ==
  {Holding(String("yy", 1), List(<<"x", "x", "yy">>), None),
   Holding(String("yy", None), List(<<"x">>), String("x", 1))}

\* Another type and another size.
MCWorkload == {[op |-> "SET", key |-> "b", value |-> "yy"]}

=============================================================================
