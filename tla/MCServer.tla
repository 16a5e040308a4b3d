------------------------------ MODULE MCServer ------------------------------
(* Instances of Server.tla: what each connection sends, per run.              *)
EXTENDS Server, TLC

MCKeys == {"a", "b", "c"}
MCKeyOrder == <<"a", "b", "c">>
MCKeyLen == [k \in MCKeys |-> 1]
MCValues == {"x", "y", "huge"}
MCValueLen == [v \in MCValues |-> IF v = "huge" THEN 30 ELSE 1]

SetTo(k, v) == [op |-> "SET", key |-> k, value |-> v]
DelA == [op |-> "DEL", keys |-> <<"a">>]
Rpush(k, v) == [op |-> "RPUSH", key |-> k, values |-> <<v>>]
Lpush(k, v) == [op |-> "LPUSH", key |-> k, values |-> <<v, "x">>]
OnKey(op, k) == [op |-> op, key |-> k]
Expire(k, s) == [op |-> "EXPIRE", key |-> k, seconds |-> s]
Expireat(k, s) == [op |-> "EXPIREAT", key |-> k, seconds |-> s]

\* Two clients that keep to their own keys.  One uses absolute deadlines that it
\* never extends, and EXPIRE with 0 seconds, which deletes in the store and is logged
\* as EXPIREAT with the instant rounded up to the second; the other uses both ends of
\* a list, and sets a string that the limit has no room for.
Separate == "p" :> {SetTo("a", "x"), SetTo("a", "y"), Expireat("a", 1), Expire("a", 0), DelA}
         @@ "q" :> {Rpush("b", "x"), Lpush("b", "y"), OnKey("LPOP", "b"), OnKey("RPOP", "b"),
                    SetTo("b", "huge")}

\* The divergences; the README names the constants that show the last four.
SameKey == "p" :> {SetTo("a", "x")} @@ "q" :> {SetTo("a", "y")}
ExtendLife == [c \in Conns |-> {SetTo("a", "x"), Expireat("a", 1), OnKey("PERSIST", "a")}]
PushDated == [c \in Conns |-> {Rpush("a", "x"), Expireat("a", 1)}]
PersistLate == [c \in Conns |-> {SetTo("a", "x"), Expire("a", 1), OnKey("PERSIST", "a")}]
TooMuch == [c \in Conns |-> {SetTo("a", "x"), SetTo("b", "x"), SetTo("c", "x")}]
TightLimit == "p" :> {SetTo("a", "x")} @@ "q" :> {Rpush("b", "x"), OnKey("LPOP", "b")}

=============================================================================
