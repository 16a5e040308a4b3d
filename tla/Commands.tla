------------------------------- MODULE Commands -------------------------------
(***************************************************************************)
(* Commands as frames (src/src/command.rs): what Command::from_frame makes *)
(* of a request, the frame Command::to_aof_frame serializes a durable      *)
(* command to, and the response Command::execute and error_frame build.    *)
(*                                                                         *)
(* A payload is a string.  What the code finds out about its bytes is      *)
(* given by constants: which number it spells, whether it is UTF-8, what   *)
(* it is in upper case.                                                    *)
(***************************************************************************)
EXTENDS Resp, TLC

CONSTANTS
  Numeral,       \* Numeral[p]: the integer that payload p spells, for those that do
  NotUtf8,       \* the payloads that are not UTF-8
  Uppercase,     \* Uppercase[p]: to_ascii_uppercase, for those it changes
  DefaultLimit   \* DEFAULT_INSPECT_LIMIT

ASSUME PayloadAssumption ==
  /\ \A p \in DOMAIN Numeral : Numeral[p] \in Int /\ p \notin NotUtf8
  /\ \A p \in DOMAIN Numeral : ToString(Numeral[p]) \in DOMAIN Numeral =>
       Numeral[ToString(Numeral[p])] = Numeral[p]
  /\ DefaultLimit \in Nat

----------------------------------------------------------------------------
(* Parsing.                                                                *)

Failure(error) == [error |-> error]

Failed(result) == "error" \in DOMAIN result

\* What a command takes: its fields, in order, and how each is parsed.  "keys"
\* and "values" take all the arguments that are left, one at least; the last
\* field of PING and AERUGO.INSPECT may be left out.
Field(name, parse) == <<name, parse>>
Key == Field("key", "text")
KeysLeft == Field("keys", "texts")
ValuesLeft == Field("values", "rest")

Signature ==
  [PING |-> <<Field("value", "bytes")>>, ECHO |-> <<Field("value", "bytes")>>,
   SET |-> <<Key, Field("value", "bytes")>>, GET |-> <<Key>>,
   DEL |-> <<KeysLeft>>, EXISTS |-> <<KeysLeft>>,
   EXPIRE |-> <<Key, Field("seconds", "u64")>>, EXPIREAT |-> <<Key, Field("seconds", "u64")>>,
   TTL |-> <<Key>>, PERSIST |-> <<Key>>,
   LPUSH |-> <<Key, ValuesLeft>>, RPUSH |-> <<Key, ValuesLeft>>,
   LPOP |-> <<Key>>, RPOP |-> <<Key>>,
   LRANGE |-> <<Key, Field("start", "i64"), Field("stop", "i64")>>,
   DBSIZE |-> <<>>, INFO |-> <<>>]
    @@ ("AERUGO.STATS" :> <<>>)
    @@ ("AERUGO.INSPECT" :> <<Field("limit", "usize")>>)

Optional == {"PING", "AERUGO.INSPECT"}

TakesRest(field) == field[2] \in {"texts", "rest"}

ArityFits(name, count) ==
  LET fields == Signature[name]
  IN  \/ count = Len(fields)
      \/ name \in Optional /\ count = Len(fields) - 1
      \/ fields # <<>> /\ TakesRest(Last(fields)) /\ count >= Len(fields)

\* The argument or arguments that field i takes.
Taken(fields, i, args) ==
  IF TakesRest(fields[i]) THEN SubSeq(args, i, Len(args)) ELSE args[i]

ParseError(parse, arg) ==
  CASE parse = "text" -> IF arg \in NotUtf8 THEN "InvalidUtf8" ELSE "none"
    [] parse = "texts" -> IF ToSet(arg) \cap NotUtf8 # {} THEN "InvalidUtf8" ELSE "none"
    [] parse = "i64" -> IF arg \in NotUtf8 THEN "InvalidUtf8"
                        ELSE IF arg \notin DOMAIN Numeral THEN "InvalidInteger" ELSE "none"
    [] parse \in {"u64", "usize"} ->
         IF arg \in NotUtf8 THEN "InvalidUtf8"
         ELSE IF arg \notin DOMAIN Numeral THEN "InvalidInteger"
         ELSE IF Numeral[arg] < 0 THEN "InvalidInteger" ELSE "none"
    [] OTHER -> "none"

Parsed(parse, arg) == IF parse \in {"u64", "i64", "usize"} THEN Numeral[arg] ELSE arg

\* The command's fields as a record, missing ones at their defaults.
Build(name, args) ==
  LET fields == Signature[name]
      given == {i \in DOMAIN fields : i <= Len(args)}
      errors == {i \in given : ParseError(fields[i][2], Taken(fields, i, args)) # "none"}
      first == CHOOSE i \in errors : \A j \in errors : i <= j
      values == [f \in {fields[i][1] : i \in given} |->
                   LET i == CHOOSE i \in given : fields[i][1] = f
                   IN  Parsed(fields[i][2], Taken(fields, i, args))]
  IN  IF errors # {} THEN Failure(ParseError(fields[first][2], Taken(fields, first, args)))
      ELSE IF name = "AERUGO.INSPECT" /\ args = <<>> THEN [op |-> name, limit |-> DefaultLimit]
      ELSE ("op" :> name) @@ values

from_frame(frame) ==
  LET args == [i \in DOMAIN frame[2] |-> frame[2][i][2]]
      name == IF args[1] \in DOMAIN Uppercase THEN Uppercase[args[1]] ELSE args[1]
  IN  IF frame[1] # "array" THEN Failure("ExpectedArray")
      ELSE IF \E i \in DOMAIN frame[2] : frame[2][i][1] # "bulk" THEN Failure("ExpectedBulk")
      ELSE IF frame[2] = <<>> THEN Failure("Empty")
      ELSE IF args[1] \in NotUtf8 THEN Failure("InvalidUtf8")
      ELSE IF name \notin DOMAIN Signature THEN Failure("Unknown")
      ELSE IF ~ArityFits(name, Len(args) - 1) THEN Failure("WrongArity")
      ELSE Build(name, Tail(args))

----------------------------------------------------------------------------
(* Serializing.                                                            *)

\* The frame of a command in the form it is logged in: deadlines are absolute
\* (Server.tla's to_aof_frame sees to that), numbers in decimal.
aof_frame(c) ==
  Bulks(<<c.op>> \o
    (CASE c.op = "SET" -> <<c.key, c.value>>
       [] c.op = "DEL" -> c.keys
       [] c.op = "EXPIREAT" -> <<c.key, ToString(c.seconds)>>
       [] c.op \in {"LPUSH", "RPUSH"} -> <<c.key>> \o c.values
       [] OTHER -> <<c.key>>))

----------------------------------------------------------------------------
(* Responding.                                                             *)

\* The text of each field; `none` is the value of max_memory_bytes without a limit.
format_stats(stats, none) ==
  [f \in DOMAIN stats |->
     IF f = "eviction_policy" THEN stats[f]
     ELSE IF stats[f] = none THEN "none"
     ELSE ToString(stats[f])]

inspection_to_frame(row) ==
  ArrayFrame(<<BulkFrame(row.key), BulkFrame(row.value_type), IntegerFrame(row.ttl_seconds),
               IntegerFrame(row.payload_bytes), IntegerFrame(row.estimated_memory_bytes),
               IntegerFrame(row.list_items)>>)

error_frame(error) ==
  CASE error = "WrongType" -> ErrorFrame(<<"WRONGTYPE", "Operation against a key holding the wrong kind of value">>)
    [] error = "OutOfMemory" -> ErrorFrame(<<"OOM", "command not allowed when memory limit would be exceeded">>)
    [] OTHER -> ErrorFrame(<<"ERR", error>>)

\* The name under which the store executes a command.
StoreOp(name) ==
  IF name \in {"DBSIZE", "INFO", "AERUGO.STATS"} THEN "STATS"
  ELSE IF name = "AERUGO.INSPECT" THEN "INSPECT" ELSE name

\* The frame of an answer of the store that is no error.
success_frame(c, reply, none) ==
  CASE c.op = "SET" -> SimpleFrame("OK")
    [] c.op = "LRANGE" -> Bulks(reply[2])
    [] c.op = "AERUGO.INSPECT" ->
         ArrayFrame([i \in DOMAIN reply[2] |-> inspection_to_frame(reply[2][i])])
    [] c.op = "DBSIZE" -> IntegerFrame(reply[2].total_keys)
    [] c.op \in {"INFO", "AERUGO.STATS"} -> BulkFrame(format_stats(reply[2] @@ reply[3], none))
    [] reply[1] = "int" -> IntegerFrame(reply[2])
    [] reply[1] = "bulk" -> BulkFrame(reply[2])
    [] reply[1] = "null" -> NullFrame

\* The response to command c when the store answered `reply`.
response(c, reply, none) ==
  IF reply[1] = "error" THEN error_frame(reply[2]) ELSE success_frame(c, reply, none)

\* PING and ECHO do not reach the store.
own_response(c) ==
  IF c.op = "PING" /\ "value" \notin DOMAIN c THEN SimpleFrame("PONG") ELSE BulkFrame(c.value)

=============================================================================
