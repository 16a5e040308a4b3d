------------------------------- MODULE MCSession -------------------------------
(* Instances of Session.tla.                                                  *)
EXTENDS Session

MCKeys == {"a", "b"}
MCKeyOrder == <<"a", "b">>
MCKeyLen == [k \in MCKeys |-> 1]
MCValues == {"x", "y"}
MCValueLen == [v \in MCValues |-> 1]

MCNumeral == ("0" :> 0) @@ ("+1" :> 1) @@ ("-1" :> -1)
MCUppercase == [p \in {"ping"} |-> "PING"]

Framed(args) == [frame |-> Bulks(args), tokens |-> write_frame(Bulks(args))]

\* Responses of every kind: simple, bulk, null, integer, error, array and rows;
\* requests that are no commands, an inline one, and a line that does not parse.
\* Ten items give AERUGO.INSPECT a last line of two digits.
MCRequests ==
  {Framed(<<"RPUSH", "a", "x", "x", "x", "x", "x", "x", "x", "x", "x", "y">>), Framed(<<"LRANGE", "a", "0", "-1">>),
   Framed(<<"GET", "a">>), Framed(<<"AERUGO.INSPECT", "+1">>), Framed(<<"ping">>),
   Framed(<<"EXPIRE", "a", "-1">>),
   [frame |-> ArrayFrame(<<BulkFrame("GET"), IntegerFrame(1)>>),
    tokens |-> <<<<"*", 2>>, <<"$", "GET">>, <<":", 1>>>>],
   [frame |-> Bulks(<<"DEL", "a", "b">>), tokens |-> <<<<"inline", <<"DEL", "a", "b">>>>>>],
   [frame |-> ErrorFrame(<<"ERR", "empty", "request">>), tokens |-> <<<<"blank">>>>],
   [frame |-> NoFrame, tokens |-> <<<<"*", 2>>, <<"$", "SET">>, <<"malformed">>>>]}

=============================================================================
