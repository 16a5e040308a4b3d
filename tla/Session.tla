-------------------------------- MODULE Session --------------------------------
(***************************************************************************)
(* One connection from end to end: a client (src/src/client.rs, or one     *)
(* that pipelines), the two directions of the socket, and the task of      *)
(* handle_connection (src/src/server.rs) with its commands and its store.  *)
(*                                                                         *)
(* Both sides write a frame token by token and wait when the peer does not *)
(* read; both read with read_frame.  Either may be gone at any moment: the *)
(* client drops its connection, the server process dies.                   *)
(***************************************************************************)
EXTENDS StoreOps, Commands

CONSTANTS
  Requests,      \* what a client may send: the frame it means and the tokens it writes
  Windows,       \* how many requests it may have unanswered: 1 is RespClient
  Capacity,      \* how many tokens one direction of the socket holds
  MaxRequests    \* bound: no more requests than this

\* The tokens are one frame, and no more: all of it is there with the last of them.
\* A line that does not parse ends it, and the connection.
Complete(tokens, frame) ==
  /\ tokens \in Seq(ToSet(tokens)) /\ tokens # <<>>
  /\ \A token \in ToSet(tokens) : token[1] = "*" => token[2] \in Nat
  /\ \A i \in 1..(Len(tokens) - 1) :
       ~Malformed(tokens[i]) /\ Reading(tokens)[i].frame = NoFrame
  /\ IF Malformed(Last(tokens)) THEN frame = NoFrame
     ELSE /\ frame # NoFrame
          /\ Reading(tokens)[Len(tokens)] = [open |-> <<>>, frame |-> frame]

\* The commands of the store; not those that read its counters, which are not here.
StoreCommands ==
  {"SET", "GET", "DEL", "EXISTS", "EXPIRE", "EXPIREAT", "TTL", "PERSIST", "LPUSH", "RPUSH", "LPOP",
   "RPOP", "LRANGE", "DBSIZE", "AERUGO.INSPECT"}

\* A command of the store is about the keys and the values clients use.
Understood(frame) ==
  LET c == from_frame(frame)
  IN  \/ Failed(c) \/ c.op \in {"PING", "ECHO"}
      \/ c.op \in StoreCommands /\ [c EXCEPT !.op = StoreOp(c.op)] \in CommandSpace

ASSUME SessionAssumption ==
  /\ \A r \in Requests :
       /\ Complete(r.tokens, r.frame)
       /\ ~Malformed(Last(r.tokens)) => \A frame \in {r.frame} \cup CutShort(r.tokens) : Understood(frame)
  /\ Windows \subseteq Nat \ {0}
  /\ Capacity \in Nat \ {0}
  /\ MaxRequests \in Nat

VARIABLES
  client,     \* "open" or "closed"
  window,     \* which client it is
  asked,      \* the requests begun
  outbox,     \* what the client has yet to write of the last one
  inbox,      \* the arrays the client's read_frame has open
  got,        \* what the calls returned
  up, down,   \* the tokens under way to the server, and to the client
  server,     \* "reading", "writing" or "closed"
  open,       \* the arrays the server's read_frame has open
  reply,      \* what the server has yet to write of a response
  served,     \* the requests executed, each with its response
  entries     \* MemoryStore::entries

clientVars == <<client, asked, outbox, inbox, got>>
serverVars == <<server, open, reply, served, entries>>
vars == <<clientVars, window, up, down, serverVars>>

Init ==
  /\ client = "open" /\ window \in Windows
  /\ asked = <<>> /\ outbox = <<>> /\ inbox = <<>> /\ got = <<>>
  /\ up = <<>> /\ down = <<>>
  /\ server = "reading" /\ open = <<>> /\ reply = <<>> /\ served = <<>>
  /\ entries = [k \in Keys |-> None]

----------------------------------------------------------------------------
(* The client.                                                             *)

Unanswered == Len(asked) - Len(got)

\* RespClient::command sends arrays of bulk strings only.
IsCall(r) ==
  /\ r.frame # NoFrame /\ r.tokens = write_frame(r.frame)
  /\ \A i \in DOMAIN r.frame[2] : r.frame[2][i][1] = "bulk"

Begin(r) ==
  /\ client = "open" /\ outbox = <<>>
  /\ Unanswered < window /\ Len(asked) < MaxRequests
  /\ (window = 1 => IsCall(r))
  /\ asked' = Append(asked, r)
  /\ outbox' = r.tokens
  /\ UNCHANGED <<client, inbox, got, window, up, down, serverVars>>

ClientWrite ==
  /\ client = "open" /\ outbox # <<>>
  /\ Len(up) < Capacity
  /\ up' = Append(up, Head(outbox))
  /\ outbox' = Tail(outbox)
  /\ UNCHANGED <<client, asked, inbox, got, window, down, serverVars>>

\* What the call returns for a frame it has read.
Outcome_(frame) ==
  IF frame[1] = "error" THEN <<"server error", frame>> ELSE <<"ok", frame>>

\* RespClient reads once it has written; a client that pipelines does both.
Awaits == client = "open" /\ Unanswered > 0 /\ (window = 1 => outbox = <<>>)

ClientRead ==
  /\ Awaits /\ down # <<>>
  /\ \E reader \in {read_frame(inbox, Head(down))} :
         /\ inbox' = reader.open
         /\ got' = IF reader.frame = NoFrame THEN got ELSE Append(got, Outcome_(reader.frame))
  /\ down' = Tail(down)
  /\ UNCHANGED <<client, asked, outbox, window, up, serverVars>>

\* The call returns an error, ConnectionClosed or that of the socket, and its
\* caller drops the client.  A server that closes on unread input resets the
\* connection, and answers under way are lost.
ClientFails ==
  /\ client = "open" /\ server = "closed"
  /\ outbox # <<>> \/ (Awaits /\ (down = <<>> \/ up # <<>>))
  /\ client' = "closed"
  /\ UNCHANGED <<asked, outbox, inbox, got, window, up, down, serverVars>>

\* The client is dropped or dies, in the middle of a line perhaps.
ClientDrops ==
  /\ client = "open"
  /\ client' = "closed"
  /\ up' \in {up} \cup (IF outbox = <<>> THEN {}
                        ELSE {Append(up, token) : token \in Cut(Head(outbox))})
  /\ UNCHANGED <<asked, outbox, inbox, got, window, down, serverVars>>

----------------------------------------------------------------------------
(* The connection task.                                                    *)

\* The possible responses to a command, each with the key space it leaves.
Executed(c) ==
  IF c.op \in {"PING", "ECHO"} THEN {<<entries, own_response(c)>>}
  ELSE {<<o.entries, response(c, o.reply, None)>> :
          o \in Execute(entries, [c EXCEPT !.op = StoreOp(c.op)], 0, 0)}

Handled(frame) ==
  UNION {IF Failed(c) THEN {<<entries, error_frame(c.error)>>} ELSE Executed(c) : c \in {from_frame(frame)}}

\* Mutant: a request that is no command gets no response.
Respond_to_commands_only(frame) ==
  \E h \in Handled(frame) :
    /\ entries' = h[1]
    /\ reply' = IF Failed(from_frame(frame)) THEN <<>> ELSE write_frame(h[2])
    /\ server' = IF Failed(from_frame(frame)) THEN "reading" ELSE "writing"
    /\ served' = Append(served, [request |-> frame, response |-> h[2]])

Respond(frame) ==
  \E h \in Handled(frame) :
    /\ entries' = h[1]
    /\ reply' = write_frame(h[2])
    /\ server' = "writing"
    /\ served' = Append(served, [request |-> frame, response |-> h[2]])

ServerRead ==
  /\ server = "reading" /\ up # <<>>
  /\ up' = Tail(up)
  /\ ~Malformed(Head(up))
  /\ \E reader \in {read_frame(open, Head(up))} :
         /\ open' = reader.open
         /\ IF reader.frame = NoFrame THEN UNCHANGED <<server, reply, served, entries>>
            ELSE Respond(reader.frame)
  /\ UNCHANGED <<clientVars, window, down>>

\* A line that does not parse ends the task without a response.
ServerRefuses ==
  /\ server = "reading" /\ up # <<>>
  /\ Malformed(Head(up))
  /\ server' = "closed"
  /\ UNCHANGED <<clientVars, window, up, down, open, reply, served, entries>>

\* Mutants: the end of the input goes unnoticed inside an array; or it ends the
\* array, which is taken for a request.
ServerEof_between_requests ==
  /\ server = "reading" /\ up = <<>> /\ client = "closed"
  /\ open = <<>>
  /\ server' = "closed"
  /\ UNCHANGED <<clientVars, window, up, down, open, reply, served, entries>>
ServerEof_ends_array ==
  /\ server = "reading" /\ up = <<>> /\ client = "closed"
  /\ server' = "closed"
  /\ served' = IF open = <<>> THEN served
               ELSE Append(served, [request |-> ArrayFrame(Last(open).items), response |-> NullFrame])
  /\ UNCHANGED <<clientVars, window, up, down, open, reply, entries>>

\* The input ends: between requests the task is done, inside one read_frame fails.
ServerEof ==
  /\ server = "reading" /\ up = <<>> /\ client = "closed"
  /\ server' = "closed"
  /\ UNCHANGED <<clientVars, window, up, down, open, reply, served, entries>>

\* Mutant: the task does not go back to reading.
ServerWrite_once ==
  /\ server = "writing" /\ reply # <<>>
  /\ IF client = "open" THEN Len(down) < Capacity /\ down' = Append(down, Head(reply))
     ELSE UNCHANGED down
  /\ reply' = Tail(reply)
  /\ UNCHANGED <<clientVars, window, up, server, open, served, entries>>

\* A write to a client that is gone succeeds until the task learns of it.
ServerWrite ==
  /\ server = "writing"
  /\ IF client = "open" THEN Len(down) < Capacity /\ down' = Append(down, Head(reply))
     ELSE UNCHANGED down
  /\ reply' = Tail(reply)
  /\ server' = IF Len(reply) = 1 THEN "reading" ELSE "writing"
  /\ UNCHANGED <<clientVars, window, up, open, served, entries>>

ServerWriteFails ==
  /\ server = "writing" /\ client = "closed"
  /\ server' = "closed"
  /\ UNCHANGED <<clientVars, window, up, down, open, reply, served, entries>>

\* The process dies, in the middle of a line perhaps.
ServerDies ==
  /\ server # "closed"
  /\ server' = "closed"
  /\ down' \in {down} \cup (IF reply = <<>> THEN {}
                            ELSE {Append(down, token) : token \in Cut(Head(reply))})
  /\ UNCHANGED <<clientVars, window, up, open, reply, served, entries>>

ClientProgress == ClientWrite \/ ClientRead \/ ClientFails
ServerProgress == ServerRead \/ ServerRefuses \/ ServerEof \/ ServerWrite \/ ServerWriteFails

Next ==
  \/ \E r \in Requests : Begin(r)
  \/ ClientProgress \/ ClientDrops
  \/ ServerProgress \/ ServerDies

Spec == Init /\ [][Next]_vars

\* Both tasks are polled while they can go on; a client that pipelines reads and
\* writes independently.  Nothing is owed by who asks, drops or dies.
FairSpec == Spec /\ WF_vars(ClientWrite) /\ WF_vars(ClientRead \/ ClientFails) /\ WF_vars(ServerProgress)

----------------------------------------------------------------------------
(* Properties.                                                             *)

\* Type correctness of both ends and the socket between them.
TypeOK ==
  /\ client \in {"open", "closed"} /\ window \in Windows
  /\ server \in {"reading", "writing", "closed"}
  /\ ToSet(asked) \subseteq Requests /\ Len(got) <= Len(asked)
  /\ Len(up) <= Capacity + 1 /\ Len(down) <= Capacity + 1
  /\ \A i \in DOMAIN open : Len(open[i].items) < open[i].len
  /\ \A i \in DOMAIN inbox : Len(inbox[i].items) < inbox[i].len
  /\ server # "closed" => (reply # <<>> <=> server = "writing")
  /\ entries \in EntriesType

\* Only what a client sent in full is executed, in the order it was sent, however
\* the connection was cut: half an array never runs.  The last line of the last
\* request is exempt: the rest of the input counts as a line, so half of an inline
\* command may run.
OnlyWholeRequestsRun ==
  /\ Len(served) <= Len(asked)
  /\ \A i \in DOMAIN served :
       \/ served[i].request = asked[i].frame
       \/ /\ client = "closed" /\ i = Len(asked)
          /\ served[i].request \in CutShort(asked[i].tokens)

\* What arrives of a response: an error line is read as an inline command.
Arrives(frame) ==
  IF frame[1] = "error" THEN parse_inline_command(MinusWords(frame[2])) ELSE frame

\* The n-th call returns the response to the n-th request, pipelined or not, after
\* requests that failed to parse and rows of rows alike; only of the last answer
\* of a server that died may the last line be cut short.
AnswersMatch ==
  \A i \in DOMAIN got :
    /\ i <= Len(served)
    /\ \/ got[i] = <<"ok", Arrives(served[i].response)>>
       \/ /\ server = "closed" /\ i = Len(served)
          /\ \E frame \in CutShort(write_frame(served[i].response)) : got[i] = <<"ok", frame>>

\* An error response reaches the caller as ClientError::Server.
ErrorsReachTheCaller ==
  \A i \in DOMAIN got :
    (i <= Len(served) /\ served[i].response[1] = "error") => got[i][1] = "server error"

\* Every call returns, with an answer or an error: the two sides never wait for
\* each other, although each stops reading while the socket takes no more of
\* what it writes.
CallsReturn == Unanswered > 0 ~> (Unanswered = 0 \/ client = "closed")

\* A connection task ends when its client is gone, in whatever it was doing.
TaskEnds == client = "closed" ~> server = "closed"

=============================================================================
