---------------------------- MODULE AppendOnlyFile ----------------------------
(***************************************************************************)
(* The append-only file (src/src/persistence/aof.rs) token by token:       *)
(* connections that append frames under the writer's mutex, writes that    *)
(* fail, a crash between two writes, and the replay that reads the file    *)
(* with the protocol's reader.                                             *)
(*                                                                         *)
(* write_frame flushes after every item, so a frame reaches the file in as *)
(* many writes as it has items; the first one carries the array's header   *)
(* too.  A write puts all its tokens into the file or none of them.        *)
(***************************************************************************)
EXTENDS Commands, FiniteSets

CONSTANTS
  Conns,         \* the connections
  Logged,        \* the commands they append, in the form they are logged in
  MaxAppends,    \* bound: no more appends than this
  MaxFailures,   \* bound: no more failed writes than this
  None

ASSUME FileAssumption ==
  /\ \A c \in Logged : from_frame(aof_frame(c)) = c /\ ~Failed(c)
  /\ \A c \in Logged : c.op = "DEL" => c.keys \in Seq(STRING)
  /\ \A c \in Logged : c.op \in {"LPUSH", "RPUSH"} => c.values \in Seq(STRING)
  /\ MaxAppends \in Nat /\ MaxFailures \in Nat
  /\ None \notin Logged

VARIABLES
  mode,          \* "serving", "down", "replaying" or "failed"
  file,          \* the tokens in the file
  queue,         \* the writer's mutex: its holder and those who wait, in order
  appending,     \* appending[c]: the command whose frame c appends, None without
  written,       \* how many items of the holder's frame are in the file
  open,          \* replay: the arrays read_frame has open
  position,      \* replay: how many tokens have been read
  executed,      \* replay: the commands executed, of the last replay
  acknowledged,  \* history: the commands whose append returned Ok
  seen,          \* history: the file as read_frame sees it, its open arrays and its commands
  before,        \* history: the same, before the frame that was appended last
  appends,       \* how many appends were asked for
  failures       \* how many of them failed

vars == <<mode, file, queue, appending, written, open, position, executed, acknowledged,
          seen, before, appends, failures>>
replayVars == <<open, position, executed>>
counts == <<appends, failures>>

Init ==
  /\ mode = "serving"
  /\ file = <<>>
  /\ queue = <<>>
  /\ appending = [c \in Conns |-> None]
  /\ written = 0
  /\ open = <<>> /\ position = 0 /\ executed = <<>>
  /\ acknowledged = <<>>
  /\ seen = [open |-> <<>>, commands |-> <<>>] /\ before = seen
  /\ appends = 0 /\ failures = 0

----------------------------------------------------------------------------
(* Appending.                                                              *)

\* A frame of the log is an array of bulk strings.
Tokens == [c \in Logged |-> write_row(aof_frame(c))]

Items == [c \in Logged |-> Len(Tokens[c]) - 1]

\* History: one token more.
Reread(s, token) ==
  LET next == read_frame(s.open, token)
      command == IF next.frame = NoFrame THEN Failure("none") ELSE from_frame(next.frame)
  IN  [open |-> next.open,
       commands |-> IF Failed(command) THEN s.commands ELSE Append(s.commands, command)]

Holds(c) == mode = "serving" /\ queue # <<>> /\ Head(queue) = c /\ appending[c] # None

\* tokio's Mutex is granted in the order it was asked for.
Ask(c, command) ==
  /\ mode = "serving"
  /\ appending[c] = None
  /\ appends < MaxAppends
  /\ queue' = Append(queue, c)
  /\ appending' = [appending EXCEPT ![c] = command]
  /\ appends' = appends + 1
  /\ UNCHANGED <<mode, file, written, replayVars, acknowledged, seen, before, failures>>

Write(c) ==
  /\ Holds(c)
  /\ written < Items[appending[c]]
  /\ LET header == Tokens[appending[c]][1]
         item == Tokens[appending[c]][written + 2]
     IN  IF written = 0
         THEN file' = Append(Append(file, header), item) /\ seen' = Reread(Reread(seen, header), item)
         ELSE file' = Append(file, item) /\ seen' = Reread(seen, item)
  /\ written' = written + 1
  /\ before' = IF written = 0 THEN seen ELSE before
  /\ UNCHANGED <<mode, queue, appending, replayVars, acknowledged, counts>>

Release(c) ==
  /\ queue' = Tail(queue)
  /\ appending' = [appending EXCEPT ![c] = None]
  /\ written' = 0

\* The connection answers with the command's response.
AppendOk(c) ==
  /\ Holds(c)
  /\ written = Items[appending[c]]
  /\ Release(c)
  /\ acknowledged' = Append(acknowledged, appending[c])
  /\ UNCHANGED <<mode, file, replayVars, seen, before, counts>>

\* Mutant: a failed append returns without the guard being dropped.
AppendErr_holds(c) ==
  /\ Holds(c)
  /\ written < Items[appending[c]]
  /\ failures < MaxFailures
  /\ appending' = [appending EXCEPT ![c] = None]
  /\ queue' = queue
  /\ written' = 0
  /\ failures' = failures + 1
  /\ UNCHANGED <<mode, file, replayVars, acknowledged, seen, before, appends>>

\* A write fails; the connection answers ERR failed to persist command.  What
\* has been written stays in the file.
AppendErr(c) ==
  /\ Holds(c)
  /\ written < Items[appending[c]]
  /\ failures < MaxFailures
  /\ Release(c)
  /\ failures' = failures + 1
  /\ UNCHANGED <<mode, file, replayVars, acknowledged, seen, before, appends>>

----------------------------------------------------------------------------
(* Crash and replay.                                                       *)

Crash ==
  /\ mode # "down"
  /\ mode' = "down"
  /\ queue' = <<>>
  /\ appending' = [c \in Conns |-> None]
  /\ written' = 0
  /\ UNCHANGED <<file, replayVars, acknowledged, seen, before, counts>>

Start ==
  /\ mode \in {"down", "failed"}
  /\ mode' = "replaying"
  /\ open' = <<>> /\ position' = 0 /\ executed' = <<>>
  /\ UNCHANGED <<file, queue, appending, written, acknowledged, seen, before, counts>>

\* A frame that is no command is skipped.
ExecuteFrame(frame) ==
  IF frame = NoFrame THEN executed
  ELSE IF Failed(from_frame(frame)) THEN executed
  ELSE Append(executed, from_frame(frame))

ReplayToken ==
  /\ mode = "replaying"
  /\ position < Len(file)
  /\ LET reader == read_frame(open, file[position + 1])
     IN  /\ open' = reader.open
         /\ executed' = ExecuteFrame(reader.frame)
  /\ position' = position + 1
  /\ UNCHANGED <<mode, file, queue, appending, written, acknowledged, seen, before, counts>>

\* Mutant: the file is opened for writing instead of appending.
ReplayEnd_truncates ==
  /\ mode = "replaying"
  /\ position = Len(file) /\ open = <<>>
  /\ mode' = "serving"
  /\ file' = <<>>
  /\ UNCHANGED <<queue, appending, written, replayVars, acknowledged, seen, before, counts>>

\* read_frame returns None, Aof::open opens the file for appending.
ReplayEnd ==
  /\ mode = "replaying"
  /\ position = Len(file) /\ open = <<>>
  /\ mode' = "serving"
  /\ UNCHANGED <<file, queue, appending, written, replayVars, acknowledged, seen, before, counts>>

\* The file ends inside an array: read_array, replay and run return the error.
ReplayFails ==
  /\ mode = "replaying"
  /\ position = Len(file) /\ open # <<>>
  /\ mode' = "failed"
  /\ UNCHANGED <<file, queue, appending, written, replayVars, acknowledged, seen, before, counts>>

Progress(c) == Write(c) \/ AppendOk(c) \/ AppendErr(c)

Replay == ReplayToken \/ ReplayEnd \/ ReplayFails

Next ==
  \/ \E c \in Conns : \E command \in Logged : Ask(c, command)
  \/ \E c \in Conns : Progress(c)
  \/ Crash \/ Start \/ Replay

Spec == Init /\ [][Next]_vars

\* An append under way is polled to its end and so is a replay.  Nothing is
\* owed by clients, by whoever starts the process, or by the crash.
FairSpec == Spec /\ (\A c \in Conns : WF_vars(Progress(c))) /\ WF_vars(Replay)

----------------------------------------------------------------------------
(* Properties.                                                             *)

\* Type correctness of the writer, the file and the replay.
TypeOK ==
  /\ mode \in {"serving", "down", "replaying", "failed"}
  /\ \A i \in DOMAIN file : file[i][1] \in {"*", "$"}
  /\ ToSet(queue) \subseteq Conns /\ IsInjective(queue)
  /\ \A c \in Conns : appending[c] \in Logged \cup {None}
  /\ \A c \in Conns : appending[c] # None <=> c \in ToSet(queue)
  /\ written \in Nat
  /\ \A i \in DOMAIN open : Len(open[i].items) < open[i].len
  /\ position \in 0..Len(file)
  /\ appends \in 0..MaxAppends /\ failures \in 0..MaxFailures

\* The file but for a frame that a connection is in the middle of.
Settled ==
  IF /\ mode = "serving" /\ queue # <<>>
     /\ written \in 1..(Items[appending[Head(queue)]] - 1)
  THEN before ELSE seen

\* What the open arrays lack, each but for the one item that the next one, or
\* the next frame, will be.
Lacking(arrays) ==
  UNION {{i} \X (1..(arrays[i].len - Len(arrays[i].items) - 1)) : i \in DOMAIN arrays}

\* The frames it would take to close every open array.
Hole(arrays) == IF arrays = <<>> THEN 0 ELSE 1 + Cardinality(Lacking(arrays))

Log == INSTANCE AbstractLog WITH
  Commands <- Logged,
  Items <- Items,
  state <- IF mode = "replaying" THEN "down" ELSE mode,
  log <- Settled.commands,
  hole <- Hole(Settled.open),
  restored <- IF mode = "serving" THEN executed ELSE <<>>

\* The file holds the commands appended, in the order of the mutex, and each is
\* replayed as the command it was.  A frame that is cut off never turns into a
\* command, with whatever frames follow it: it swallows as many of them as it
\* lacks items, and until it has, the file cannot be loaded.
ImplementsLog == Log!Spec

Count(s, c) == Cardinality({i \in DOMAIN s : s[i] = c})

\* As long as no write has failed, a file that can be loaded brings back every
\* command that was acknowledged, whatever crashes and restarts there were.
AcknowledgedIsRestored ==
  (mode = "replaying" /\ position = Len(file) /\ open = <<>> /\ failures = 0) =>
    \A c \in Logged : Count(acknowledged, c) <= Count(executed, c)

\* Every append returns, unless the process dies: a writer that fails in the
\* middle of a frame does not keep the others out.
AppendsReturn == \A c \in Conns : appending[c] # None ~> appending[c] = None

\* Whatever the crash interrupted, the file can be loaded.
RestartSucceeds == mode # "failed"

=============================================================================
