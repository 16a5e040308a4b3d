------------------------------- MODULE Server -------------------------------
(***************************************************************************)
(* The server process (src/src/server.rs) with its append-only file        *)
(* (src/src/persistence/aof.rs): connections that execute commands and log *)
(* the durable ones, a crash at any moment, and the replay that rebuilds   *)
(* the store before the next process listens.                              *)
(*                                                                         *)
(* A connection serves one request at a time:                              *)
(*   Receive  decodes the command and builds its log frame (to_aof_frame), *)
(*            which turns EXPIRE into an absolute deadline;                *)
(*   Enter    calls the store, which samples the clock and queues for the  *)
(*            entries lock;                                                *)
(*   Run      the critical section (StoreOps!Execute);                     *)
(*   Append   writes the frame under the log's own lock;                   *)
(*   Reply    sends the response.                                          *)
(* The store's counters do not influence the key space and are left to     *)
(* MemoryStore.tla, which also separates the two clock readings of EXPIRE  *)
(* that Enter takes at once.                                               *)
(***************************************************************************)
EXTENDS StoreOps

CONSTANTS
  Conns,      \* the connections
  Commands,   \* Commands[c]: the commands connection c sends
  Horizon,    \* bound: the clock stops here
  MaxLog      \* bound: no more durable commands than this

ASSUME ServerAssumption ==
  /\ IsFiniteSet(Conns)
  /\ Commands \in [Conns -> SUBSET {c \in CommandSpace : c.op # "CLEANUP"}]
  /\ Horizon \in Time
  /\ MaxLog \in Nat

VARIABLES
  mode,      \* "serving", "down", "replaying", "replayed" or "failed"
  entries,   \* MemoryStore::entries
  clock,     \* the system clock
  log,       \* the complete frames in the file
  torn,      \* the file ends in a frame that is not complete
  replayed,  \* how many frames Aof::replay has executed
  phase,     \* phase[c]: where connection c is in its request
  cmd,       \* cmd[c]: the request, None when there is none
  frame,     \* frame[c]: its log frame, None when it is not durable
  now,       \* now[c]: the clock as the store sampled it
  deadline,  \* deadline[c]: the instant EXPIRE/EXPIREAT resolved
  versions   \* history: what key k held since every write was last logged

vars == <<mode, entries, clock, log, torn, replayed, phase, cmd, frame, now, deadline, versions>>
connVars == <<phase, cmd, frame, now, deadline>>

Empty == [k \in Keys |-> None]

NoRequest ==
  /\ phase' = [c \in Conns |-> "idle"]
  /\ cmd' = [c \in Conns |-> None]
  /\ frame' = [c \in Conns |-> None]
  /\ now' = [c \in Conns |-> 0]
  /\ deadline' = [c \in Conns |-> 0]

Init ==
  /\ mode = "serving"
  /\ entries = Empty
  /\ clock = 0
  /\ log = <<>>
  /\ torn = FALSE
  /\ replayed = 0
  /\ phase = [c \in Conns |-> "idle"]
  /\ cmd = [c \in Conns |-> None]
  /\ frame = [c \in Conns |-> None]
  /\ now = [c \in Conns |-> 0]
  /\ deadline = [c \in Conns |-> 0]
  /\ versions = [k \in Keys |-> {None}]

Tick ==
  /\ clock < Horizon
  /\ clock' = clock + 1
  /\ UNCHANGED <<mode, entries, log, torn, replayed, connVars, versions>>

----------------------------------------------------------------------------
(* The log frame of a command.                                             *)

\* Mutant: a second is added whether or not the instant has a fraction of one.
unix_seconds_ceil_adds_one(instant) == instant \div TicksPerSecond + 1

unix_seconds_ceil(instant) == (instant + TicksPerSecond - 1) \div TicksPerSecond

expiration_deadline(seconds, t) == unix_seconds_ceil(CheckedAddOr(t, seconds, t))

\* Mutant: both pushes are logged as RPUSH.
to_aof_frame_one_push(c, t) ==
  CASE c.op \in {"SET", "DEL", "EXPIREAT", "PERSIST", "RPUSH", "LPOP", "RPOP"} -> c
    [] c.op = "LPUSH" -> [c EXCEPT !.op = "RPUSH"]
    [] OTHER -> None

to_aof_frame(c, t) ==
  CASE c.op \in {"SET", "DEL", "EXPIREAT", "PERSIST", "LPUSH", "RPUSH", "LPOP", "RPOP"} -> c
    [] c.op = "EXPIRE" -> [op |-> "EXPIREAT", key |-> c.key,
                           seconds |-> expiration_deadline(c.seconds, t)]
    [] OTHER -> None

\* The instant the store resolves for a command it executes at time t.
ResolvedDeadline(c, t) ==
  CASE c.op = "EXPIRE" -> expire_deadline(c.seconds, t)
    [] c.op = "EXPIREAT" -> expire_at_unix_deadline(c.seconds, t)
    [] OTHER -> 0

----------------------------------------------------------------------------
(* A request.                                                              *)

Unlogged(c) == phase[c] = "appending"

InFlight == {c \in Conns : phase[c] \in {"called", "waiting", "appending"} /\ frame[c] # None}

Receive(c, r) ==
  /\ mode = "serving"
  /\ phase[c] = "idle"
  /\ Len(log) + Cardinality(InFlight) < MaxLog
  /\ phase' = [phase EXCEPT ![c] = "called"]
  /\ cmd' = [cmd EXCEPT ![c] = r]
  /\ frame' = [frame EXCEPT ![c] = to_aof_frame(r, clock)]
  /\ UNCHANGED <<mode, entries, clock, log, torn, replayed, now, deadline, versions>>

Enter(c) ==
  /\ mode = "serving"
  /\ phase[c] = "called"
  /\ phase' = [phase EXCEPT ![c] = "waiting"]
  /\ now' = [now EXCEPT ![c] = clock]
  /\ deadline' = [deadline EXCEPT ![c] = ResolvedDeadline(cmd[c], clock)]
  /\ UNCHANGED <<mode, entries, clock, log, torn, replayed, cmd, frame, versions>>

\* Only a command that succeeded and is durable goes to the log.
Logs(c, o) == frame[c] # None /\ o.reply \notin {WrongType, OutOfMemory}

Run(c) ==
  /\ mode = "serving"
  /\ phase[c] = "waiting"
  /\ \E o \in Execute(entries, cmd[c], deadline[c], now[c]) :
       /\ entries' = o.entries
       /\ phase' = [phase EXCEPT ![c] = IF Logs(c, o) THEN "appending" ELSE "replying"]
       /\ versions' = IF Logs(c, o) \/ \E d \in Conns : Unlogged(d)
                      THEN [k \in Keys |-> versions[k] \cup {o.entries[k]}]
                      ELSE [k \in Keys |-> {o.entries[k]}]
  /\ UNCHANGED <<mode, clock, log, torn, replayed, cmd, frame, now, deadline>>

Append_(c) ==
  /\ mode = "serving"
  /\ Unlogged(c)
  /\ log' = Append(log, frame[c])
  /\ phase' = [phase EXCEPT ![c] = "replying"]
  /\ versions' = IF \E d \in Conns \ {c} : Unlogged(d) THEN versions
                 ELSE [k \in Keys |-> {entries[k]}]
  /\ UNCHANGED <<mode, entries, clock, torn, replayed, cmd, frame, now, deadline>>

\* Mutant: the connection keeps the request it has answered.
Reply_keeps_request(c) ==
  /\ mode = "serving"
  /\ phase[c] = "replying"
  /\ phase' = [phase EXCEPT ![c] = "idle"]
  /\ UNCHANGED <<mode, entries, clock, log, torn, replayed, cmd, frame, now, deadline, versions>>

Reply(c) ==
  /\ mode = "serving"
  /\ phase[c] = "replying"
  /\ phase' = [phase EXCEPT ![c] = "idle"]
  /\ cmd' = [cmd EXCEPT ![c] = None]
  /\ frame' = [frame EXCEPT ![c] = None]
  /\ now' = [now EXCEPT ![c] = 0]
  /\ deadline' = [deadline EXCEPT ![c] = 0]
  /\ UNCHANGED <<mode, entries, clock, log, torn, replayed, versions>>

\* The task of spawn_expiration_cleanup.
Sweep ==
  /\ mode = "serving"
  /\ entries' = cleanup_expired(entries, clock).entries
  /\ UNCHANGED <<mode, clock, log, torn, replayed, connVars, versions>>

----------------------------------------------------------------------------
(* Crash and restart.                                                      *)

\* The process dies.  A frame that was being written (write_frame flushes it
\* item by item) may be in the file in part.
Crash ==
  /\ mode \in {"serving", "replaying", "replayed"}
  /\ mode' = "down"
  /\ entries' = Empty
  /\ torn' \in IF \E c \in Conns : Unlogged(c) THEN BOOLEAN ELSE {torn}
  /\ replayed' = 0
  /\ NoRequest
  /\ UNCHANGED <<clock, log, versions>>

Start ==
  /\ mode \in {"down", "failed"}
  /\ mode' = "replaying"
  /\ replayed' = 0
  /\ entries' = Empty
  /\ UNCHANGED <<clock, log, torn, connVars, versions>>

\* Aof::replay executes frame by frame, each at the time it is read; an error
\* of the command is skipped.
ReplayFrame ==
  /\ mode = "replaying"
  /\ replayed < Len(log)
  /\ replayed' = replayed + 1
  /\ LET r == log[replayed + 1]
     IN  \E o \in Execute(entries, r, ResolvedDeadline(r, clock), clock) :
           entries' = o.entries
  /\ UNCHANGED <<mode, clock, log, torn, connVars, versions>>

\* read_frame meets the end of the file inside an array: replay and run
\* return the error.
ReplayTorn ==
  /\ mode = "replaying"
  /\ replayed = Len(log) /\ torn
  /\ mode' = "failed"
  /\ UNCHANGED <<entries, clock, log, torn, replayed, connVars, versions>>

ReplayDone ==
  /\ mode = "replaying"
  /\ replayed = Len(log) /\ ~torn
  /\ mode' = "replayed"
  /\ UNCHANGED <<entries, clock, log, torn, replayed, connVars, versions>>

\* Aof::open, bind, and the accept loop.
Listen ==
  /\ mode = "replayed"
  /\ mode' = "serving"
  /\ versions' = [k \in Keys |-> {entries[k]}]
  /\ UNCHANGED <<entries, clock, log, torn, replayed, connVars>>

Next ==
  \/ Tick
  \/ \E c \in Conns : \E r \in Commands[c] : Receive(c, r)
  \/ \E c \in Conns : Enter(c) \/ Run(c) \/ Append_(c) \/ Reply(c)
  \/ Sweep \/ Crash \/ Start \/ ReplayFrame \/ ReplayTorn \/ ReplayDone \/ Listen

Spec == Init /\ [][Next]_vars

----------------------------------------------------------------------------
(* What restarting from the file promises.                                 *)

\* Type correctness of the server, its connections and its file.  The file
\* holds durable commands in the form they are logged in: each is its own frame.
TypeOK ==
  /\ mode \in {"serving", "down", "replaying", "replayed", "failed"}
  /\ entries \in EntriesType
  /\ clock \in 0..Horizon
  /\ Len(log) <= MaxLog
  /\ \A i \in DOMAIN log : log[i] \in CommandSpace /\ to_aof_frame(log[i], clock) = log[i]
  /\ torn \in BOOLEAN
  /\ replayed \in 0..Len(log)
  /\ phase \in [Conns -> {"idle", "called", "waiting", "appending", "replying"}]
  /\ \A c \in Conns : cmd[c] \in Commands[c] \cup {None}
  /\ \A c \in Conns : frame[c] \in CommandSpace \cup {None}
  /\ now \in [Conns -> Time] /\ deadline \in [Conns -> Time]
  /\ versions \in [Keys -> SUBSET (Entry \cup {None})]
  /\ \A c \in Conns : cmd[c] = None <=> phase[c] = "idle"

Alive(v, t) == v # None /\ ~is_expired(v, t)

Content(v) == [type |-> v.type, items |-> v.items]

\* A key that was alive before the crash, and still would be, is alive with
\* the content it had once the file has been replayed.  versions[k] holds more
\* than one candidate only where a write was executed but not yet logged.
ReplayKeepsLiveKeys ==
  mode = "replayed" =>
    \A k \in Keys : (\A v \in versions[k] : Alive(v, clock)) =>
      /\ Alive(entries[k], clock)
      /\ Content(entries[k]) \in {Content(v) : v \in versions[k]}

\* The log keeps deadlines in whole seconds, rounded up, so an expired key may
\* be back for the rest of its second.
Fading(v, t) == v.expires_at # None /\ v.expires_at < t + TicksPerSecond

\* A key that was deleted, evicted or had expired before the crash is not there
\* after the replay, but for the rest of the second it expired in.
ReplayRevivesNothing ==
  mode = "replayed" =>
    \A k \in Keys : Alive(entries[k], clock) =>
      \/ \E v \in versions[k] : Alive(v, clock)
      \/ Fading(entries[k], clock)

=============================================================================
