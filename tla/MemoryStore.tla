---------------------------- MODULE MemoryStore ----------------------------
(***************************************************************************)
(* MemoryStore (src/src/storage.rs) shared by concurrent tasks: the        *)
(* connection tasks that execute commands and the background task that     *)
(* server.rs spawns to sweep expired keys.                                 *)
(*                                                                         *)
(* A call goes through the awaits of the method it models:                 *)
(*   Call      samples SystemTime::now() and queues for the `entries` lock; *)
(*             EXPIRE and EXPIREAT first resolve their deadline and then   *)
(*             sample the clock again (EnterExpireAt);                     *)
(*   Set ...   the critical section, from lock to drop(entries);           *)
(*   Record    adds to the counters, under their own lock;                 *)
(*   ReadCounters  AERUGO.STATS reads the counters, under that lock again;  *)
(*   Return    hands the reply back.                                       *)
(* Time passes (Tick) between any two of these steps, so the time a        *)
(* critical section works with may be long gone when it runs.              *)
(***************************************************************************)
EXTENDS StoreOps

CONSTANTS
  Clients,         \* the connection tasks
  Cleaner,         \* the task of spawn_expiration_cleanup
  Commands,        \* the commands clients issue
  Horizon,         \* bound: the clock stops here
  CounterModulus   \* the counters wrap here, 2^64 in the code

ASSUME TaskAssumption ==
  /\ IsFiniteSet(Clients)
  /\ Cleaner \notin Clients
  /\ Commands \subseteq CommandSpace
  /\ \A c \in Commands : c.op # "CLEANUP"
  /\ Horizon \in Time
  /\ CounterModulus \in Nat \ {0}

Tasks == Clients \cup {Cleaner}

VARIABLES
  entries,   \* MemoryStore::entries
  counters,  \* MemoryStore::counters
  clock,     \* the system clock
  phase,     \* phase[t]: where task t is in its call
  cmd,       \* cmd[t]: the command of the call, None when idle
  now,       \* now[t]: the clock as the call sampled it
  deadline,  \* deadline[t]: the instant EXPIRE/EXPIREAT resolved
  pending,   \* pending[t]: what t has yet to add to the counters
  reply,     \* reply[t]: the result, None until there is one
  happened   \* history: the events the counters stand for

vars == <<entries, counters, clock, phase, cmd, now, deadline, pending, reply, happened>>
taskVars == <<phase, cmd, now, deadline, pending, reply>>

Phases == {"idle", "resolving", "waiting", "recording", "reading", "replying"}
Zero == [expired |-> 0, evicted |-> 0, rejected |-> 0]

Init ==
  /\ entries = [k \in Keys |-> None]
  /\ counters = Zero
  /\ clock = 0
  /\ phase = [t \in Tasks |-> "idle"]
  /\ cmd = [t \in Tasks |-> None]
  /\ now = [t \in Tasks |-> 0]
  /\ deadline = [t \in Tasks |-> 0]
  /\ pending = [t \in Tasks |-> Zero]
  /\ reply = [t \in Tasks |-> None]
  /\ happened = Zero

Tick ==
  /\ clock < Horizon
  /\ clock' = clock + 1
  /\ UNCHANGED <<entries, counters, taskVars, happened>>

----------------------------------------------------------------------------
(* Calls.                                                                  *)

CommandsOf(t) == IF t = Cleaner THEN {[op |-> "CLEANUP"]} ELSE Commands

Call(t, c) ==
  /\ phase[t] = "idle"
  /\ c \in CommandsOf(t)
  /\ c.op \notin {"EXPIRE", "EXPIREAT"}
  /\ phase' = [phase EXCEPT ![t] = "waiting"]
  /\ cmd' = [cmd EXCEPT ![t] = c]
  /\ now' = [now EXCEPT ![t] = clock]
  /\ UNCHANGED <<entries, counters, clock, deadline, pending, reply, happened>>

CallExpire(t, c) ==
  /\ phase[t] = "idle"
  /\ c \in CommandsOf(t)
  /\ c.op \in {"EXPIRE", "EXPIREAT"}
  /\ phase' = [phase EXCEPT ![t] = "resolving"]
  /\ cmd' = [cmd EXCEPT ![t] = c]
  /\ now' = [now EXCEPT ![t] = clock]
  /\ deadline' = [deadline EXCEPT ![t] =
                    IF c.op = "EXPIRE" THEN expire_deadline(c.seconds, clock)
                    ELSE expire_at_unix_deadline(c.seconds, clock)]
  /\ UNCHANGED <<entries, counters, clock, pending, reply, happened>>

EnterExpireAt(t) ==
  /\ phase[t] = "resolving"
  /\ phase' = [phase EXCEPT ![t] = "waiting"]
  /\ now' = [now EXCEPT ![t] = clock]
  /\ UNCHANGED <<entries, counters, clock, cmd, deadline, pending, reply, happened>>

----------------------------------------------------------------------------
(* Critical sections.                                                      *)

\* History: the keys a step took away, told from the key spaces alone.
Gone(o) == {k \in Keys : entries[k] # None /\ o.entries[k] = None}

Events(c, o) ==
  [expired  |-> IF c.op \in {"CLEANUP", "STATS", "INSPECT"} THEN Cardinality(Gone(o)) ELSE 0,
   evicted  |-> IF c.op \in {"SET", "LPUSH", "RPUSH"} THEN Cardinality(Gone(o) \ {c.key}) ELSE 0,
   rejected |-> IF o.reply = OutOfMemory THEN 1 ELSE 0]

Add(c, d) ==
  [expired  |-> (c.expired + d.expired) % CounterModulus,
   evicted  |-> (c.evicted + d.evicted) % CounterModulus,
   rejected |-> (c.rejected + d.rejected) % CounterModulus]

Waiting(t, ops) == phase[t] = "waiting" /\ cmd[t].op \in ops

\* Mutant: STATS reads the counters before it has recorded its own.
Finish_reads_first(t, o) ==
  /\ entries' = o.entries
  /\ reply' = [reply EXCEPT ![t] = o.reply]
  /\ pending' = [pending EXCEPT ![t] = o.pending]
  /\ phase' = [phase EXCEPT ![t] = IF cmd[t].op = "STATS" THEN "reading"
                                   ELSE IF o.pending # Zero THEN "recording"
                                   ELSE "replying"]
  /\ happened' = Add(happened, Events(cmd[t], o))
  /\ UNCHANGED <<counters, clock, cmd, now, deadline>>

\* A task with nothing to count skips the counters (the early return of
\* record_expired and record_evicted).
Finish(t, o) ==
  /\ entries' = o.entries
  /\ reply' = [reply EXCEPT ![t] = o.reply]
  /\ pending' = [pending EXCEPT ![t] = o.pending]
  /\ phase' = [phase EXCEPT ![t] = IF o.pending # Zero THEN "recording"
                                   ELSE IF cmd[t].op = "STATS" THEN "reading"
                                   ELSE "replying"]
  /\ happened' = Add(happened, Events(cmd[t], o))
  /\ UNCHANGED <<counters, clock, cmd, now, deadline>>

Set(t) ==
  /\ Waiting(t, {"SET"})
  /\ \E o \in set(entries, cmd[t].key, cmd[t].value, now[t]) : Finish(t, o)

Get(t) ==
  /\ Waiting(t, {"GET"})
  /\ Finish(t, get(entries, cmd[t].key, now[t]))

Del(t) ==
  /\ Waiting(t, {"DEL"})
  /\ Finish(t, del(entries, cmd[t].keys, now[t]))

Exists(t) ==
  /\ Waiting(t, {"EXISTS"})
  /\ Finish(t, exists(entries, cmd[t].keys, now[t]))

ExpireAt(t) ==
  /\ Waiting(t, {"EXPIRE", "EXPIREAT"})
  /\ Finish(t, expire_at(entries, cmd[t].key, deadline[t], now[t]))

GetTtl(t) ==
  /\ Waiting(t, {"TTL"})
  /\ Finish(t, ttl(entries, cmd[t].key, now[t]))

Persist(t) ==
  /\ Waiting(t, {"PERSIST"})
  /\ Finish(t, persist(entries, cmd[t].key, now[t]))

Push(t) ==
  /\ Waiting(t, {"LPUSH", "RPUSH"})
  /\ \E o \in push(entries, cmd[t].key, cmd[t].values, SideOf(cmd[t]), now[t]) :
       Finish(t, o)

Pop(t) ==
  /\ Waiting(t, {"LPOP", "RPOP"})
  /\ Finish(t, pop(entries, cmd[t].key, SideOf(cmd[t]), now[t]))

Lrange(t) ==
  /\ Waiting(t, {"LRANGE"})
  /\ Finish(t, lrange(entries, cmd[t].key, cmd[t].start, cmd[t].stop, now[t]))

Stats(t) ==
  /\ Waiting(t, {"STATS"})
  /\ Finish(t, stats(entries, now[t]))

Inspect(t) ==
  /\ Waiting(t, {"INSPECT"})
  /\ Finish(t, inspect_keys(entries, cmd[t].limit, now[t]))

CleanupExpired(t) ==
  /\ Waiting(t, {"CLEANUP"})
  /\ Finish(t, cleanup_expired(entries, now[t]))

----------------------------------------------------------------------------
(* After the lock.                                                         *)

\* Mutant: the task stores its own numbers over the counters it read.
Record_overwrites(t) ==
  /\ phase[t] = "recording"
  /\ counters' = pending[t]
  /\ pending' = [pending EXCEPT ![t] = Zero]
  /\ phase' = [phase EXCEPT ![t] = IF cmd[t].op = "STATS" THEN "reading" ELSE "replying"]
  /\ UNCHANGED <<entries, clock, cmd, now, deadline, reply, happened>>

Record(t) ==
  /\ phase[t] = "recording"
  /\ counters' = Add(counters, pending[t])
  /\ pending' = [pending EXCEPT ![t] = Zero]
  /\ phase' = [phase EXCEPT ![t] = IF cmd[t].op = "STATS" THEN "reading" ELSE "replying"]
  /\ UNCHANGED <<entries, clock, cmd, now, deadline, reply, happened>>

ReadCounters(t) ==
  /\ phase[t] = "reading"
  /\ reply' = [reply EXCEPT ![t] = <<"stats", @[2], counters>>]
  /\ phase' = [phase EXCEPT ![t] = "replying"]
  /\ UNCHANGED <<entries, counters, clock, cmd, now, deadline, pending, happened>>

Return(t) ==
  /\ phase[t] = "replying"
  /\ phase' = [phase EXCEPT ![t] = "idle"]
  /\ cmd' = [cmd EXCEPT ![t] = None]
  /\ now' = [now EXCEPT ![t] = 0]
  /\ deadline' = [deadline EXCEPT ![t] = 0]
  /\ reply' = [reply EXCEPT ![t] = None]
  /\ UNCHANGED <<entries, counters, clock, pending, happened>>

CriticalSection(t) ==
  \/ Set(t) \/ Get(t) \/ Del(t) \/ Exists(t) \/ ExpireAt(t) \/ GetTtl(t)
  \/ Persist(t) \/ Push(t) \/ Pop(t) \/ Lrange(t) \/ Stats(t) \/ Inspect(t)
  \/ CleanupExpired(t)

Progress(t) ==
  \/ EnterExpireAt(t) \/ CriticalSection(t) \/ Record(t) \/ ReadCounters(t) \/ Return(t)

Next ==
  \/ Tick
  \/ \E t \in Tasks : \E c \in CommandsOf(t) : Call(t, c) \/ CallExpire(t, c)
  \/ \E t \in Tasks : Progress(t)

Spec == Init /\ [][Next]_vars

\* The runtime polls every task that can run and the entries lock is granted
\* in the order it was asked for, so a call under way is never abandoned; the
\* sweep is called again and again by its interval.  Clients call when they
\* like and the clock owes nothing.
Fairness ==
  /\ \A t \in Tasks : WF_vars(Progress(t))
  /\ WF_vars(\E c \in CommandsOf(Cleaner) : Call(Cleaner, c))

FairSpec == Spec /\ Fairness

----------------------------------------------------------------------------
(* Invariants.                                                             *)

Commands_ == Commands \cup {[op |-> "CLEANUP"]}

\* Type correctness of the store and of every call under way.
TypeOK ==
  /\ entries \in EntriesType
  /\ counters \in Counts
  /\ clock \in 0..Horizon
  /\ phase \in [Tasks -> Phases]
  /\ cmd \in [Tasks -> Commands_ \cup {None}]
  /\ now \in [Tasks -> Time]
  /\ deadline \in [Tasks -> Time]
  /\ pending \in [Tasks -> Counts]
  /\ happened \in Counts
  /\ reply = [t \in Tasks |-> reply[t]]
  /\ \A t \in Tasks : reply[t] # None => reply[t][1] \in ReplyTags
  /\ \A t \in Tasks : cmd[t] = None <=> phase[t] = "idle"

\* The estimate never exceeds the configured limit once a critical section is
\* over, whatever mix of writes, rollbacks, evictions and expirations ran:
\* what max_memory_bytes is for.
MemoryBounded == WithinLimit(entries)

\* No list is ever stored empty: pop removes the key with the last item and a
\* rejected push removes the list it created.  EXISTS, TTL and AERUGO.INSPECT would
\* otherwise report a key that LPOP finds nothing in.
NoEmptyList == \A k \in Keys : entries[k] # None => entries[k].items # <<>>

\* How many events of the kind f the tasks of T have yet to count, each an
\* element of its own.
ToCount(carried, f, T) == UNION {{t} \X (1..carried[t][f]) : t \in T}

Carried(f, T) == Cardinality(ToCount(pending, f, T))

\* Nothing is lost or counted twice although counters are updated after the
\* entries lock is dropped: what was recorded plus what tasks still carry is
\* what happened to the key space.
CountersExact ==
  \A f \in {"expired", "evicted", "rejected"} :
    happened[f] = (counters[f] + Carried(f, Tasks)) % CounterModulus

\* A key that had expired when a command on it was called is as good as
\* missing: reply, key space and counters come out as if it were not there.
\* Every command begins with remove_if_expired for this.
ExpiredIsMissing ==
  \A t \in Tasks : phase[t] = "waiting" =>
    LET stale == NamedKeys(cmd[t]) \cap ExpiredKeys(entries, now[t])
    IN  Execute(entries, cmd[t], deadline[t], now[t])
          = Execute(Without(entries, stale), cmd[t], deadline[t], now[t])

----------------------------------------------------------------------------
(* Action properties.                                                      *)

Executing(t) == phase[t] = "waiting" /\ phase'[t] # "waiting"

Rejecting(t) == Waiting(t, Writes) /\ Executing(t) /\ reply'[t] = OutOfMemory

\* A write answered with OutOfMemory leaves no trace, even when it had already
\* replaced the value or evicted other keys: all it may have done is drop its
\* own key because that had expired.
RejectedWriteRollsBack ==
  [][\A t \in Tasks : Rejecting(t) =>
       entries' = remove_if_expired(entries, cmd[t].key, now[t])]_vars

\* The bytes the written key alone would take.
WrittenBytes(t) ==
  LET c == cmd[t]
      e == remove_if_expired(entries, c.key, now[t])
      old == IF e[c.key] = None THEN <<>> ELSE e[c.key].items
      items == IF c.op = "SET" THEN <<c.value>>
               ELSE IF SideOf(c) = "left" THEN Reverse(c.values) \o old
               ELSE old \o c.values
      overhead == IF c.op = "SET" THEN 0 ELSE ItemOverhead
      bytes == UNION {{i} \X (1..(ValueLen[items[i]] + overhead)) : i \in DOMAIN items}
  IN  EntryOverhead + KeyLen[c.key] + Cardinality(bytes)

\* With allkeys-random a write is refused only if it would not fit into an
\* otherwise empty store: as long as some other key is left, it is evicted.
RejectedOnlyWhenHopeless ==
  [][\A t \in Tasks : Rejecting(t) /\ Policy = "allkeys-random" =>
       WrittenBytes(t) > MaxMemory]_vars

\* A write that was acknowledged is in the store when the lock is dropped:
\* the eviction it caused never takes the key it was made for.
AcknowledgedWriteIsStored ==
  [][\A t \in Tasks : Executing(t) =>
       /\ (cmd[t].op = "SET" /\ reply'[t] = Ok) =>
            /\ entries'[cmd[t].key] # None
            /\ entries'[cmd[t].key].items = <<cmd[t].value>>
       /\ (cmd[t].op \in {"LPUSH", "RPUSH"} /\ reply'[t][1] = "int") =>
            /\ entries'[cmd[t].key] # None
            /\ Len(entries'[cmd[t].key].items) = reply'[t][2]]_vars

Live(k) == entries[k] # None /\ ~is_expired(entries[k], clock)

\* A live key disappears only through a command that names it, or by eviction
\* for another key's write under allkeys-random.  In particular no lazy
\* expiration and no sweep takes a key before its deadline, although they
\* compare that deadline with a clock they read before waiting for the lock.
LiveKeysSurvive ==
  [][\A k \in Keys : Live(k) /\ entries'[k] = None =>
       \E t \in Tasks : Executing(t) /\
         \/ cmd[t].op \in Removers /\ k \in NamedKeys(cmd[t])
         \/ /\ cmd[t].op \in Writes /\ k # cmd[t].key
            /\ Policy = "allkeys-random" /\ reply'[t] # OutOfMemory]_vars

\* The deadline of a key that stays changes only by EXPIRE, EXPIREAT, PERSIST,
\* an acknowledged SET, or a push that found the key expired.  List commands
\* and rejected writes keep it.
DeadlineProvenance ==
  [][\A k \in Keys :
       (entries[k] # None /\ entries'[k] # None
          /\ entries[k].expires_at # entries'[k].expires_at) =>
       \E t \in Tasks : Executing(t) /\ NamedKeys(cmd[t]) = {k} /\
         \/ cmd[t].op \in {"EXPIRE", "EXPIREAT", "PERSIST"}
         \/ cmd[t].op = "SET" /\ reply'[t] = Ok
         \/ cmd[t].op \in {"LPUSH", "RPUSH"} /\ is_expired(entries[k], clock)]_vars

\* The two halves of a STATS reply come from two moments, the key space from the
\* critical section and the counters from a later one.  Still they miss nothing
\* the reply itself brought about: what has happened and is not in the counters
\* reported is what other tasks carry and have yet to record.
StatsMissOnlyOthers ==
  [][\A t \in Tasks : (phase[t] = "reading" /\ phase'[t] = "replying") =>
       \A f \in {"expired", "evicted", "rejected"} :
         happened[f] = (reply'[t][3][f] + Carried(f, Tasks \ {t})) % CounterModulus]_vars

----------------------------------------------------------------------------
(* Liveness, under FairSpec.                                               *)

\* An expired key that nobody asks for still goes away: the sweep collects it.
ExpiredKeysAreCollected ==
  \A k \in Keys : (k \in ExpiredKeys(entries, clock)) ~> (k \notin ExpiredKeys(entries, clock))

=============================================================================
