------------------------------ MODULE StoreOps ------------------------------
(***************************************************************************)
(* The critical sections of MemoryStore (src/src/storage.rs).              *)
(*                                                                         *)
(* Every method of MemoryStore samples SystemTime::now(), waits for the    *)
(* write half of the `entries` lock and then computes, without awaiting, a *)
(* new key space and an answer.  This module is that computation: what the *)
(* method does to a key space `e` when it was called at time `now`.  It    *)
(* has no variables; MemoryStore.tla adds the tasks, the locks and the     *)
(* clock, Server.tla adds connections and the append-only file.            *)
(*                                                                         *)
(* A key space is a function from Keys to an entry, or to None where the   *)
(* HashMap has no such key.  Time is counted in ticks, TicksPerSecond to   *)
(* the second, from the Unix epoch.                                        *)
(***************************************************************************)
EXTENDS Integers, Sequences, FiniteSets, SequencesExt

CONSTANTS
  Keys,            \* the keys clients use
  Values,          \* the payloads clients store
  KeyLen,          \* KeyLen[k]: length in bytes of key k
  ValueLen,        \* ValueLen[v]: length in bytes of payload v
  KeyOrder,        \* the keys in byte order, the order AERUGO.INSPECT sorts by
  EntryOverhead,   \* ENTRY_OVERHEAD_BYTES
  ItemOverhead,    \* LIST_ITEM_OVERHEAD_BYTES
  MaxMemory,       \* StoreConfig::max_memory_bytes: a number of bytes or None
  Policy,          \* StoreConfig::eviction_policy
  TicksPerSecond,  \* resolution of SystemTime, in ticks
  MaxInstant,      \* last instant SystemTime can represent
  None             \* Option::None

ASSUME StoreAssumption ==
  /\ IsFiniteSet(Keys)
  /\ KeyLen \in [Keys -> Nat]
  /\ ValueLen \in [Values -> Nat]
  /\ EntryOverhead \in Nat
  /\ ItemOverhead \in Nat
  /\ MaxMemory \in Nat \cup {None}
  /\ Policy \in {"noeviction", "allkeys-random"}
  /\ TicksPerSecond \in Nat \ {0}
  /\ MaxInstant \in Nat
  /\ None \notin Nat
  /\ Len(KeyOrder) = Cardinality(Keys)
  /\ ToSet(KeyOrder) = Keys

Time == 0..MaxInstant

\* A string entry keeps its payload as the only item.
Entry == [type : {"string", "list"}, items : Seq(Values), expires_at : Time \cup {None}]

EntriesType == [Keys -> Entry \cup {None}]

\* The arguments each command carries once Command::from_frame accepted it:
\* DEL, EXISTS, LPUSH and RPUSH have at least one key or value.
NonEmptySeq(S) == Seq(S) \ {<<>>}

CommandSpace ==
       [op : {"SET"}, key : Keys, value : Values]
  \cup [op : {"GET", "TTL", "PERSIST", "LPOP", "RPOP"}, key : Keys]
  \cup [op : {"DEL", "EXISTS"}, keys : NonEmptySeq(Keys)]
  \cup [op : {"EXPIRE", "EXPIREAT"}, key : Keys, seconds : Nat]
  \cup [op : {"LPUSH", "RPUSH"}, key : Keys, values : NonEmptySeq(Values)]
  \cup [op : {"LRANGE"}, key : Keys, start : Int, stop : Int]
  \cup [op : {"STATS", "CLEANUP"}]
  \cup [op : {"INSPECT"}, limit : Nat]

\* Option::None is no Some: no entry, no command, no pair of bounds.
ASSUME NoneAssumption == None \notin Entry \cup CommandSpace \cup (Nat \X Nat)

----------------------------------------------------------------------------
(* Expiration.                                                             *)

is_expired(entry, now) ==
  entry.expires_at # None /\ entry.expires_at <= now

Present(e) == {k \in Keys : e[k] # None}

ExpiredKeys(e, now) == {k \in Present(e) : is_expired(e[k], now)}

\* The key space without the keys of S (HashMap::remove and retain).
Without(e, S) == [k \in Keys |-> IF k \in S THEN None ELSE e[k]]

remove_if_expired(e, key, now) == Without(e, {key} \cap ExpiredKeys(e, now))

\* Mutant: the sweep spares the keys whose deadline is this very instant.
retain_unexpired_late(e, now) ==
  Without(e, {k \in ExpiredKeys(e, now) : e[k].expires_at < now})

retain_unexpired(e, now) == Without(e, ExpiredKeys(e, now))

\* Mutant: the sum is not checked.
CheckedAddOr_unchecked(base, seconds, now) == base + seconds * TicksPerSecond

\* SystemTime::checked_add(..).unwrap_or(now): a sum that SystemTime cannot
\* represent falls back to the current time.
CheckedAddOr(base, seconds, now) ==
  LET sum == base + seconds * TicksPerSecond
  IN  IF sum <= MaxInstant THEN sum ELSE now

expire_deadline(seconds, now) == CheckedAddOr(now, seconds, now)

expire_at_unix_deadline(unix_seconds, now) == CheckedAddOr(0, unix_seconds, now)

----------------------------------------------------------------------------
(* Memory accounting.  estimated_memory_bytes adds up the bytes charged to *)
(* the entries; here every charged byte is an element of Footprint(e), the *)
(* overhead and the key under index 0, the payload under its item's index, *)
(* and the estimate is how many there are.                                 *)

ItemBytes(entry, i) ==
  ValueLen[entry.items[i]] + (IF entry.type = "list" THEN ItemOverhead ELSE 0)

EntryFootprint(key, entry) ==
  ({<<key, 0>>} \X (1..(EntryOverhead + KeyLen[key])))
    \cup UNION {{<<key, i>>} \X (1..ItemBytes(entry, i)) : i \in DOMAIN entry.items}

Footprint(e) == UNION {EntryFootprint(k, e[k]) : k \in Present(e)}

estimated_memory_bytes(e) == Cardinality(Footprint(e))

WithinLimit(e) ==
  MaxMemory = None \/ estimated_memory_bytes(e) <= MaxMemory

\* Mutant: every key is a candidate, the one just written included.
evict_unprotected(e, protected_key) ==
  {victims \in SUBSET Present(e) :
     /\ WithinLimit(Without(e, victims))
     /\ \E last \in victims : ~WithinLimit(Without(e, victims \ {last}))}

\* Mutant: only keys without a deadline are candidates.
evict_undated_only(e, protected_key) ==
  {victims \in SUBSET {k \in Present(e) \ {protected_key} : e[k].expires_at = None} :
     /\ WithinLimit(Without(e, victims))
     /\ \E last \in victims : ~WithinLimit(Without(e, victims \ {last}))}

\* The sets of keys evict_until_within_limit can take out: it removes keys
\* other than the protected one, in an arbitrary order (the order depends on
\* the clock and on the HashMap's iteration order), and stops at the first
\* key space within the limit.  So the result fits, and would not without
\* the last victim.  EvictionLoop.tla checks this against the loop itself.
evict_until_within_limit(e, protected_key) ==
  {victims \in SUBSET (Present(e) \ {protected_key}) :
     /\ WithinLimit(Without(e, victims))
     /\ \E last \in victims : ~WithinLimit(Without(e, victims \ {last}))}

\* The possible victim sets; none at all means Err(OutOfMemory).
enforce_memory_limit(e, protected_key) ==
  IF WithinLimit(e) THEN {{}}
  ELSE IF Policy = "noeviction" THEN {}
  ELSE evict_until_within_limit(e, protected_key)

\* Mutants of the rollback: the old entry is lost, or survives without its
\* deadline.
restore_entry_lost(e, key, old) == [e EXCEPT ![key] = None]
restore_entry_undated(e, key, old) ==
  [e EXCEPT ![key] = IF old = None THEN None ELSE [old EXCEPT !.expires_at = None]]

restore_entry(e, key, old) == [e EXCEPT ![key] = old]

----------------------------------------------------------------------------
(* Replies, tagged with the RESP frame Command::execute turns them into.   *)

Ok == <<"ok">>
Null == <<"null">>
Integer(n) == <<"int", n>>
Bulk(v) == <<"bulk", v>>
Array(s) == <<"array", s>>
WrongType == <<"error", "WrongType">>
OutOfMemory == <<"error", "OutOfMemory">>

ReplyTags == {"ok", "null", "int", "bulk", "array", "error", "stats"}

\* StoreCounters.
Counts == [expired : Nat, evicted : Nat, rejected : Nat]

\* What a critical section leaves behind: the key space, the answer, and what
\* the task still has to add to the counters once it has dropped the lock.
Outcome(e, reply, expired, evicted, rejected) ==
  [entries |-> e, reply |-> reply,
   pending |-> [expired |-> expired, evicted |-> evicted, rejected |-> rejected]]

Quiet(e, reply) == Outcome(e, reply, 0, 0, 0)

----------------------------------------------------------------------------
(* Strings and keys.                                                       *)

\* Mutant: the limit is checked before the write instead of after it.
commit_write_check_first(e, key, old, reply) ==
  LET choices == enforce_memory_limit(restore_entry(e, key, old), key)
  IN  IF choices = {}
      THEN {Outcome(restore_entry(e, key, old), OutOfMemory, 0, 0, 1)}
      ELSE {Outcome(Without(e, victims), reply, 0, Cardinality(victims), 0) :
              victims \in choices}

\* The tail shared by set and push: `e` holds the new value under `key`;
\* make room for it or put `old` back.
commit_write(e, key, old, reply) ==
  LET choices == enforce_memory_limit(e, key)
  IN  IF choices = {}
      THEN {Outcome(restore_entry(e, key, old), OutOfMemory, 0, 0, 1)}
      ELSE {Outcome(Without(e, victims), reply, 0, Cardinality(victims), 0) :
              victims \in choices}

set(e0, key, value, now) ==
  LET e == remove_if_expired(e0, key, now)
      new == [type |-> "string", items |-> <<value>>, expires_at |-> None]
  IN  commit_write([e EXCEPT ![key] = new], key, e[key], Ok)

get(e0, key, now) ==
  LET e == remove_if_expired(e0, key, now)
      reply == IF e[key] = None THEN Null
               ELSE IF e[key].type = "string" THEN Bulk(e[key].items[1])
               ELSE WrongType
  IN  Quiet(e, reply)

\* Mutant: DEL does not look at the deadline and counts expired keys.
del_counts_expired(e0, keys, now) ==
  Quiet(Without(e0, ToSet(keys)), Integer(Cardinality(ToSet(keys) \cap Present(e0))))

\* A key named twice is deleted once, but exists twice.
del(e0, keys, now) ==
  LET live == ToSet(keys) \cap (Present(e0) \ ExpiredKeys(e0, now))
  IN  Quiet(Without(e0, ToSet(keys)), Integer(Cardinality(live)))

exists(e0, keys, now) ==
  LET e == Without(e0, ToSet(keys) \cap ExpiredKeys(e0, now))
  IN  Quiet(e, Integer(Cardinality({i \in DOMAIN keys : e[keys[i]] # None})))

----------------------------------------------------------------------------
(* Expiration commands.                                                    *)

expire_at(e0, key, expires_at, now) ==
  LET e == remove_if_expired(e0, key, now)
  IN  IF e[key] = None THEN Quiet(e, Integer(0))
      ELSE IF expires_at <= now THEN Quiet(Without(e, {key}), Integer(1))
      ELSE Quiet([e EXCEPT ![key].expires_at = expires_at], Integer(1))

entry_ttl_seconds(entry, now) ==
  IF entry.expires_at = None THEN -1
  ELSE IF entry.expires_at <= now THEN 0
  ELSE (entry.expires_at - now) \div TicksPerSecond

ttl(e0, key, now) ==
  LET e == remove_if_expired(e0, key, now)
  IN  Quiet(e, Integer(IF e[key] = None THEN -2 ELSE entry_ttl_seconds(e[key], now)))

\* Mutant: PERSIST acts on the key as found, without the lazy expiration.
persist_expired(e, key, now) ==
  IF e[key] = None THEN Quiet(e, Integer(0))
  ELSE IF e[key].expires_at = None THEN Quiet(e, Integer(0))
  ELSE Quiet([e EXCEPT ![key].expires_at = None], Integer(1))

persist(e0, key, now) ==
  LET e == remove_if_expired(e0, key, now)
  IN  IF e[key] = None THEN Quiet(e, Integer(0))
      ELSE IF e[key].expires_at = None THEN Quiet(e, Integer(0))
      ELSE Quiet([e EXCEPT ![key].expires_at = None], Integer(1))

\* Mutant: the sweep also takes keys whose deadline is still ahead.
cleanup_all_dated(e0, now) ==
  LET dated == {k \in Present(e0) : e0[k].expires_at # None}
  IN  Outcome(Without(e0, dated), Integer(Cardinality(dated)), Cardinality(dated), 0, 0)

cleanup_expired(e0, now) ==
  LET removed == Cardinality(ExpiredKeys(e0, now))
  IN  Outcome(retain_unexpired(e0, now), Integer(removed), removed, 0, 0)

----------------------------------------------------------------------------
(* Lists.                                                                  *)

\* Mutant: several values pushed to the left end up in the order given.
push_in_order(e0, key, values, side, now) ==
  LET e == remove_if_expired(e0, key, now)
      old == e[key]
      list == IF old = None
              THEN [type |-> "list", items |-> <<>>, expires_at |-> None]
              ELSE old
      pushed == IF side = "left" THEN values \o list.items ELSE list.items \o values
  IN  IF list.type # "list" THEN {Quiet(e, WrongType)}
      ELSE commit_write([e EXCEPT ![key] = [list EXCEPT !.items = pushed]],
                        key, old, Integer(Len(pushed)))

push(e0, key, values, side, now) ==
  LET e == remove_if_expired(e0, key, now)
      old == e[key]
      list == IF old = None
              THEN [type |-> "list", items |-> <<>>, expires_at |-> None]
              ELSE old
      pushed == IF side = "left" THEN Reverse(values) \o list.items ELSE list.items \o values
  IN  IF list.type # "list" THEN {Quiet(e, WrongType)}
      ELSE commit_write([e EXCEPT ![key] = [list EXCEPT !.items = pushed]],
                        key, old, Integer(Len(pushed)))

\* Mutant: the list that lost its last item stays behind, empty.
pop_leaves_empty(e0, key, side, now) ==
  LET e == remove_if_expired(e0, key, now)
      items == e[key].items
      rest == IF side = "left" THEN Tail(items) ELSE Front(items)
  IN  IF e[key] = None THEN Quiet(e, Null)
      ELSE IF e[key].type # "list" THEN Quiet(e, WrongType)
      ELSE Quiet([e EXCEPT ![key].items = rest],
                 Bulk(IF side = "left" THEN Head(items) ELSE Last(items)))

pop(e0, key, side, now) ==
  LET e == remove_if_expired(e0, key, now)
      items == e[key].items
      rest == IF side = "left" THEN Tail(items) ELSE Front(items)
      left_over == IF rest = <<>> THEN Without(e, {key})
                   ELSE [e EXCEPT ![key].items = rest]
  IN  IF e[key] = None THEN Quiet(e, Null)
      ELSE IF e[key].type # "list" THEN Quiet(e, WrongType)
      ELSE Quiet(left_over, Bulk(IF side = "left" THEN Head(items) ELSE Last(items)))

\* Mutant: a start before the first item makes the range empty.
normalize_range_strict(len, start, stop) ==
  LET first == IF start < 0 THEN len + start ELSE start
      last == IF stop < 0 THEN len + stop ELSE stop
      to == IF last >= len THEN len - 1 ELSE last
  IN  IF len = 0 \/ last < 0 \/ first < 0 \/ first > to THEN None ELSE <<first, to>>

\* The zero-based inclusive bounds of a range, or None for an empty one.
normalize_range(len, start, stop) ==
  LET first == IF start < 0 THEN len + start ELSE start
      last == IF stop < 0 THEN len + stop ELSE stop
      from == IF first < 0 THEN 0 ELSE first
      to == IF last >= len THEN len - 1 ELSE last
  IN  IF len = 0 \/ last < 0 \/ from >= len \/ from > to THEN None ELSE <<from, to>>

lrange(e0, key, start, stop, now) ==
  LET e == remove_if_expired(e0, key, now)
      items == e[key].items
      range == normalize_range(Len(items), start, stop)
  IN  IF e[key] = None THEN Quiet(e, Array(<<>>))
      ELSE IF e[key].type # "list" THEN Quiet(e, WrongType)
      ELSE Quiet(e, Array(IF range = None THEN <<>>
                          ELSE SubSeq(items, range[1] + 1, range[2] + 1)))

----------------------------------------------------------------------------
(* Diagnostics.                                                            *)

payload_bytes(entry) == FoldLeft(LAMBDA n, v : n + ValueLen[v], 0, entry.items)

build_stats(e) ==
  LET OfType(t) == {k \in Present(e) : e[k].type = t}
  IN  [total_keys |-> Cardinality(Present(e)),
       string_keys |-> Cardinality(OfType("string")),
       list_keys |-> Cardinality(OfType("list")),
       expiring_keys |-> Cardinality({k \in Present(e) : e[k].expires_at # None}),
       list_items |-> Cardinality(UNION {{k} \X DOMAIN e[k].items : k \in OfType("list")}),
       key_bytes |-> MapThenSumSet(LAMBDA k : KeyLen[k], Present(e)),
       payload_bytes |-> MapThenSumSet(LAMBDA k : payload_bytes(e[k]), Present(e)),
       estimated_memory_bytes |-> estimated_memory_bytes(e),
       max_memory_bytes |-> MaxMemory,
       eviction_policy |-> Policy]

stats(e0, now) ==
  LET e == retain_unexpired(e0, now)
  IN  Outcome(e, <<"stats", build_stats(e)>>, Cardinality(ExpiredKeys(e0, now)), 0, 0)

inspection(key, entry, now) ==
  [key |-> key, value_type |-> entry.type, ttl_seconds |-> entry_ttl_seconds(entry, now),
   payload_bytes |-> payload_bytes(entry),
   estimated_memory_bytes |-> Cardinality(EntryFootprint(key, entry)),
   list_items |-> IF entry.type = "list" THEN Len(entry.items) ELSE 0]

SortedKeys(S) == SelectSeq(KeyOrder, LAMBDA k : k \in S)

\* A limit of zero returns before anything is looked at.
inspect_keys(e0, limit, now) ==
  LET e == retain_unexpired(e0, now)
      sorted == SortedKeys(Present(e))
      rows == [i \in {j \in 1..limit : j <= Cardinality(Present(e))} |->
                 inspection(sorted[i], e[sorted[i]], now)]
  IN  IF limit = 0 THEN Quiet(e0, Array(<<>>))
      ELSE Outcome(e, Array(rows), Cardinality(ExpiredKeys(e0, now)), 0, 0)

----------------------------------------------------------------------------
\* PushSide and PopSide.
Sides == {"left", "right"}

SideOf(c) == IF c.op \in {"LPUSH", "LPOP"} THEN "left" ELSE "right"

\* What a command called at `now` may do to the key space `e`.  `deadline` is
\* the instant EXPIRE and EXPIREAT resolved before they took the lock.
Execute(e, c, deadline, now) ==
  CASE c.op = "SET" -> set(e, c.key, c.value, now)
    [] c.op = "GET" -> {get(e, c.key, now)}
    [] c.op = "DEL" -> {del(e, c.keys, now)}
    [] c.op = "EXISTS" -> {exists(e, c.keys, now)}
    [] c.op \in {"EXPIRE", "EXPIREAT"} -> {expire_at(e, c.key, deadline, now)}
    [] c.op = "TTL" -> {ttl(e, c.key, now)}
    [] c.op = "PERSIST" -> {persist(e, c.key, now)}
    [] c.op \in {"LPUSH", "RPUSH"} -> push(e, c.key, c.values, SideOf(c), now)
    [] c.op \in {"LPOP", "RPOP"} -> {pop(e, c.key, SideOf(c), now)}
    [] c.op = "LRANGE" -> {lrange(e, c.key, c.start, c.stop, now)}
    [] c.op = "STATS" -> {stats(e, now)}
    [] c.op = "INSPECT" -> {inspect_keys(e, c.limit, now)}
    [] c.op = "CLEANUP" -> {cleanup_expired(e, now)}

\* The keys a command names, and the commands that add and take away.
NamedKeys(c) ==
  IF c.op \in {"DEL", "EXISTS"} THEN ToSet(c.keys)
  ELSE IF c.op \in {"STATS", "INSPECT", "CLEANUP"} THEN {}
  ELSE {c.key}

Writes == {"SET", "LPUSH", "RPUSH"}

Removers == {"DEL", "LPOP", "RPOP", "EXPIRE", "EXPIREAT"}

=============================================================================
