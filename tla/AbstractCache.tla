----------------------------- MODULE AbstractCache -----------------------------
(***************************************************************************)
(* What the storage engine promises its callers: a cache in which every    *)
(* call takes effect at one instant between the call and its return, and   *)
(* judges expiration by one instant in that span as well.                  *)
(*                                                                         *)
(* There are no locks here, no counters, no bytes, no rollback, no loop    *)
(* that evicts and no sweep.  What is left of them: a write may be         *)
(* refused and then changes nothing, an accepted write may cost other      *)
(* keys (Evicting), and an expired key may vanish at any moment.           *)
(* MemoryStore.tla is shown to implement this module (StoreRefinement.tla).*)
(***************************************************************************)
EXTENDS Integers, Sequences, FiniteSets, SequencesExt

CONSTANTS
  Clients,         \* the callers
  Commands,        \* what they call
  Keys, Values, KeyOrder, TicksPerSecond, MaxInstant, None,
  Limited,         \* whether a write may be refused
  Evicting         \* whether an accepted write may cost other keys

VARIABLES
  cache,   \* cache[k]: the entry under key k, None where there is none
  clock,   \* the time
  stage,   \* stage[t]: "idle", "called" or "answered"
  call,    \* call[t]: the command
  since,   \* since[t]: the instant by which t judges expiration
  due,     \* due[t]: the deadline EXPIRE and EXPIREAT ask for
  answer   \* answer[t]

vars == <<cache, clock, stage, call, since, due, answer>>

Init ==
  /\ cache = [k \in Keys |-> None]
  /\ clock = 0
  /\ stage = [t \in Clients |-> "idle"]
  /\ call = [t \in Clients |-> None]
  /\ since = [t \in Clients |-> 0]
  /\ due = [t \in Clients |-> 0]
  /\ answer = [t \in Clients |-> None]

----------------------------------------------------------------------------
(* The effect of a command on a cache in which every key it looks at is    *)
(* alive or missing: the possible pairs of a cache and an answer.          *)

Held(e) == {k \in Keys : e[k] # None}

Dead(e, at) == {k \in Held(e) : e[k].expires_at # None /\ e[k].expires_at <= at}

Drop(e, S) == [k \in Keys |-> IF k \in S THEN None ELSE e[k]]

Int_(n) == <<"int", n>>
Null_ == <<"null">>
Refused == <<"error", "OutOfMemory">>
Mistyped == <<"error", "WrongType">>

Gives(e, reply) == {<<e, reply>>}

\* `entry` is accepted under `key`, at the cost of other keys where the cache
\* evicts, or refused without a trace.
Store(e, key, entry, reply) ==
  {<<[Drop(e, lost) EXCEPT ![key] = entry], reply>> :
     lost \in IF Evicting THEN SUBSET (Held(e) \ {key}) ELSE {{}}}
    \cup IF Limited THEN Gives(e, Refused) ELSE {}

\* The items once `values` are pushed, where each one ends up: the last value
\* pushed to the left comes first, the last one pushed to the right last.
Pushed(op, items, values) ==
  LET held == Len(items)
      new == Len(values)
  IN  [i \in 1..(held + new) |->
         IF op = "LPUSH"
         THEN IF i <= new THEN values[new + 1 - i] ELSE items[i - new]
         ELSE IF i <= held THEN items[i] ELSE values[i - held]]

Push(e, c) ==
  LET list == IF e[c.key] = None
              THEN [type |-> "list", items |-> <<>>, expires_at |-> None] ELSE e[c.key]
      items == Pushed(c.op, list.items, c.values)
  IN  IF list.type # "list" THEN Gives(e, Mistyped)
      ELSE Store(e, c.key, [list EXCEPT !.items = items],
                 Int_(Len(list.items) + Len(c.values)))

Pop(e, c) ==
  LET items == e[c.key].items
      end == IF c.op = "LPOP" THEN 1 ELSE Len(items)
      rest == [i \in 1..(Len(items) - 1) |-> IF i < end THEN items[i] ELSE items[i + 1]]
  IN  IF e[c.key] = None THEN Gives(e, Null_)
      ELSE IF e[c.key].type # "list" THEN Gives(e, Mistyped)
      ELSE Gives(IF rest = <<>> THEN Drop(e, {c.key}) ELSE [e EXCEPT ![c.key].items = rest],
                 <<"bulk", items[end]>>)

\* The items at the zero-based positions from start to stop; a negative
\* position counts from the end.
Slice(items, start, stop) ==
  LET At(i) == IF i < 0 THEN Len(items) + i ELSE i
      picked == {i \in DOMAIN items : At(start) <= i - 1 /\ i - 1 <= At(stop)}
      before == Cardinality({i \in DOMAIN items : i - 1 < At(start)})
  IN  [i \in 1..Cardinality(picked) |-> items[before + i]]

\* Whole seconds left, -1 without a deadline.
Left(entry, at) ==
  IF entry.expires_at = None THEN -1
  ELSE IF entry.expires_at <= at THEN 0
  ELSE (entry.expires_at - at) \div TicksPerSecond

Summary(e) ==
  LET Lists == {k \in Held(e) : e[k].type = "list"}
  IN  <<"stats", Cardinality(Held(e)), Cardinality(Held(e) \ Lists), Cardinality(Lists),
        Cardinality({k \in Held(e) : e[k].expires_at # None}),
        Cardinality(UNION {{k} \X DOMAIN e[k].items : k \in Lists})>>

KeysInOrder(S) == SelectSeq(KeyOrder, LAMBDA k : k \in S)

Rows(e, limit, at) ==
  LET listed == KeysInOrder(Held(e))
      Row(k) == [key |-> k, value_type |-> e[k].type, ttl_seconds |-> Left(e[k], at)]
  IN  [i \in {j \in 1..limit : j <= Cardinality(Held(e))} |-> Row(listed[i])]

Effect(e, c, deadline, at) ==
  CASE c.op = "SET" ->
         Store(e, c.key, [type |-> "string", items |-> <<c.value>>, expires_at |-> None], <<"ok">>)
    [] c.op = "GET" ->
         Gives(e, IF e[c.key] = None THEN Null_
                  ELSE IF e[c.key].type = "list" THEN Mistyped ELSE <<"bulk", e[c.key].items[1]>>)
    [] c.op = "DEL" ->
         Gives(Drop(e, ToSet(c.keys)), Int_(Cardinality(ToSet(c.keys) \cap Held(e))))
    [] c.op = "EXISTS" -> Gives(e, Int_(Cardinality({i \in DOMAIN c.keys : c.keys[i] \in Held(e)})))
    [] c.op \in {"EXPIRE", "EXPIREAT"} ->
         IF e[c.key] = None THEN Gives(e, Int_(0))
         ELSE Gives(IF deadline > at THEN [e EXCEPT ![c.key].expires_at = deadline]
                    ELSE Drop(e, {c.key}), Int_(1))
    [] c.op = "TTL" -> Gives(e, Int_(IF e[c.key] = None THEN -2 ELSE Left(e[c.key], at)))
    [] c.op = "PERSIST" ->
         IF c.key \in Held(e) /\ e[c.key].expires_at # None
         THEN Gives([e EXCEPT ![c.key].expires_at = None], Int_(1)) ELSE Gives(e, Int_(0))
    [] c.op \in {"LPUSH", "RPUSH"} -> Push(e, c)
    [] c.op \in {"LPOP", "RPOP"} -> Pop(e, c)
    [] c.op = "LRANGE" ->
         Gives(e, IF e[c.key] = None THEN <<"array", <<>>>>
                  ELSE IF e[c.key].type # "list" THEN Mistyped
                  ELSE <<"array", Slice(e[c.key].items, c.start, c.stop)>>)
    [] c.op = "STATS" -> Gives(e, Summary(e))
    [] c.op = "INSPECT" -> Gives(e, <<"array", Rows(e, c.limit, at)>>)

\* The keys a command looks at.
LookedAt(c) ==
  CASE c.op \in {"DEL", "EXISTS"} -> ToSet(c.keys)
    [] c.op = "STATS" -> Keys
    [] c.op = "INSPECT" -> IF c.limit = 0 THEN {} ELSE Keys
    [] OTHER -> {c.key}

\* A deadline time itself cannot reach counts as now.
Due(c, at) ==
  LET asked == IF c.op = "EXPIRE" THEN at + c.seconds * TicksPerSecond
               ELSE c.seconds * TicksPerSecond
  IN  IF c.op \notin {"EXPIRE", "EXPIREAT"} THEN 0
      ELSE IF asked <= MaxInstant THEN asked ELSE at

----------------------------------------------------------------------------
(* A call, its effect and its return.                                      *)

Call(t, c) ==
  /\ stage[t] = "idle"
  /\ stage' = [stage EXCEPT ![t] = "called"]
  /\ call' = [call EXCEPT ![t] = c]
  /\ since' = [since EXCEPT ![t] = clock]
  /\ due' = [due EXCEPT ![t] = Due(c, clock)]
  /\ UNCHANGED <<cache, clock, answer>>

\* The call may still read the clock again.
Look(t) ==
  /\ stage[t] = "called"
  /\ since' = [since EXCEPT ![t] = clock]
  /\ UNCHANGED <<cache, clock, stage, call, due, answer>>

Perform(t) ==
  /\ stage[t] = "called"
  /\ LET seen == Drop(cache, LookedAt(call[t]) \cap Dead(cache, since[t]))
     IN  \E r \in Effect(seen, call[t], due[t], since[t]) :
           /\ cache' = r[1]
           /\ answer' = [answer EXCEPT ![t] = r[2]]
  /\ stage' = [stage EXCEPT ![t] = "answered"]
  /\ UNCHANGED <<clock, call, since, due>>

Return(t) ==
  /\ stage[t] = "answered"
  /\ stage' = [stage EXCEPT ![t] = "idle"]
  /\ call' = [call EXCEPT ![t] = None]
  /\ since' = [since EXCEPT ![t] = 0]
  /\ due' = [due EXCEPT ![t] = 0]
  /\ answer' = [answer EXCEPT ![t] = None]
  /\ UNCHANGED <<cache, clock>>

Forget ==
  /\ \E gone \in SUBSET Dead(cache, clock) : cache' = Drop(cache, gone)
  /\ UNCHANGED <<clock, stage, call, since, due, answer>>

Tick ==
  /\ clock' = clock + 1
  /\ UNCHANGED <<cache, stage, call, since, due, answer>>

Next ==
  \/ \E t \in Clients : \E c \in Commands : Call(t, c)
  \/ \E t \in Clients : Look(t) \/ Perform(t) \/ Return(t)
  \/ Forget \/ Tick

Spec == Init /\ [][Next]_vars

=============================================================================
