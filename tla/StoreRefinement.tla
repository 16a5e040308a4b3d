---------------------------- MODULE StoreRefinement ----------------------------
(***************************************************************************)
(* MemoryStore.tla implements AbstractCache.tla.  The critical section is  *)
(* where a call takes effect; the sweep is the cache forgetting what has   *)
(* expired; waiting for a lock and updating the counters are not seen.     *)
(***************************************************************************)
EXTENDS MemoryStore

Stage(t) ==
  IF phase[t] = "idle" THEN "idle"
  ELSE IF phase[t] \in {"resolving", "waiting"} THEN "called"
  ELSE "answered"

\* Of a STATS or INSPECT reply the cache promises the numbers about the key space;
\* bytes and counters are MemoryStore's own.
Answered(c, r) ==
  IF c.op = "STATS"
  THEN LET s == r[2]
       IN  <<"stats", s.total_keys, s.string_keys, s.list_keys, s.expiring_keys, s.list_items>>
  ELSE IF c.op = "INSPECT"
  THEN LET Row(row) == [key |-> row.key, value_type |-> row.value_type,
                        ttl_seconds |-> row.ttl_seconds]
       IN  <<"array", [i \in DOMAIN r[2] |-> Row(r[2][i])]>>
  ELSE r

Answer(t) == IF Stage(t) = "answered" THEN Answered(cmd[t], reply[t]) ELSE None

Cache == INSTANCE AbstractCache WITH
  cache <- entries,
  clock <- clock,
  stage <- [t \in Clients |-> Stage(t)],
  call <- [t \in Clients |-> cmd[t]],
  since <- [t \in Clients |-> now[t]],
  due <- [t \in Clients |-> deadline[t]],
  answer <- [t \in Clients |-> Answer(t)],
  Limited <- MaxMemory # None,
  Evicting <- MaxMemory # None /\ Policy = "allkeys-random"

\* Whatever calls overlap, each is answered as if it had run alone at one
\* instant between its call and its return, on the live keys of that instant:
\* stale clock readings, lazy expiration, rollbacks and evictions show only as
\* refusals, as keys lost to a write, and as expired keys that are gone.
ImplementsCache == Cache!Spec

=============================================================================
