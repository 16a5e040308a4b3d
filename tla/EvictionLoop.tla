---------------------------- MODULE EvictionLoop ----------------------------
(***************************************************************************)
(* enforce_memory_limit (src/src/storage.rs), step by step.                *)
(*                                                                         *)
(* set and push call it under the entries lock with the key they have just *)
(* written.  StoreOps.tla describes its result in one expression, the sets *)
(* of keys it may have evicted; this module runs the loop itself, which    *)
(* picks a victim by the clock and the HashMap's iteration order, measures *)
(* again, and puts everything back when no candidate is left.              *)
(***************************************************************************)
EXTENDS StoreOps

CONSTANT Shapes   \* the entries a key may hold when the loop starts

ASSUME ShapesAssumption == Shapes \subseteq Entry

VARIABLES
  entries,        \* the HashMap
  evicted,        \* the Vec of evicted pairs, in order
  protected_key,  \* the key just written
  pc,             \* "enter", "loop", "restore", "ok" or "oom"
  start           \* history: the key space enforce_memory_limit was given

vars == <<entries, evicted, protected_key, pc, start>>

Init ==
  /\ protected_key \in Keys
  /\ entries \in {e \in [Keys -> Shapes \cup {None}] : e[protected_key] # None}
  /\ evicted = <<>>
  /\ pc = "enter"
  /\ start = entries

Enter ==
  /\ pc = "enter"
  /\ pc' = IF WithinLimit(entries) THEN "ok"
           ELSE IF Policy = "noeviction" THEN "oom"
           ELSE "loop"
  /\ UNCHANGED <<entries, evicted, protected_key, start>>

Candidates == Present(entries) \ {protected_key}

\* Mutant: any key will do.
EvictOne_unprotected ==
  /\ pc = "loop"
  /\ ~WithinLimit(entries)
  /\ \E k \in Present(entries) :
       /\ entries' = Without(entries, {k})
       /\ evicted' = Append(evicted, <<k, entries[k]>>)
  /\ UNCHANGED <<protected_key, pc, start>>

\* Mutant: the pair of the removed key is not kept.
EvictOne_forgets ==
  /\ pc = "loop"
  /\ ~WithinLimit(entries)
  /\ \E k \in Candidates : entries' = Without(entries, {k})
  /\ UNCHANGED <<evicted, protected_key, pc, start>>

\* pick_eviction_key takes candidate number seed % candidates, where the seed
\* is the sub-second part of the clock: any candidate.
EvictOne ==
  /\ pc = "loop"
  /\ ~WithinLimit(entries)
  /\ \E k \in Candidates :
       /\ entries' = Without(entries, {k})
       /\ evicted' = Append(evicted, <<k, entries[k]>>)
  /\ UNCHANGED <<protected_key, pc, start>>

\* Mutant: the loop goes round again although there is nothing to pick.
NoCandidate_spins ==
  /\ pc = "loop"
  /\ ~WithinLimit(entries)
  /\ Candidates = {}
  /\ UNCHANGED vars

NoCandidate ==
  /\ pc = "loop"
  /\ ~WithinLimit(entries)
  /\ Candidates = {}
  /\ pc' = "restore"
  /\ UNCHANGED <<entries, evicted, protected_key, start>>

LeaveLoop ==
  /\ pc = "loop"
  /\ WithinLimit(entries)
  /\ pc' = "ok"
  /\ UNCHANGED <<entries, evicted, protected_key, start>>

\* One iteration of restore_evicted.
RestoreOne ==
  /\ pc = "restore"
  /\ evicted # <<>>
  /\ entries' = [entries EXCEPT ![Head(evicted)[1]] = Head(evicted)[2]]
  /\ evicted' = Tail(evicted)
  /\ UNCHANGED <<protected_key, pc, start>>

RestoreDone ==
  /\ pc = "restore"
  /\ evicted = <<>>
  /\ pc' = "oom"
  /\ UNCHANGED <<entries, evicted, protected_key, start>>

Next == Enter \/ EvictOne \/ NoCandidate \/ LeaveLoop \/ RestoreOne \/ RestoreDone

\* The loop runs under the lock without awaiting: it only stops by returning.
Spec == Init /\ [][Next]_vars /\ WF_vars(Next)

----------------------------------------------------------------------------
(* What the callers rely on.                                               *)

Victims == {evicted[i][1] : i \in DOMAIN evicted}

\* Success means that exactly the reported victims are gone, each reported
\* once (the caller adds their number to evicted_keys), and that they are one
\* of the sets StoreOps!enforce_memory_limit allows.
SuccessAsSpecified ==
  pc = "ok" =>
    /\ entries = Without(start, Victims)
    /\ Victims \in enforce_memory_limit(start, protected_key)
    /\ Len(evicted) = Cardinality(Victims)

\* Failure means that every evicted key is back with its old entry, so that
\* restore_entry in the caller completes the rollback, and that no choice of
\* victims could have helped.
FailureRestoresEverything ==
  pc = "oom" => entries = start /\ enforce_memory_limit(start, protected_key) = {}

\* The victim sets the loop can end with, from the key space where `gone` has
\* been evicted already.
Endings(e, key) ==
  LET candidates == Present(e) \ {key}
      from[gone \in SUBSET candidates] ==
        IF WithinLimit(Without(e, gone)) THEN {gone}
        ELSE UNION {from[gone \cup {k}] : k \in candidates \ gone}
  IN  from[{}]

\* And StoreOps!enforce_memory_limit allows no set the loop cannot end with.
EveryVictimSetIsPossible ==
  pc = "loop" /\ evicted = <<>> =>
    enforce_memory_limit(start, protected_key) = Endings(start, protected_key)

\* The loop ends: each round takes one candidate out, and running out of
\* candidates leaves it.
LoopTerminates == <>(pc \in {"ok", "oom"})

=============================================================================
