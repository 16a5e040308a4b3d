------------------------- MODULE EvictionLoop_proofs ------------------------
(***************************************************************************)
(* The loop of EvictionLoop.tla returns what StoreOps.tla says it does,    *)
(* for any keys, entries, memory limit and either policy.                  *)
(*                                                                         *)
(* LoopInv says that the Vec of evicted pairs always describes the         *)
(* difference between the key space the loop was given and the one it has  *)
(* made of it, in the rollback as in the loop, and what is known of the    *)
(* limit at each point of the code.                                        *)
(***************************************************************************)
EXTENDS EvictionLoop, StoreOps_proofs

Others == Present(start) \ {protected_key}

LoopType ==
  /\ protected_key \in Keys
  /\ start \in EntriesType
  /\ evicted \in Seq(Keys \X Entry)
  /\ pc \in {"enter", "loop", "restore", "ok", "oom"}

\* Every pair is a key that was there, with its entry; no key is there twice.
EvictedAreRemembered ==
  /\ \A i \in DOMAIN evicted : evicted[i][1] \in Others /\ evicted[i][2] = start[evicted[i][1]]
  /\ \A i, j \in DOMAIN evicted : evicted[i][1] = evicted[j][1] => i = j

OnlyEvictedAreGone == entries = Without(start, Victims)

\* The victims so far were needed: without the last one the rest did not fit.
LastWasNeeded ==
  evicted # <<>> => \E last \in Victims : ~WithinLimit(Without(start, Victims \ {last}))

Hopeless == \A victims \in SUBSET Others : ~WithinLimit(Without(start, victims))

LimitKnown ==
  /\ pc = "enter" => evicted = <<>>
  /\ pc \in {"loop", "restore"} => ~WithinLimit(start) /\ Policy = "allkeys-random"
  /\ pc = "loop" => LastWasNeeded
  /\ pc = "restore" => Hopeless
  /\ pc = "ok" => Victims \in enforce_memory_limit(start, protected_key)
  /\ pc = "oom" => evicted = <<>> /\ enforce_memory_limit(start, protected_key) = {}

LoopInv == LoopType /\ EvictedAreRemembered /\ OnlyEvictedAreGone /\ LimitKnown

----------------------------------------------------------------------------
(* Key spaces without some keys.                                           *)

LEMMA WithoutTwice ==
  ASSUME NEW e, NEW S, NEW T
  PROVE  Without(Without(e, S), T) = Without(e, S \cup T)
BY DEF Without

LEMMA FewerFit ==
  ASSUME NEW e \in EntriesType, NEW S, NEW T, S \subseteq T, WithinLimit(Without(e, S))
  PROVE  WithinLimit(Without(e, T))
<1>1. Without(Without(e, S), T) = Without(e, T)
  BY WithoutTwice
<1>2. Without(e, S) \in EntriesType
  BY WithoutType
<1> QED BY <1>1, <1>2, WithoutFits

\* A key space past the limit is past it however few keys were taken out.
LEMMA NothingHelps ==
  ASSUME NEW e \in EntriesType, NEW key, NEW S,
         \A victims \in SUBSET (Present(e) \ {key}) : ~WithinLimit(Without(e, victims))
  PROVE  ~WithinLimit(e) /\ evict_until_within_limit(e, key) = {}
<1>1. ~WithinLimit(Without(e, {}))
  OBVIOUS
<1> QED BY <1>1, WithoutNone DEF evict_until_within_limit

\* As many pairs as victims.
LEMMA VictimsCounted ==
  ASSUME LoopType, EvictedAreRemembered
  PROVE  Len(evicted) = Cardinality(Victims)
<1> DEFINE n == Len(evicted)
           f == [i \in 1..n |-> evicted[i][1]]
<1>1. n \in Nat /\ DOMAIN evicted = 1..n
  BY DEF LoopType
<1>2. f \in [1..n -> Victims]
  BY <1>1 DEF Victims
<1>3. \A i, j \in 1..n : f[i] = f[j] => i = j
  BY <1>1 DEF EvictedAreRemembered
<1>4. \A v \in Victims : \E i \in 1..n : f[i] = v
  BY <1>1 DEF Victims
<1> HIDE DEF f
<1>5. f \in Bijection(1..n, Victims)
  BY <1>2, <1>3, <1>4 DEF Bijection, Injection, Surjection, IsInjective
<1>6. ExistsBijection(1..n, Victims)
  BY <1>5 DEF ExistsBijection
<1> HIDE DEF n
<1>7. IsFiniteSet(1..n) /\ Cardinality(1..n) = n
  BY <1>1, FS_Interval
<1>8. Cardinality(Victims) = n
  BY <1>6, <1>7, FS_Bijection
<1> QED BY <1>8 DEF n

----------------------------------------------------------------------------
(* LoopInv is an invariant.                                                *)

LEMMA InitLoop == Init => LoopInv
<1> SUFFICES ASSUME Init PROVE LoopInv
  OBVIOUS
<1>1. LoopType
  BY ShapesAssumption, EmptySeq DEF Init, LoopType, EntriesType
<1>2. EvictedAreRemembered /\ LimitKnown
  BY DEF Init, EvictedAreRemembered, LimitKnown
<1>3. Victims = {}
  BY DEF Init, Victims
<1>4. OnlyEvictedAreGone
  BY <1>1, <1>3, WithoutNone DEF Init, OnlyEvictedAreGone, LoopType
<1> QED BY <1>1, <1>2, <1>4 DEF LoopInv

LEMMA EnterLoop ==
  ASSUME LoopInv, Enter
  PROVE  LoopInv'
<1>1. evicted = <<>> /\ Victims = {}
  BY DEF LoopInv, LimitKnown, Enter, Victims
<1>2. entries = start
  BY <1>1, WithoutNone DEF LoopInv, OnlyEvictedAreGone, LoopType
<1>3. LoopType' /\ EvictedAreRemembered' /\ OnlyEvictedAreGone'
  BY DEF LoopInv, Enter, LoopType, EvictedAreRemembered, Others, OnlyEvictedAreGone, Victims
<1>4. LimitKnown'
  BY <1>1, <1>2, StoreAssumption
     DEF Enter, LimitKnown, LastWasNeeded, Hopeless, Victims, enforce_memory_limit
<1> QED BY <1>3, <1>4 DEF LoopInv

LEMMA AppendedPair ==
  ASSUME LoopType, NEW p \in Keys \X Entry
  PROVE  /\ Append(evicted, p) \in Seq(Keys \X Entry)
         /\ DOMAIN Append(evicted, p) = (DOMAIN evicted) \cup {Len(evicted) + 1}
         /\ Len(evicted) + 1 \notin DOMAIN evicted
         /\ \A i \in DOMAIN evicted : Append(evicted, p)[i] = evicted[i]
         /\ Append(evicted, p)[Len(evicted) + 1] = p
BY DEF LoopType

LEMMA EvictOneLoop ==
  ASSUME LoopInv, EvictOne
  PROVE  LoopInv'
<1>1. PICK k \in Candidates :
        /\ entries' = Without(entries, {k})
        /\ evicted' = Append(evicted, <<k, entries[k]>>)
  BY DEF EvictOne
<1>2. /\ k \in Others /\ k \notin Victims /\ k \in Keys
      /\ entries[k] = start[k] /\ start[k] \in Entry
  BY <1>1 DEF LoopInv, LoopType, OnlyEvictedAreGone, Candidates, Present, Without, Others,
     EntriesType
<1> DEFINE p == <<k, entries[k]>>
<1>3. p \in Keys \X Entry /\ p[1] = k /\ p[2] = start[k]
  BY <1>2
<1>4. evicted' = Append(evicted, p) /\ LoopType
  BY <1>1 DEF LoopInv
<1> HIDE DEF p
<1>5. /\ evicted' \in Seq(Keys \X Entry)
      /\ DOMAIN evicted' = (DOMAIN evicted) \cup {Len(evicted) + 1}
      /\ Len(evicted) + 1 \notin DOMAIN evicted
      /\ \A i \in DOMAIN evicted : evicted'[i] = evicted[i]
      /\ evicted'[Len(evicted) + 1] = p
  BY <1>3, <1>4, AppendedPair
<1>6. Victims' = Victims \cup {k}
  BY <1>3, <1>5 DEF Victims
<1>7. LoopType'
  BY <1>4, <1>5 DEF LoopType, EvictOne
<1>8. EvictedAreRemembered'
  <2>1. \A i \in DOMAIN evicted : evicted[i][1] # k
    BY <1>2 DEF Victims
  <2> QED BY <1>2, <1>3, <1>5, <2>1 DEF LoopInv, EvictedAreRemembered, EvictOne, Others
<1>9. OnlyEvictedAreGone'
  BY <1>1, <1>6, WithoutTwice DEF LoopInv, OnlyEvictedAreGone, EvictOne
<1>10. LastWasNeeded'
  <2>1. Victims' \ {k} = Victims
    BY <1>2, <1>6
  <2>2. ~WithinLimit(Without(start, Victims' \ {k}))
    BY <2>1 DEF EvictOne, LoopInv, OnlyEvictedAreGone
  <2> QED BY <1>6, <2>2 DEF LastWasNeeded, EvictOne
<1>11. LimitKnown'
  BY <1>10 DEF LoopInv, LimitKnown, EvictOne
<1> QED BY <1>7, <1>8, <1>9, <1>11 DEF LoopInv

\* When no candidate is left, every candidate has been evicted in vain.
LEMMA NoCandidateLoop ==
  ASSUME LoopInv, NoCandidate
  PROVE  LoopInv'
<1>1. LoopType' /\ EvictedAreRemembered' /\ OnlyEvictedAreGone'
  BY DEF LoopInv, NoCandidate, LoopType, EvictedAreRemembered, Others, OnlyEvictedAreGone, Victims
<1>2. Others \subseteq Victims
  BY DEF LoopInv, OnlyEvictedAreGone, NoCandidate, Candidates, Present, Without, Others
<1>3. Hopeless
  <2>1. ASSUME NEW victims \in SUBSET Others, WithinLimit(Without(start, victims)) PROVE FALSE
    <3>1. WithinLimit(Without(start, Victims))
      BY <1>2, <2>1, FewerFit DEF LoopInv, LoopType
    <3> QED BY <3>1 DEF LoopInv, OnlyEvictedAreGone, NoCandidate
  <2> QED BY <2>1 DEF Hopeless
<1>4. LimitKnown'
  BY <1>3 DEF LoopInv, LimitKnown, NoCandidate, Hopeless, Others
<1> QED BY <1>1, <1>4 DEF LoopInv

LEMMA LeaveLoopLoop ==
  ASSUME LoopInv, LeaveLoop
  PROVE  LoopInv'
<1>1. LoopType' /\ EvictedAreRemembered' /\ OnlyEvictedAreGone'
  BY DEF LoopInv, LeaveLoop, LoopType, EvictedAreRemembered, Others, OnlyEvictedAreGone, Victims
<1>2. Victims \in SUBSET Others
  BY DEF LoopInv, EvictedAreRemembered, Victims
<1>3. evicted # <<>>
  <2>1. evicted = <<>> => Victims = {}
    BY DEF Victims
  <2>2. Victims = {} => entries = start
    BY WithoutNone DEF LoopInv, OnlyEvictedAreGone, LoopType
  <2> QED BY <2>1, <2>2 DEF LoopInv, LimitKnown, LeaveLoop
<1>4. Victims \in enforce_memory_limit(start, protected_key)
  BY <1>2, <1>3 DEF LoopInv, LimitKnown, LastWasNeeded, OnlyEvictedAreGone, LeaveLoop, Others,
     enforce_memory_limit, evict_until_within_limit
<1>5. LimitKnown'
  BY <1>4 DEF LimitKnown, LeaveLoop, Victims
<1> QED BY <1>1, <1>5 DEF LoopInv

LEMMA HeadAndTail ==
  ASSUME LoopType, evicted # <<>>
  PROVE  /\ Head(evicted) = evicted[1] /\ 1 \in DOMAIN evicted
         /\ Tail(evicted) \in Seq(Keys \X Entry)
         /\ \A i \in DOMAIN Tail(evicted) : i + 1 \in DOMAIN evicted /\ Tail(evicted)[i] = evicted[i + 1]
         /\ \A i \in DOMAIN evicted : i = 1 \/ i - 1 \in DOMAIN Tail(evicted)
         /\ DOMAIN evicted \subseteq Int /\ DOMAIN Tail(evicted) \subseteq Nat \ {0}
BY DEF LoopType

LEMMA RestoreOneLoop ==
  ASSUME LoopInv, RestoreOne
  PROVE  LoopInv'
<1> DEFINE k == Head(evicted)[1]
           x == Head(evicted)[2]
           tail == Tail(evicted)
<1>1. /\ LoopType /\ evicted # <<>> /\ evicted' = tail
      /\ entries' = [entries EXCEPT ![k] = x]
      /\ UNCHANGED <<protected_key, pc, start>>
  BY DEF LoopInv, RestoreOne
<1>2. /\ k = evicted[1][1] /\ x = evicted[1][2] /\ 1 \in DOMAIN evicted
      /\ tail \in Seq(Keys \X Entry)
      /\ \A i \in DOMAIN tail : i + 1 \in DOMAIN evicted /\ tail[i] = evicted[i + 1]
      /\ \A i \in DOMAIN evicted : i = 1 \/ i - 1 \in DOMAIN tail
      /\ DOMAIN evicted \subseteq Int /\ DOMAIN tail \subseteq Nat \ {0}
  BY <1>1, HeadAndTail
<1> HIDE DEF k, x, tail
<1>3. k \in Others /\ x = start[k] /\ k \in Keys /\ k \in Victims
  BY <1>2 DEF LoopInv, EvictedAreRemembered, Others, Present, Victims
<1>4. LoopType'
  BY <1>1, <1>2 DEF LoopType
<1>5. EvictedAreRemembered'
  <2>1. \A i \in DOMAIN tail : tail[i][1] \in Others /\ tail[i][2] = start[tail[i][1]]
    BY <1>2 DEF LoopInv, EvictedAreRemembered
  <2>2. ASSUME NEW i \in DOMAIN tail, NEW j \in DOMAIN tail, tail[i][1] = tail[j][1] PROVE i = j
    <3>1. i + 1 \in DOMAIN evicted /\ j + 1 \in DOMAIN evicted
          /\ evicted[i + 1][1] = evicted[j + 1][1]
      BY <1>2, <2>2
    <3>2. i + 1 = j + 1
      BY <3>1 DEF LoopInv, EvictedAreRemembered
    <3>3. i \in Int /\ j \in Int
      BY <1>2
    <3> QED BY <3>2, <3>3
  <2> QED BY <1>1, <2>1, <2>2 DEF EvictedAreRemembered, Others
<1>6. Victims' = Victims \ {k}
  <2>1. \A i \in DOMAIN tail : tail[i][1] \in Victims
    BY <1>2 DEF Victims
  <2>2. ASSUME NEW i \in DOMAIN tail PROVE tail[i][1] # k
    <3>1. i + 1 # 1 /\ i + 1 \in DOMAIN evicted
      BY <1>2
    <3> QED BY <1>2, <3>1 DEF LoopInv, EvictedAreRemembered
  <2>3. ASSUME NEW v \in Victims, v # k PROVE \E i \in DOMAIN tail : tail[i][1] = v
    <3>1. PICK i \in DOMAIN evicted : evicted[i][1] = v
      BY DEF Victims
    <3>2. i - 1 \in DOMAIN tail
      BY <1>2, <2>3, <3>1
    <3>3. (i - 1) + 1 = i
      BY <1>2, <3>1
    <3>4. tail[i - 1] = evicted[i]
      BY <1>2, <3>2, <3>3
    <3> QED BY <3>1, <3>2, <3>4
  <2> QED BY <1>1, <2>1, <2>2, <2>3 DEF Victims
<1>7. OnlyEvictedAreGone'
  BY <1>1, <1>3, <1>6 DEF LoopInv, OnlyEvictedAreGone, Without, LoopType
<1>8. LimitKnown'
  BY <1>1 DEF LoopInv, LimitKnown, Hopeless, Others, RestoreOne
<1> QED BY <1>4, <1>5, <1>7, <1>8 DEF LoopInv

LEMMA RestoreDoneLoop ==
  ASSUME LoopInv, RestoreDone
  PROVE  LoopInv'
<1>1. LoopType' /\ EvictedAreRemembered' /\ OnlyEvictedAreGone'
  BY DEF LoopInv, RestoreDone, LoopType, EvictedAreRemembered, Others, OnlyEvictedAreGone, Victims
<1>2. enforce_memory_limit(start, protected_key) = {}
  <2>1. \A victims \in SUBSET (Present(start) \ {protected_key}) : ~WithinLimit(Without(start, victims))
    BY DEF LoopInv, LimitKnown, RestoreDone, Hopeless, Others
  <2>2. evict_until_within_limit(start, protected_key) = {} /\ ~WithinLimit(start)
    BY <2>1, NothingHelps DEF LoopInv, LoopType
  <2> QED BY <2>2 DEF enforce_memory_limit
<1>3. LimitKnown'
  BY <1>2 DEF LimitKnown, RestoreDone
<1> QED BY <1>1, <1>3 DEF LoopInv

LEMMA NextLoop ==
  ASSUME LoopInv, [Next]_vars
  PROVE  LoopInv'
<1>1. CASE UNCHANGED vars
  <2>1. LoopType' /\ EvictedAreRemembered' /\ OnlyEvictedAreGone'
    BY <1>1 DEF vars, LoopInv, LoopType, EvictedAreRemembered, Others, OnlyEvictedAreGone, Victims
  <2>2. (LastWasNeeded <=> LastWasNeeded') /\ (Hopeless <=> Hopeless') /\ Victims' = Victims
    BY <1>1 DEF vars, LastWasNeeded, Hopeless, Others, Victims
  <2>3. LimitKnown'
    BY <1>1, <2>2 DEF vars, LoopInv, LimitKnown
  <2> QED BY <2>1, <2>3 DEF LoopInv
<1> QED BY <1>1, EnterLoop, EvictOneLoop, NoCandidateLoop, LeaveLoopLoop, RestoreOneLoop,
           RestoreDoneLoop DEF Next

LEMMA LoopInvariant == Spec => []LoopInv
<1>1. LoopInv /\ [Next]_vars => LoopInv'
  BY NextLoop
<1> QED BY InitLoop, <1>1, PTL DEF Spec

----------------------------------------------------------------------------
(* The loop from the middle of it.                                         *)

\* The victim sets that begin with `gone`, without the recursion.
EndingsFrom(e, candidates, gone) ==
  IF WithinLimit(Without(e, gone)) THEN {gone}
  ELSE {victims \in SUBSET candidates :
          /\ gone \subseteq victims
          /\ WithinLimit(Without(e, victims))
          /\ \E last \in victims \ gone : ~WithinLimit(Without(e, victims \ {last}))}

\* They are what the loop can still do after one victim more.  A set that has a
\* last victim is reached by taking that one last, whatever comes first: as long
\* as it is there, the others are not enough.
LEMMA OneVictimMore ==
  ASSUME NEW e \in EntriesType, NEW candidates, NEW gone \in SUBSET candidates,
         ~WithinLimit(Without(e, gone))
  PROVE  EndingsFrom(e, candidates, gone)
           = UNION {EndingsFrom(e, candidates, gone \cup {k}) : k \in candidates \ gone}
<1>1. ASSUME NEW victims \in EndingsFrom(e, candidates, gone)
      PROVE  \E k \in candidates \ gone : victims \in EndingsFrom(e, candidates, gone \cup {k})
  <2>1. PICK last \in victims \ gone : ~WithinLimit(Without(e, victims \ {last}))
    BY <1>1 DEF EndingsFrom
  <2>2. victims \in SUBSET candidates /\ gone \subseteq victims /\ WithinLimit(Without(e, victims))
    BY <1>1 DEF EndingsFrom
  <2>3. CASE victims = gone \cup {last}
    BY <2>1, <2>2, <2>3 DEF EndingsFrom
  <2>4. ASSUME NEW k \in victims \ (gone \cup {last})
        PROVE  \E j \in candidates \ gone : victims \in EndingsFrom(e, candidates, gone \cup {j})
    <3>1. ~WithinLimit(Without(e, gone \cup {k}))
      <4>1. gone \cup {k} \subseteq victims \ {last}
        BY <2>1, <2>2, <2>4
      <4> QED BY <2>1, <4>1, FewerFit
    <3>2. last \in victims \ (gone \cup {k}) /\ gone \cup {k} \subseteq victims
      BY <2>1, <2>2, <2>4
    <3> QED BY <2>1, <2>2, <2>4, <3>1, <3>2 DEF EndingsFrom
  <2> QED BY <2>1, <2>2, <2>3, <2>4
<1>2. ASSUME NEW k \in candidates \ gone, NEW victims \in EndingsFrom(e, candidates, gone \cup {k})
      PROVE  victims \in EndingsFrom(e, candidates, gone)
  <2>1. CASE WithinLimit(Without(e, gone \cup {k}))
    <3>1. victims = gone \cup {k} /\ victims \ {k} = gone
      BY <1>2, <2>1 DEF EndingsFrom
    <3> QED BY <1>2, <2>1, <3>1 DEF EndingsFrom
  <2>2. CASE ~WithinLimit(Without(e, gone \cup {k}))
    BY <1>2, <2>2 DEF EndingsFrom
  <2> QED BY <2>1, <2>2
<1> QED BY <1>1, <1>2

\* So the recursion computes them: a function that satisfies its equation
\* exists, and where one differed there would be a largest `gone` where it does.
LEMMA EndingsAre ==
  ASSUME NEW e \in EntriesType, NEW key
  PROVE  Endings(e, key) = EndingsFrom(e, Present(e) \ {key}, {})
<1> DEFINE candidates == Present(e) \ {key}
           Step(from, gone) == IF WithinLimit(Without(e, gone)) THEN {gone}
                               ELSE UNION {from[gone \cup {k}] : k \in candidates \ gone}
           from == CHOOSE from : from = [gone \in SUBSET candidates |-> Step(from, gone)]
           direct == [gone \in SUBSET candidates |-> EndingsFrom(e, candidates, gone)]
<1>1. IsFiniteSet(candidates)
  BY StoreAssumption, FS_Subset DEF Present
<1> HIDE DEF candidates
<1>2. ASSUME NEW gone \in SUBSET candidates PROVE direct[gone] = Step(direct, gone)
  <2>1. \A k \in candidates \ gone : direct[gone \cup {k}] = EndingsFrom(e, candidates, gone \cup {k})
    OBVIOUS
  <2>2. CASE WithinLimit(Without(e, gone))
    BY <2>2 DEF EndingsFrom
  <2>3. CASE ~WithinLimit(Without(e, gone))
    <3>1. direct[gone] = UNION {EndingsFrom(e, candidates, gone \cup {k}) : k \in candidates \ gone}
      BY <2>3, OneVictimMore
    <3> QED BY <2>1, <2>3, <3>1
  <2> QED BY <2>2, <2>3
<1>3. direct = [gone \in SUBSET candidates |-> Step(direct, gone)]
  BY <1>2
<1>4. from = [gone \in SUBSET candidates |-> Step(from, gone)]
  BY <1>3
<1>5. Endings(e, key) = from[{}]
  BY DEF Endings, candidates
<1> HIDE DEF from
<1>6. ASSUME NEW gone \in SUBSET candidates, from[gone] # direct[gone]
      PROVE  \E k \in candidates \ gone : from[gone \cup {k}] # direct[gone \cup {k}]
  <2>1. from[gone] = Step(from, gone) /\ direct[gone] = Step(direct, gone)
    BY <1>2, <1>4
  <2> HIDE DEF direct
  <2> QED BY <1>6, <2>1
<1> HIDE DEF direct
<1> DEFINE left == {candidates \ gone : gone \in {g \in SUBSET candidates : from[g] # direct[g]}}
<1>7. left = {}
  <2> SUFFICES ASSUME left # {} PROVE FALSE
    OBVIOUS
  <2>1. left \subseteq SUBSET candidates
    OBVIOUS
  <2>2. IsWellFoundedOn(StrictSubsetOrdering(candidates), SUBSET candidates)
    BY <1>1, FS_StrictSubsetOrderingWellFounded, FS_FiniteSubsetsOfFinite
  <2> HIDE DEF left
  <2>3. PICK rest \in left : \A smaller \in left : ~(<<smaller, rest>> \in StrictSubsetOrdering(candidates))
    BY <2>1, <2>2, WFMin
  <2>4. PICK gone \in SUBSET candidates : from[gone] # direct[gone] /\ rest = candidates \ gone
    BY DEF left
  <2>5. PICK k \in candidates \ gone : from[gone \cup {k}] # direct[gone \cup {k}]
    BY <1>6, <2>4
  <2> DEFINE smaller == candidates \ (gone \cup {k})
  <2>6. smaller \in left
    BY <2>5 DEF left
  <2>7. smaller \subseteq rest /\ smaller # rest /\ rest \subseteq candidates
    BY <2>4, <2>5
  <2> QED BY <2>3, <2>6, <2>7 DEF StrictSubsetOrdering
<1>8. from[{}] = direct[{}]
  BY <1>7
<1> QED BY <1>5, <1>8 DEF direct, candidates

----------------------------------------------------------------------------
(* The theorems.                                                           *)

\* Success: the pairs handed back are exactly the keys that went, each once,
\* and they are victims that enforce_memory_limit in StoreOps.tla allows.
THEOREM EvictionSucceedsAsSpecified == Spec => []SuccessAsSpecified
<1>1. LoopInv => SuccessAsSpecified
  BY VictimsCounted DEF LoopInv, SuccessAsSpecified, OnlyEvictedAreGone, LimitKnown
<1> QED BY <1>1, LoopInvariant, PTL

\* Failure: restore_evicted has put back every pair, and no choice of victims
\* would have been enough.
THEOREM EvictionFailureRestores == Spec => []FailureRestoresEverything
<1>1. ASSUME LoopInv PROVE FailureRestoresEverything
  <2>1. pc = "oom" => evicted = <<>> /\ enforce_memory_limit(start, protected_key) = {}
    BY <1>1 DEF LoopInv, LimitKnown
  <2>2. evicted = <<>> => Victims = {}
    BY DEF Victims
  <2>3. Victims = {} => entries = start
    BY <1>1, WithoutNone DEF LoopInv, OnlyEvictedAreGone, LoopType
  <2> QED BY <2>1, <2>2, <2>3 DEF FailureRestoresEverything
<1> QED BY <1>1, LoopInvariant, PTL

\* Conversely, every victim set that StoreOps.tla allows is one the loop can
\* arrive at, in some order of eviction: the one expression stands for all runs.
THEOREM EveryAllowedSetIsReached == Spec => []EveryVictimSetIsPossible
<1>1. ASSUME LoopInv, pc = "loop"
      PROVE  enforce_memory_limit(start, protected_key) = Endings(start, protected_key)
  <2>1. ~WithinLimit(start) /\ Policy = "allkeys-random" /\ start \in EntriesType
    BY <1>1 DEF LoopInv, LimitKnown, LoopType
  <2>2. ~WithinLimit(Without(start, {}))
    BY <2>1, WithoutNone
  <2>3. Endings(start, protected_key) = EndingsFrom(start, Others, {})
    BY <2>1, EndingsAre DEF Others
  <2>4. EndingsFrom(start, Others, {}) = evict_until_within_limit(start, protected_key)
    BY <2>2 DEF EndingsFrom, evict_until_within_limit, Others
  <2> QED BY <2>1, <2>3, <2>4 DEF enforce_memory_limit
<1>2. LoopInv => EveryVictimSetIsPossible
  BY <1>1 DEF EveryVictimSetIsPossible
<1> QED BY <1>2, LoopInvariant, PTL

=============================================================================
