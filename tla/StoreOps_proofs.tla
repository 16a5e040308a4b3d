--------------------------- MODULE StoreOps_proofs --------------------------
(***************************************************************************)
(* Facts about the critical sections of StoreOps.tla, for every value of   *)
(* its constants.  MemoryStore_proofs.tla builds on them.                  *)
(***************************************************************************)
EXTENDS StoreOps, FiniteSetTheorems, SequenceTheorems, WellFoundedInduction, TLAPS

----------------------------------------------------------------------------
(* Types.                                                                  *)

\* What every critical section leaves behind.
OutcomeOK(o) ==
  /\ o.entries \in EntriesType
  /\ o.pending \in Counts
  /\ o.reply[1] \in ReplyTags

\* A key space with no empty list in it.
NoEmpty(e) == \A k \in Keys : e[k] # None => e[k].items # <<>>

LEMMA KeySetCount ==
  ASSUME NEW S \in SUBSET Keys
  PROVE  IsFiniteSet(S) /\ Cardinality(S) \in Nat
BY StoreAssumption, FS_Subset, FS_CardinalityType

LEMMA ExpiredAreKeys ==
  ASSUME NEW e, NEW now
  PROVE  ExpiredKeys(e, now) \in SUBSET Keys /\ Present(e) \in SUBSET Keys
BY DEF ExpiredKeys, Present

LEMMA WithoutType ==
  ASSUME NEW e \in EntriesType, NEW S
  PROVE  Without(e, S) \in EntriesType
BY DEF Without, EntriesType

LEMMA EntryUpdateType ==
  ASSUME NEW e \in EntriesType, NEW key \in Keys, NEW v \in Entry \cup {None}
  PROVE  [e EXCEPT ![key] = v] \in EntriesType
BY DEF EntriesType

LEMMA EntryAt ==
  ASSUME NEW e \in EntriesType, NEW key \in Keys
  PROVE  e[key] \in Entry \cup {None}
BY DEF EntriesType

LEMMA EntryFields ==
  ASSUME NEW x \in Entry
  PROVE  /\ x # None
         /\ x.items \in Seq(Values)
         /\ x.expires_at \in Time \cup {None}
         /\ \A items \in Seq(Values) : [x EXCEPT !.items = items] \in Entry
         /\ \A d \in Time \cup {None} : [x EXCEPT !.expires_at = d] \in Entry
BY NoneAssumption DEF Entry

LEMMA RemoveIfExpiredType ==
  ASSUME NEW e \in EntriesType, NEW key, NEW now
  PROVE  remove_if_expired(e, key, now) \in EntriesType
BY WithoutType DEF remove_if_expired

LEMMA ReplyTagsOfReplies ==
  /\ Ok[1] \in ReplyTags
  /\ Null[1] \in ReplyTags
  /\ WrongType[1] \in ReplyTags
  /\ OutOfMemory[1] \in ReplyTags
  /\ \A x : Integer(x)[1] \in ReplyTags
  /\ \A x : Bulk(x)[1] \in ReplyTags
  /\ \A x : Array(x)[1] \in ReplyTags
BY DEF Ok, Null, WrongType, OutOfMemory, Integer, Bulk, Array, ReplyTags

LEMMA OutcomeType ==
  ASSUME NEW e \in EntriesType, NEW reply, reply[1] \in ReplyTags,
         NEW x \in Nat, NEW y \in Nat, NEW z \in Nat
  PROVE  OutcomeOK(Outcome(e, reply, x, y, z))
BY DEF Outcome, OutcomeOK, Counts

LEMMA QuietType ==
  ASSUME NEW e \in EntriesType, NEW reply, reply[1] \in ReplyTags
  PROVE  OutcomeOK(Quiet(e, reply))
BY OutcomeType DEF Quiet

LEMMA VictimsAreKeys ==
  ASSUME NEW e, NEW key, NEW victims \in enforce_memory_limit(e, key)
  PROVE  victims \in SUBSET Keys
BY DEF enforce_memory_limit, evict_until_within_limit, Present

LEMMA CommitWriteType ==
  ASSUME NEW e \in EntriesType, NEW key \in Keys, NEW old \in Entry \cup {None},
         NEW reply, reply[1] \in ReplyTags,
         NEW o \in commit_write(e, key, old, reply)
  PROVE  OutcomeOK(o)
<1>1. CASE enforce_memory_limit(e, key) = {}
  <2>1. o = Outcome([e EXCEPT ![key] = old], OutOfMemory, 0, 0, 1)
    BY <1>1 DEF commit_write, restore_entry
  <2>2. [e EXCEPT ![key] = old] \in EntriesType
    BY EntryUpdateType
  <2> QED BY <2>1, <2>2, OutcomeType, ReplyTagsOfReplies
<1>2. CASE enforce_memory_limit(e, key) # {}
  <2>1. PICK victims \in enforce_memory_limit(e, key) :
          o = Outcome(Without(e, victims), reply, 0, Cardinality(victims), 0)
    BY <1>2 DEF commit_write
  <2> QED BY <2>1, VictimsAreKeys, KeySetCount, WithoutType, OutcomeType
<1> QED BY <1>1, <1>2

LEMMA SetType ==
  ASSUME NEW e0 \in EntriesType, NEW key \in Keys, NEW value \in Values, NEW now,
         NEW o \in set(e0, key, value, now)
  PROVE  OutcomeOK(o)
<1> DEFINE e == remove_if_expired(e0, key, now)
           new == [type |-> "string", items |-> <<value>>, expires_at |-> None]
<1>1. e \in EntriesType
  BY RemoveIfExpiredType
<1>2. new \in Entry
  BY DEF Entry
<1>3. [e EXCEPT ![key] = new] \in EntriesType
  BY <1>1, <1>2, EntryUpdateType
<1>4. e[key] \in Entry \cup {None}
  BY <1>1, EntryAt
<1>5. o \in commit_write([e EXCEPT ![key] = new], key, e[key], Ok)
  BY DEF set
<1> HIDE DEF e, new
<1> QED BY <1>3, <1>4, <1>5, CommitWriteType, ReplyTagsOfReplies

LEMMA GetType ==
  ASSUME NEW e \in EntriesType, NEW key \in Keys, NEW now
  PROVE  OutcomeOK(get(e, key, now))
BY RemoveIfExpiredType, QuietType, ReplyTagsOfReplies DEF get

LEMMA DelType ==
  ASSUME NEW e \in EntriesType, NEW keys, NEW now
  PROVE  OutcomeOK(del(e, keys, now))
BY WithoutType, QuietType, ReplyTagsOfReplies DEF del

LEMMA ExistsType ==
  ASSUME NEW e \in EntriesType, NEW keys, NEW now
  PROVE  OutcomeOK(exists(e, keys, now))
BY WithoutType, QuietType, ReplyTagsOfReplies DEF exists

LEMMA ExpireAtType ==
  ASSUME NEW e0 \in EntriesType, NEW key \in Keys, NEW expires_at \in Time, NEW now
  PROVE  OutcomeOK(expire_at(e0, key, expires_at, now))
<1> DEFINE e == remove_if_expired(e0, key, now)
<1>1. e \in EntriesType
  BY RemoveIfExpiredType
<1>2. ASSUME e[key] # None
      PROVE  [e EXCEPT ![key].expires_at = expires_at] \in EntriesType
  <2>1. e[key] \in Entry
    BY <1>1, <1>2, EntryAt
  <2>2. [e[key] EXCEPT !.expires_at = expires_at] \in Entry
    BY <2>1, EntryFields
  <2> QED BY <1>1, <2>2, EntryUpdateType
<1>3. Without(e, {key}) \in EntriesType
  BY <1>1, WithoutType
<1> QED BY <1>1, <1>2, <1>3, QuietType, ReplyTagsOfReplies DEF expire_at

LEMMA TtlType ==
  ASSUME NEW e \in EntriesType, NEW key \in Keys, NEW now
  PROVE  OutcomeOK(ttl(e, key, now))
BY RemoveIfExpiredType, QuietType, ReplyTagsOfReplies DEF ttl

LEMMA PersistType ==
  ASSUME NEW e0 \in EntriesType, NEW key \in Keys, NEW now
  PROVE  OutcomeOK(persist(e0, key, now))
<1> DEFINE e == remove_if_expired(e0, key, now)
<1>1. e \in EntriesType
  BY RemoveIfExpiredType
<1>2. ASSUME e[key] # None
      PROVE  [e EXCEPT ![key].expires_at = None] \in EntriesType
  <2>1. e[key] \in Entry
    BY <1>1, <1>2, EntryAt
  <2>2. [e[key] EXCEPT !.expires_at = None] \in Entry
    BY <2>1, EntryFields
  <2> QED BY <1>1, <2>2, EntryUpdateType
<1> QED BY <1>1, <1>2, QuietType, ReplyTagsOfReplies DEF persist

LEMMA CleanupType ==
  ASSUME NEW e \in EntriesType, NEW now
  PROVE  OutcomeOK(cleanup_expired(e, now))
BY WithoutType, OutcomeType, ReplyTagsOfReplies, ExpiredAreKeys, KeySetCount
   DEF cleanup_expired, retain_unexpired

----------------------------------------------------------------------------
(* Lists.                                                                  *)

LEMMA ReverseType ==
  ASSUME NEW S, NEW s \in Seq(S)
  PROVE  Reverse(s) \in Seq(S) /\ Len(Reverse(s)) = Len(s)
<1>1. Len(s) \in Nat /\ DOMAIN s = 1..Len(s) /\ s \in [1..Len(s) -> S]
  BY LenProperties
<1>2. \A i \in 1..Len(s) : (Len(s) - i) + 1 \in 1..Len(s)
  BY <1>1
<1>3. Reverse(s) \in [1..Len(s) -> S]
  BY <1>1, <1>2 DEF Reverse
<1>4. Reverse(s) \in Seq(S)
  BY <1>1, <1>3, SeqDef
<1>5. DOMAIN Reverse(s) = 1..Len(s)
  BY <1>3
<1> QED BY <1>1, <1>4, <1>5, LenProperties

LEMMA FrontType ==
  ASSUME NEW S, NEW s \in Seq(S), s # <<>>
  PROVE  Front(s) \in Seq(S) /\ Len(Front(s)) = Len(s) - 1
<1>1. Len(s) \in Nat \ {0} /\ s \in [1..Len(s) -> S]
  BY LenProperties, EmptySeq
<1>2. \A i \in 1..(Len(s) - 1) : s[i] \in S
  BY <1>1
<1> QED BY <1>1, <1>2, SubSeqProperties DEF Front

\* The list a push leaves is not empty: values are not.
LEMMA PushedItems ==
  ASSUME NEW items \in Seq(Values), NEW values \in NonEmptySeq(Values), NEW side \in Sides
  PROVE  LET pushed == IF side = "left" THEN Reverse(values) \o items ELSE items \o values
         IN  pushed \in Seq(Values) /\ pushed # <<>>
<1>1. values \in Seq(Values) /\ values # <<>>
  BY DEF NonEmptySeq
<1>2. Len(values) \in Nat \ {0} /\ Len(items) \in Nat
  BY <1>1, EmptySeq, LenProperties
<1>3. Reverse(values) \in Seq(Values) /\ Len(Reverse(values)) = Len(values)
  BY <1>1, ReverseType
<1>4. Reverse(values) \o items \in Seq(Values)
      /\ Len(Reverse(values) \o items) = Len(values) + Len(items)
  <2>1. \A s \in Seq(Values) : s \o items \in Seq(Values) /\ Len(s \o items) = Len(s) + Len(items)
    BY ConcatProperties
  <2> QED BY <1>3, <2>1
<1>5. items \o values \in Seq(Values) /\ Len(items \o values) = Len(items) + Len(values)
  BY <1>1, ConcatProperties
<1>6. \A s : Len(s) # 0 => s # <<>>
  BY EmptySeq
<1> QED BY <1>2, <1>4, <1>5, <1>6

LEMMA PushType ==
  ASSUME NEW e0 \in EntriesType, NEW key \in Keys, NEW values \in NonEmptySeq(Values),
         NEW side \in Sides, NEW now, NEW o \in push(e0, key, values, side, now)
  PROVE  OutcomeOK(o)
<1> DEFINE e == remove_if_expired(e0, key, now)
           old == e[key]
           list == IF old = None
                   THEN [type |-> "list", items |-> <<>>, expires_at |-> None]
                   ELSE old
           pushed == IF side = "left" THEN Reverse(values) \o list.items ELSE list.items \o values
           e1 == [e EXCEPT ![key] = [list EXCEPT !.items = pushed]]
<1>1. e \in EntriesType
  BY RemoveIfExpiredType
<1>2. old \in Entry \cup {None}
  BY <1>1, EntryAt
<1>3. list \in Entry
  BY <1>2, EmptySeq DEF Entry
<1>4. pushed \in Seq(Values)
  BY <1>3, EntryFields, PushedItems
<1>5. [list EXCEPT !.items = pushed] \in Entry
  BY <1>3, <1>4, EntryFields
<1>6. e1 \in EntriesType
  BY <1>1, <1>5, EntryUpdateType
<1>7. \/ o = Quiet(e, WrongType)
      \/ o \in commit_write(e1, key, old, Integer(Len(pushed)))
  BY DEF push
<1> HIDE DEF e, old, list, pushed, e1
<1> QED BY <1>1, <1>2, <1>6, <1>7, CommitWriteType, QuietType, ReplyTagsOfReplies

LEMMA PopType ==
  ASSUME NEW e0 \in EntriesType, NoEmpty(e0),
         NEW key \in Keys, NEW side \in Sides, NEW now
  PROVE  OutcomeOK(pop(e0, key, side, now))
<1> DEFINE e == remove_if_expired(e0, key, now)
           items == e[key].items
           rest == IF side = "left" THEN Tail(items) ELSE Front(items)
<1>1. e \in EntriesType
  BY RemoveIfExpiredType
<1>2. ASSUME e[key] # None
      PROVE  [e EXCEPT ![key].items = rest] \in EntriesType
  <2>1. e[key] \in Entry /\ e[key] = e0[key]
    BY <1>1, <1>2, EntryAt DEF remove_if_expired, Without
  <2>2. items \in Seq(Values) /\ items # <<>>
    BY <2>1, <1>2, EntryFields DEF NoEmpty
  <2>3. rest \in Seq(Values)
    BY <2>2, HeadTailProperties, FrontType
  <2>4. [e[key] EXCEPT !.items = rest] \in Entry
    BY <2>1, <2>3, EntryFields
  <2> QED BY <1>1, <2>4, EntryUpdateType
<1>3. Without(e, {key}) \in EntriesType
  BY <1>1, WithoutType
<1> QED BY <1>1, <1>2, <1>3, QuietType, ReplyTagsOfReplies DEF pop

LEMMA LrangeType ==
  ASSUME NEW e \in EntriesType, NEW key \in Keys, NEW start, NEW stop, NEW now
  PROVE  OutcomeOK(lrange(e, key, start, stop, now))
BY RemoveIfExpiredType, QuietType, ReplyTagsOfReplies DEF lrange

LEMMA StatsType ==
  ASSUME NEW e \in EntriesType, NEW now
  PROVE  OutcomeOK(stats(e, now))
<1>1. <<"stats", build_stats(retain_unexpired(e, now))>>[1] \in ReplyTags
  BY DEF ReplyTags
<1>2. retain_unexpired(e, now) \in EntriesType
  BY WithoutType DEF retain_unexpired
<1> QED BY <1>1, <1>2, OutcomeType, ExpiredAreKeys, KeySetCount DEF stats

LEMMA InspectType ==
  ASSUME NEW e \in EntriesType, NEW limit, NEW now
  PROVE  OutcomeOK(inspect_keys(e, limit, now))
<1>1. retain_unexpired(e, now) \in EntriesType
  BY WithoutType DEF retain_unexpired
<1> QED BY <1>1, OutcomeType, QuietType, ReplyTagsOfReplies, ExpiredAreKeys, KeySetCount
        DEF inspect_keys

----------------------------------------------------------------------------
(* Memory.                                                                 *)

LEMMA FiniteFamily ==
  ASSUME NEW S, IsFiniteSet(S), NEW f, f = [x \in S |-> f[x]],
         \A x \in S : IsFiniteSet(f[x])
  PROVE  IsFiniteSet(UNION {f[x] : x \in S})
<1> DEFINE T == {f[x] : x \in S}
<1>1. f \in Surjection(S, T)
  BY DEF Surjection
<1>2. IsFiniteSet(T)
  BY <1>1, FS_Surjection
<1> QED BY <1>2, FS_UNION

LEMMA CellsFinite ==
  ASSUME NEW x, NEW n \in Nat
  PROVE  IsFiniteSet({x} \X (1..n))
<1>1. IsFiniteSet({x})
  BY FS_Singleton
<1>2. IsFiniteSet(1..n)
  BY FS_Interval
<1> QED BY <1>1, <1>2, FS_Product

LEMMA ItemBytesType ==
  ASSUME NEW x \in Entry, NEW i \in DOMAIN x.items
  PROVE  ItemBytes(x, i) \in Nat
<1>1. x.items[i] \in Values
  BY EntryFields, LenProperties
<1> QED BY <1>1, StoreAssumption DEF ItemBytes

LEMMA EntryFootprintFinite ==
  ASSUME NEW key \in Keys, NEW x \in Entry
  PROVE  IsFiniteSet(EntryFootprint(key, x))
<1> DEFINE f == [i \in DOMAIN x.items |-> {<<key, i>>} \X (1..ItemBytes(x, i))]
<1>1. EntryOverhead + KeyLen[key] \in Nat
  BY StoreAssumption
<1>2. IsFiniteSet({<<key, 0>>} \X (1..(EntryOverhead + KeyLen[key])))
  BY <1>1, CellsFinite
<1>3. DOMAIN x.items = 1..Len(x.items) /\ Len(x.items) \in Nat
  BY EntryFields, LenProperties
<1>4. IsFiniteSet(DOMAIN x.items)
  BY <1>3, FS_Interval
<1>5. \A i \in DOMAIN x.items : IsFiniteSet(f[i])
  BY ItemBytesType, CellsFinite
<1>6. IsFiniteSet(UNION {f[i] : i \in DOMAIN x.items})
  <2>1. f = [i \in DOMAIN x.items |-> f[i]]
    OBVIOUS
  <2> HIDE DEF f
  <2> QED BY <1>4, <1>5, <2>1, FiniteFamily
<1>7. EntryFootprint(key, x) =
        ({<<key, 0>>} \X (1..(EntryOverhead + KeyLen[key])))
          \cup UNION {f[i] : i \in DOMAIN x.items}
  BY DEF EntryFootprint
<1> HIDE DEF f
<1>8. \A A, B : IsFiniteSet(A) /\ IsFiniteSet(B) => IsFiniteSet(A \cup B)
  BY FS_Union
<1> QED BY <1>2, <1>6, <1>7, <1>8

LEMMA FootprintFinite ==
  ASSUME NEW e \in EntriesType
  PROVE  /\ IsFiniteSet(Footprint(e))
         /\ estimated_memory_bytes(e) \in Nat
<1> DEFINE f == [k \in Present(e) |-> EntryFootprint(k, e[k])]
<1>1. IsFiniteSet(Present(e))
  BY ExpiredAreKeys, KeySetCount
<1>2. \A k \in Present(e) : IsFiniteSet(f[k])
  BY EntryFootprintFinite, EntryAt DEF Present
<1>3. IsFiniteSet(UNION {f[k] : k \in Present(e)})
  <2>1. f = [k \in Present(e) |-> f[k]]
    OBVIOUS
  <2> HIDE DEF f
  <2> QED BY <1>1, <1>2, <2>1, FiniteFamily
<1>4. Footprint(e) = UNION {f[k] : k \in Present(e)}
  BY DEF Footprint
<1> QED BY <1>3, <1>4, FS_CardinalityType DEF estimated_memory_bytes

LEMMA InFootprint ==
  ASSUME NEW e, NEW c
  PROVE  c \in Footprint(e) <=>
           \E k \in Present(e) :
             \/ \E b \in 1..(EntryOverhead + KeyLen[k]) : c = <<<<k, 0>>, b>>
             \/ \E i \in DOMAIN e[k].items :
                  \E b \in 1..ItemBytes(e[k], i) : c = <<<<k, i>>, b>>
BY DEF Footprint, EntryFootprint

LEMMA SmallerFits ==
  ASSUME NEW e \in EntriesType, NEW f \in EntriesType,
         Footprint(f) \subseteq Footprint(e), WithinLimit(e)
  PROVE  WithinLimit(f)
<1>1. Cardinality(Footprint(f)) <= Cardinality(Footprint(e))
  BY FootprintFinite, FS_Subset
<1> QED BY <1>1, FootprintFinite, StoreAssumption DEF WithinLimit, estimated_memory_bytes

LEMMA WithoutFits ==
  ASSUME NEW e \in EntriesType, NEW S, WithinLimit(e)
  PROVE  WithinLimit(Without(e, S))
<1>1. Footprint(Without(e, S)) \subseteq Footprint(e)
  <2>1. \A k \in Present(Without(e, S)) : k \in Present(e) /\ Without(e, S)[k] = e[k]
    BY DEF Present, Without
  <2> QED BY <2>1, InFootprint
<1> QED BY <1>1, WithoutType, SmallerFits

\* A change of deadline costs nothing.
LEMMA RedatedFits ==
  ASSUME NEW e \in EntriesType, NEW key \in Keys, e[key] # None,
         NEW d \in Time \cup {None}, WithinLimit(e)
  PROVE  WithinLimit([e EXCEPT ![key].expires_at = d])
<1> DEFINE f == [e EXCEPT ![key].expires_at = d]
<1>1. e[key] \in Entry
  BY EntryAt
<1>2. [e[key] EXCEPT !.expires_at = d] \in Entry
  BY <1>1, EntryFields
<1>3. f \in EntriesType
  BY <1>2, EntryUpdateType
<1>4. f[key] = [e[key] EXCEPT !.expires_at = d]
  BY DEF EntriesType
<1>5. f[key].items = e[key].items /\ f[key].type = e[key].type
  BY <1>1, <1>4 DEF Entry
<1>6. \A k \in Keys \ {key} : f[k] = e[k]
  BY DEF EntriesType
<1>7. Present(f) = Present(e)
  BY <1>2, <1>4, <1>6, EntryFields DEF Present
<1>8. Footprint(f) \subseteq Footprint(e)
  <2>1. \A k \in Present(f) : /\ f[k].items = e[k].items
                              /\ \A i : ItemBytes(f[k], i) = ItemBytes(e[k], i)
    BY <1>5, <1>6 DEF ItemBytes, Present
  <2> HIDE DEF f
  <2> QED BY <1>7, <2>1, InFootprint
<1> QED BY <1>3, <1>8, SmallerFits

\* RPOP drops the cells of the last item.
LEMMA RightPoppedFits ==
  ASSUME NEW e \in EntriesType, NEW key \in Keys, e[key] # None,
         e[key].items # <<>>, WithinLimit(e)
  PROVE  WithinLimit([e EXCEPT ![key].items = Front(e[key].items)])
<1> DEFINE items == e[key].items
           f == [e EXCEPT ![key].items = Front(items)]
<1>1. e[key] \in Entry /\ items \in Seq(Values)
  BY EntryAt, EntryFields
<1>2. Front(items) \in Seq(Values) /\ Len(Front(items)) = Len(items) - 1
  BY <1>1, FrontType
<1>3. [e[key] EXCEPT !.items = Front(items)] \in Entry
  BY <1>1, <1>2, EntryFields
<1>4. f \in EntriesType
  BY <1>3, EntryUpdateType
<1>5. f[key] = [e[key] EXCEPT !.items = Front(items)]
  BY DEF EntriesType
<1>6. f[key].items = Front(items) /\ f[key].type = e[key].type
  BY <1>1, <1>5 DEF Entry
<1>7. \A k \in Keys \ {key} : f[k] = e[k]
  BY DEF EntriesType
<1>8. Present(f) = Present(e)
  BY <1>3, <1>5, <1>7, EntryFields DEF Present
<1>9. Len(items) \in Nat \ {0} /\ DOMAIN items = 1..Len(items)
      /\ DOMAIN Front(items) = 1..(Len(items) - 1)
  BY <1>1, <1>2, LenProperties, EmptySeq
<1>10. \A i \in DOMAIN Front(items) : i \in DOMAIN items /\ Front(items)[i] = items[i]
  <2>1. \A i \in 1..(Len(items) - 1) : items[i] \in Values
    BY <1>1, <1>9, ElementOfSeq
  <2> QED BY <1>9, <2>1, SubSeqProperties DEF Front
<1>11. Footprint(f) \subseteq Footprint(e)
  <2>1. \A k \in Present(f) : \A i \in DOMAIN f[k].items :
          i \in DOMAIN e[k].items /\ ItemBytes(f[k], i) = ItemBytes(e[k], i)
    BY <1>6, <1>7, <1>10 DEF ItemBytes, Present
  <2> HIDE DEF f, items
  <2> QED BY <1>8, <2>1, InFootprint
<1> QED BY <1>4, <1>11, SmallerFits

\* LPOP moves every other item one place: an injection of cells.
LEMMA LeftPoppedFits ==
  ASSUME NEW e \in EntriesType, NEW key \in Keys, e[key] # None,
         e[key].items # <<>>, WithinLimit(e)
  PROVE  WithinLimit([e EXCEPT ![key].items = Tail(e[key].items)])
<1> DEFINE items == e[key].items
           f == [e EXCEPT ![key].items = Tail(items)]
           g == [c \in Footprint(f) |->
                   IF c[1][1] = key /\ c[1][2] # 0
                   THEN <<<<key, c[1][2] + 1>>, c[2]>> ELSE c]
<1>1. e[key] \in Entry /\ items \in Seq(Values)
  BY EntryAt, EntryFields
<1>2. /\ Tail(items) \in Seq(Values)
      /\ Len(Tail(items)) = Len(items) - 1
      /\ \A i \in 1..Len(Tail(items)) : Tail(items)[i] = items[i + 1]
  BY <1>1, HeadTailProperties
<1>3. [e[key] EXCEPT !.items = Tail(items)] \in Entry
  BY <1>1, <1>2, EntryFields
<1>4. f \in EntriesType
  BY <1>3, EntryUpdateType
<1>5. f[key] = [e[key] EXCEPT !.items = Tail(items)]
  BY DEF EntriesType
<1>6. f[key].items = Tail(items) /\ f[key].type = e[key].type
  BY <1>1, <1>5 DEF Entry
<1>7. \A k \in Keys \ {key} : f[k] = e[k]
  BY DEF EntriesType
<1>8. Present(f) = Present(e)
  BY <1>3, <1>5, <1>7, EntryFields DEF Present
<1>9. /\ Len(items) \in Nat \ {0} /\ DOMAIN items = 1..Len(items)
      /\ DOMAIN Tail(items) = 1..(Len(items) - 1)
  BY <1>1, <1>2, LenProperties, EmptySeq
<1>10. \A i \in DOMAIN f[key].items :
         /\ i \in Nat \ {0}
         /\ i + 1 \in DOMAIN items
         /\ ItemBytes(f[key], i) = ItemBytes(e[key], i + 1)
  <2> SUFFICES ASSUME NEW i \in DOMAIN f[key].items
               PROVE  /\ i \in Nat \ {0} /\ i + 1 \in DOMAIN items
                      /\ ItemBytes(f[key], i) = ItemBytes(e[key], i + 1)
    OBVIOUS
  <2>1. i \in 1..(Len(items) - 1)
    BY <1>6, <1>9
  <2>2. i \in Nat \ {0} /\ i + 1 \in DOMAIN items
    BY <1>9, <2>1
  <2>3. f[key].items[i] = e[key].items[i + 1]
    BY <1>2, <1>6, <2>1
  <2> QED BY <1>6, <2>2, <2>3 DEF ItemBytes
<1>11. ASSUME NEW c \in Footprint(f)
       PROVE  /\ g[c] \in Footprint(e)
              /\ c[1][1] \in Keys /\ c[1][2] \in Nat
              /\ c = <<<<c[1][1], c[1][2]>>, c[2]>>
  <2>1. PICK k \in Present(f) :
          \/ \E b \in 1..(EntryOverhead + KeyLen[k]) : c = <<<<k, 0>>, b>>
          \/ \E i \in DOMAIN f[k].items : \E b \in 1..ItemBytes(f[k], i) : c = <<<<k, i>>, b>>
    <3> HIDE DEF f, g
    <3> QED BY <1>11, InFootprint
  <2>2. k \in Keys /\ k \in Present(e)
    BY <1>8, <2>1 DEF Present
  <2>3. CASE \E b \in 1..(EntryOverhead + KeyLen[k]) : c = <<<<k, 0>>, b>>
    <3>1. c \in Footprint(e)
      BY <2>2, <2>3, InFootprint
    <3>2. c[1][1] = k /\ c[1][2] = 0 /\ c = <<<<c[1][1], c[1][2]>>, c[2]>>
      BY <2>3
    <3>3. g[c] = c
      BY <3>2
    <3> QED BY <2>2, <3>1, <3>2, <3>3
  <2>4. CASE \E i \in DOMAIN f[k].items : \E b \in 1..ItemBytes(f[k], i) : c = <<<<k, i>>, b>>
    <3>1. PICK i \in DOMAIN f[k].items : \E b \in 1..ItemBytes(f[k], i) : c = <<<<k, i>>, b>>
      BY <2>4
    <3>2. PICK b \in 1..ItemBytes(f[k], i) : c = <<<<k, i>>, b>>
      BY <3>1
    <3>3. c[1][1] = k /\ c[1][2] = i /\ c[2] = b
      BY <3>2
    <3>4. i \in Nat \ {0}
      <4>1. f[k] \in Entry
        BY <1>4, <2>1, EntryAt DEF Present
      <4> HIDE DEF f
      <4> QED BY <3>1, <4>1, EntryFields, LenProperties
    <3>5. CASE k = key
      <4>1. g[c] = <<<<key, i + 1>>, b>>
        BY <3>3, <3>4, <3>5
      <4>2. i + 1 \in DOMAIN e[key].items /\ b \in 1..ItemBytes(e[key], i + 1)
        <5> HIDE DEF f
        <5> QED BY <1>10, <3>1, <3>2, <3>5
      <4>3. g[c] \in Footprint(e)
        <5> HIDE DEF g
        <5> QED BY <2>2, <3>5, <4>1, <4>2, InFootprint
      <4> HIDE DEF g, f
      <4> QED BY <2>2, <3>2, <3>3, <3>4, <4>3
    <3>6. CASE k # key
      <4>1. g[c] = c
        BY <3>3, <3>6
      <4>2. f[k] = e[k]
        BY <1>7, <2>2, <3>6
      <4>3. c \in Footprint(e)
        <5> HIDE DEF f
        <5> QED BY <2>2, <3>1, <3>2, <4>2, InFootprint
      <4> HIDE DEF g, f
      <4> QED BY <2>2, <3>2, <3>3, <3>4, <4>1, <4>3
    <3> QED BY <3>5, <3>6
  <2> QED BY <2>1, <2>3, <2>4
<1>12. ASSUME NEW c \in Footprint(f), NEW d \in Footprint(f), g[c] = g[d]
       PROVE  c = d
  <2>1. /\ c[1][1] \in Keys /\ c[1][2] \in Nat /\ c = <<<<c[1][1], c[1][2]>>, c[2]>>
        /\ d[1][1] \in Keys /\ d[1][2] \in Nat /\ d = <<<<d[1][1], d[1][2]>>, d[2]>>
    BY <1>11
  <2>2. g[c] = IF c[1][1] = key /\ c[1][2] # 0 THEN <<<<key, c[1][2] + 1>>, c[2]>> ELSE c
    OBVIOUS
  <2>3. g[d] = IF d[1][1] = key /\ d[1][2] # 0 THEN <<<<key, d[1][2] + 1>>, d[2]>> ELSE d
    OBVIOUS
  <2> HIDE DEF g, f
  <2>4. g[c][1][1] = c[1][1] /\ g[c][2] = c[2]
        /\ g[c][1][2] = IF c[1][1] = key /\ c[1][2] # 0 THEN c[1][2] + 1 ELSE c[1][2]
    BY <2>1, <2>2
  <2>5. g[d][1][1] = d[1][1] /\ g[d][2] = d[2]
        /\ g[d][1][2] = IF d[1][1] = key /\ d[1][2] # 0 THEN d[1][2] + 1 ELSE d[1][2]
    BY <2>1, <2>3
  <2>6. c[1][1] = d[1][1] /\ c[2] = d[2] /\ c[1][2] = d[1][2]
    BY <1>12, <2>1, <2>4, <2>5
  <2> QED BY <2>1, <2>6
<1>13. g \in Injection(Footprint(f), Footprint(e))
  <2>1. g \in [Footprint(f) -> Footprint(e)]
    BY <1>11
  <2> HIDE DEF g, f
  <2> QED BY <1>12, <2>1 DEF Injection, IsInjective
<1>14. Cardinality(Footprint(f)) <= Cardinality(Footprint(e))
  <2> HIDE DEF g, f
  <2> QED BY <1>13, FootprintFinite, FS_Injection
<1> HIDE DEF g, f
<1>15. WithinLimit(f)
  BY <1>4, <1>14, FootprintFinite, StoreAssumption DEF WithinLimit, estimated_memory_bytes
<1> QED BY <1>15 DEF f

----------------------------------------------------------------------------
(* Every command.                                                          *)

LEMMA CommandFields ==
  ASSUME NEW c \in CommandSpace
  PROVE  /\ c.op \in {"SET", "GET", "DEL", "EXISTS", "EXPIRE", "EXPIREAT", "TTL", "PERSIST", "LPUSH",
                      "RPUSH", "LPOP", "RPOP", "LRANGE", "STATS", "INSPECT", "CLEANUP"}
         /\ c.op \in {"SET", "GET", "TTL", "PERSIST", "LPOP", "RPOP", "EXPIRE", "EXPIREAT",
                      "LPUSH", "RPUSH", "LRANGE"} => c.key \in Keys
         /\ c.op = "SET" => c.value \in Values
         /\ c.op \in {"LPUSH", "RPUSH"} => c.values \in NonEmptySeq(Values)
         /\ c.op \in {"EXPIRE", "EXPIREAT"} => c.seconds \in Nat
BY DEF CommandSpace

\* Which operation a command runs.
Runs(e, c, d, n, o) ==
  /\ c.op = "SET" => o \in set(e, c.key, c.value, n)
  /\ c.op = "GET" => o = get(e, c.key, n)
  /\ c.op = "DEL" => o = del(e, c.keys, n)
  /\ c.op = "EXISTS" => o = exists(e, c.keys, n)
  /\ c.op \in {"EXPIRE", "EXPIREAT"} => o = expire_at(e, c.key, d, n)
  /\ c.op = "TTL" => o = ttl(e, c.key, n)
  /\ c.op = "PERSIST" => o = persist(e, c.key, n)
  /\ c.op \in {"LPUSH", "RPUSH"} => o \in push(e, c.key, c.values, SideOf(c), n)
  /\ c.op \in {"LPOP", "RPOP"} => o = pop(e, c.key, SideOf(c), n)
  /\ c.op = "LRANGE" => o = lrange(e, c.key, c.start, c.stop, n)
  /\ c.op = "STATS" => o = stats(e, n)
  /\ c.op = "INSPECT" => o = inspect_keys(e, c.limit, n)
  /\ c.op = "CLEANUP" => o = cleanup_expired(e, n)

LEMMA ExecuteCases ==
  ASSUME NEW e, NEW c \in CommandSpace, NEW d, NEW n, NEW o \in Execute(e, c, d, n)
  PROVE  Runs(e, c, d, n, o)
<1>1. c.op \in {"SET", "GET", "DEL", "EXISTS", "EXPIRE", "EXPIREAT", "TTL", "PERSIST", "LPUSH",
                "RPUSH", "LPOP", "RPOP", "LRANGE", "STATS", "INSPECT", "CLEANUP"}
  BY DEF CommandSpace
<1>2. CASE c.op = "SET"
  BY <1>2 DEF Execute, Runs
<1>3. CASE c.op = "GET"
  BY <1>3 DEF Execute, Runs
<1>4. CASE c.op = "DEL"
  BY <1>4 DEF Execute, Runs
<1>5. CASE c.op = "EXISTS"
  BY <1>5 DEF Execute, Runs
<1>6. CASE c.op = "EXPIRE"
  BY <1>6 DEF Execute, Runs
<1>7. CASE c.op = "EXPIREAT"
  BY <1>7 DEF Execute, Runs
<1>8. CASE c.op = "TTL"
  BY <1>8 DEF Execute, Runs
<1>9. CASE c.op = "PERSIST"
  BY <1>9 DEF Execute, Runs
<1>10. CASE c.op = "LPUSH"
  BY <1>10 DEF Execute, Runs
<1>11. CASE c.op = "RPUSH"
  BY <1>11 DEF Execute, Runs
<1>12. CASE c.op = "LPOP"
  BY <1>12 DEF Execute, Runs
<1>13. CASE c.op = "RPOP"
  BY <1>13 DEF Execute, Runs
<1>14. CASE c.op = "LRANGE"
  BY <1>14 DEF Execute, Runs
<1>15. CASE c.op = "STATS"
  BY <1>15 DEF Execute, Runs
<1>16. CASE c.op = "INSPECT"
  BY <1>16 DEF Execute, Runs
<1>17. CASE c.op = "CLEANUP"
  BY <1>17 DEF Execute, Runs
<1> QED BY <1>1, <1>2, <1>3, <1>4, <1>5, <1>6, <1>7, <1>8, <1>9, <1>10, <1>11, <1>12, <1>13, <1>14, <1>15, <1>16, <1>17

LEMMA ExecuteType ==
  ASSUME NEW e \in EntriesType, NoEmpty(e), NEW c \in CommandSpace, NEW d \in Time, NEW n,
         NEW o \in Execute(e, c, d, n)
  PROVE  OutcomeOK(o)
<1>1. Runs(e, c, d, n, o)
  BY ExecuteCases
<1>2. SideOf(c) \in Sides
  BY DEF SideOf, Sides
<1>3. CASE c.op = "SET"
  BY <1>1, <1>3, CommandFields, SetType DEF Runs
<1>4. CASE c.op = "GET"
  BY <1>1, <1>4, CommandFields, GetType DEF Runs
<1>5. CASE c.op = "DEL"
  BY <1>1, <1>5, DelType DEF Runs
<1>6. CASE c.op = "EXISTS"
  BY <1>1, <1>6, ExistsType DEF Runs
<1>7. CASE c.op \in {"EXPIRE", "EXPIREAT"}
  BY <1>1, <1>7, CommandFields, ExpireAtType DEF Runs
<1>8. CASE c.op = "TTL"
  BY <1>1, <1>8, CommandFields, TtlType DEF Runs
<1>9. CASE c.op = "PERSIST"
  BY <1>1, <1>9, CommandFields, PersistType DEF Runs
<1>10. CASE c.op \in {"LPUSH", "RPUSH"}
  BY <1>1, <1>2, <1>10, CommandFields, PushType DEF Runs
<1>11. CASE c.op \in {"LPOP", "RPOP"}
  <2>1. c.key \in Keys
    BY <1>11, CommandFields
  <2>2. OutcomeOK(pop(e, c.key, SideOf(c), n))
    BY <1>2, <2>1, PopType
  <2> QED BY <1>1, <1>11, <2>2 DEF Runs
<1>12. CASE c.op = "LRANGE"
  BY <1>1, <1>12, CommandFields, LrangeType DEF Runs
<1>13. CASE c.op = "STATS"
  BY <1>1, <1>13, StatsType DEF Runs
<1>14. CASE c.op = "INSPECT"
  BY <1>1, <1>14, InspectType DEF Runs
<1>15. CASE c.op = "CLEANUP"
  BY <1>1, <1>15, CleanupType DEF Runs
<1> QED BY <1>3, <1>4, <1>5, <1>6, <1>7, <1>8, <1>9, <1>10, <1>11, <1>12, <1>13, <1>14,
           <1>15, CommandFields

\* Most commands leave a key space with some keys taken out.
LEMMA ReadsOnlyRemove ==
  ASSUME NEW e \in EntriesType, NEW c \in CommandSpace, NEW d, NEW n,
         NEW o \in Execute(e, c, d, n),
         c.op \in {"GET", "DEL", "EXISTS", "TTL", "LRANGE", "STATS", "INSPECT", "CLEANUP"}
  PROVE  \E S : o.entries = Without(e, S)
<1>1. Runs(e, c, d, n, o)
  BY ExecuteCases
<1>2. CASE c.op = "GET"
  BY <1>1, <1>2 DEF Runs, get, Quiet, Outcome, remove_if_expired
<1>3. CASE c.op = "DEL"
  BY <1>1, <1>3 DEF Runs, del, Quiet, Outcome
<1>4. CASE c.op = "EXISTS"
  BY <1>1, <1>4 DEF Runs, exists, Quiet, Outcome
<1>5. CASE c.op = "TTL"
  BY <1>1, <1>5 DEF Runs, ttl, Quiet, Outcome, remove_if_expired
<1>6. CASE c.op = "LRANGE"
  BY <1>1, <1>6 DEF Runs, lrange, Quiet, Outcome, remove_if_expired
<1>7. CASE c.op = "STATS"
  BY <1>1, <1>7 DEF Runs, stats, Outcome, retain_unexpired
<1>8. CASE c.op = "INSPECT"
  <2>1. e = Without(e, {})
    BY DEF Without, EntriesType
  <2> QED BY <1>1, <1>8, <2>1 DEF Runs, inspect_keys, Quiet, Outcome, retain_unexpired
<1>9. CASE c.op = "CLEANUP"
  BY <1>1, <1>9 DEF Runs, cleanup_expired, Outcome, retain_unexpired
<1> QED BY <1>2, <1>3, <1>4, <1>5, <1>6, <1>7, <1>8, <1>9

\* What the invariants of the store ask of a key space.
Sound(e) == WithinLimit(e) /\ NoEmpty(e)

LEMMA WithoutSound ==
  ASSUME NEW e \in EntriesType, NEW S, Sound(e)
  PROVE  Sound(Without(e, S))
<1>1. NoEmpty(Without(e, S))
  BY DEF Sound, NoEmpty, Without
<1> QED BY <1>1, WithoutFits DEF Sound

LEMMA RemoveIfExpiredSound ==
  ASSUME NEW e \in EntriesType, Sound(e), NEW key, NEW now
  PROVE  Sound(remove_if_expired(e, key, now))
BY WithoutSound DEF remove_if_expired

\* enforce_memory_limit answers with victims that make room.
LEMMA EnforcedFits ==
  ASSUME NEW e \in EntriesType, NEW key, NEW victims \in enforce_memory_limit(e, key)
  PROVE  WithinLimit(Without(e, victims))
<1>1. CASE WithinLimit(e)
  BY <1>1, WithoutFits DEF enforce_memory_limit
<1>2. CASE ~WithinLimit(e)
  BY <1>2 DEF enforce_memory_limit, evict_until_within_limit
<1> QED BY <1>1, <1>2

\* The write `new` under `key` is committed or the old entry restored.
LEMMA CommitWriteSound ==
  ASSUME NEW e \in EntriesType, Sound(e), NEW key \in Keys, NEW new \in Entry,
         new.items # <<>>, NEW reply,
         NEW o \in commit_write([e EXCEPT ![key] = new], key, e[key], reply)
  PROVE  Sound(o.entries)
<1> DEFINE e1 == [e EXCEPT ![key] = new]
<1>1. e1 \in EntriesType
  BY EntryUpdateType
<1>2. CASE enforce_memory_limit(e1, key) = {}
  <2>1. o.entries = restore_entry(e1, key, e[key])
    BY <1>2 DEF commit_write, Outcome
  <2>2. restore_entry(e1, key, e[key]) = e
    BY DEF restore_entry, EntriesType
  <2> QED BY <2>1, <2>2
<1>3. CASE enforce_memory_limit(e1, key) # {}
  <2>1. PICK victims \in enforce_memory_limit(e1, key) : o.entries = Without(e1, victims)
    <3>1. o \in commit_write(e1, key, e[key], reply)
      OBVIOUS
    <3> HIDE DEF e1
    <3> QED BY <1>3, <3>1 DEF commit_write, Outcome
  <2>2. WithinLimit(Without(e1, victims))
    BY <1>1, EnforcedFits
  <2>3. NoEmpty(Without(e1, victims))
    BY DEF Sound, NoEmpty, Without, EntriesType
  <2> QED BY <2>1, <2>2, <2>3 DEF Sound
<1> QED BY <1>2, <1>3

LEMMA SetSound ==
  ASSUME NEW e0 \in EntriesType, Sound(e0), NEW key \in Keys, NEW value \in Values, NEW now,
         NEW o \in set(e0, key, value, now)
  PROVE  Sound(o.entries)
<1> DEFINE e == remove_if_expired(e0, key, now)
           new == [type |-> "string", items |-> <<value>>, expires_at |-> None]
<1>1. e \in EntriesType /\ Sound(e)
  BY RemoveIfExpiredType, RemoveIfExpiredSound
<1>2. new \in Entry /\ new.items # <<>>
  BY DEF Entry
<1>3. o \in commit_write([e EXCEPT ![key] = new], key, e[key], Ok)
  BY DEF set
<1> HIDE DEF e, new
<1> QED BY <1>1, <1>2, <1>3, CommitWriteSound

LEMMA PushSound ==
  ASSUME NEW e0 \in EntriesType, Sound(e0), NEW key \in Keys,
         NEW values \in NonEmptySeq(Values), NEW side \in Sides, NEW now,
         NEW o \in push(e0, key, values, side, now)
  PROVE  Sound(o.entries)
<1> DEFINE e == remove_if_expired(e0, key, now)
           old == e[key]
           list == IF old = None
                   THEN [type |-> "list", items |-> <<>>, expires_at |-> None]
                   ELSE old
           pushed == IF side = "left" THEN Reverse(values) \o list.items ELSE list.items \o values
           new == [list EXCEPT !.items = pushed]
<1>1. e \in EntriesType /\ Sound(e)
  BY RemoveIfExpiredType, RemoveIfExpiredSound
<1>2. list \in Entry
  BY <1>1, EntryAt, EmptySeq DEF Entry
<1>3. pushed \in Seq(Values) /\ pushed # <<>>
  BY <1>2, EntryFields, PushedItems
<1>4. new \in Entry
  BY <1>2, <1>3, EntryFields
<1>5. new.items = pushed
  BY <1>2 DEF Entry
<1>6. \/ o = Quiet(e, WrongType)
      \/ o \in commit_write([e EXCEPT ![key] = new], key, e[key], Integer(Len(pushed)))
  BY DEF push
<1>7. o = Quiet(e, WrongType) => o.entries = e
  BY DEF Quiet, Outcome
<1> HIDE DEF e, old, list, pushed, new
<1> QED BY <1>1, <1>3, <1>4, <1>5, <1>6, <1>7, CommitWriteSound

LEMMA PopSound ==
  ASSUME NEW e0 \in EntriesType, Sound(e0), NEW key \in Keys, NEW side \in Sides, NEW now
  PROVE  Sound(pop(e0, key, side, now).entries)
<1> DEFINE e == remove_if_expired(e0, key, now)
           items == e[key].items
           rest == IF side = "left" THEN Tail(items) ELSE Front(items)
           f == [e EXCEPT ![key].items = rest]
<1>1. e \in EntriesType /\ Sound(e)
  BY RemoveIfExpiredType, RemoveIfExpiredSound
<1>2. \/ pop(e0, key, side, now).entries = e
      \/ pop(e0, key, side, now).entries = Without(e, {key})
      \/ /\ e[key] # None /\ rest # <<>>
         /\ pop(e0, key, side, now).entries = f
  BY DEF pop, Quiet, Outcome
<1>3. ASSUME e[key] # None, rest # <<>>
      PROVE  Sound(f)
  <2>1. e[key] \in Entry /\ items # <<>>
    BY <1>1, <1>3, EntryAt DEF Sound, NoEmpty
  <2>2. WithinLimit(f)
    BY <1>1, <1>3, <2>1, LeftPoppedFits, RightPoppedFits DEF Sound
  <2>3. f[key].items = rest
    BY <1>1, <2>1 DEF Entry, EntriesType
  <2>4. \A k \in Keys \ {key} : f[k] = e[k]
    BY <1>1 DEF EntriesType
  <2>5. NoEmpty(f)
    BY <1>1, <1>3, <2>3, <2>4 DEF Sound, NoEmpty
  <2> QED BY <2>2, <2>5 DEF Sound
<1>4. Sound(Without(e, {key}))
  BY <1>1, WithoutSound
<1> HIDE DEF e, rest, f
<1> QED BY <1>1, <1>2, <1>3, <1>4

LEMMA RedatedSound ==
  ASSUME NEW e \in EntriesType, Sound(e), NEW key \in Keys, e[key] # None,
         NEW d \in Time \cup {None}
  PROVE  Sound([e EXCEPT ![key].expires_at = d])
<1> DEFINE f == [e EXCEPT ![key].expires_at = d]
<1>1. e[key] \in Entry
  BY EntryAt
<1>2. f[key].items = e[key].items
  BY <1>1 DEF Entry, EntriesType
<1>3. \A k \in Keys \ {key} : f[k] = e[k]
  BY DEF EntriesType
<1>4. NoEmpty(f)
  BY <1>2, <1>3 DEF Sound, NoEmpty
<1> QED BY <1>4, RedatedFits DEF Sound

LEMMA ExpireAtSound ==
  ASSUME NEW e0 \in EntriesType, Sound(e0), NEW key \in Keys, NEW expires_at \in Time, NEW now
  PROVE  Sound(expire_at(e0, key, expires_at, now).entries)
<1> DEFINE e == remove_if_expired(e0, key, now)
<1>1. e \in EntriesType /\ Sound(e)
  BY RemoveIfExpiredType, RemoveIfExpiredSound
<1>2. Sound(Without(e, {key}))
  BY <1>1, WithoutSound
<1>3. e[key] # None => Sound([e EXCEPT ![key].expires_at = expires_at])
  BY <1>1, RedatedSound
<1> QED BY <1>1, <1>2, <1>3 DEF expire_at, Quiet, Outcome

LEMMA PersistSound ==
  ASSUME NEW e0 \in EntriesType, Sound(e0), NEW key \in Keys, NEW now
  PROVE  Sound(persist(e0, key, now).entries)
<1> DEFINE e == remove_if_expired(e0, key, now)
<1>1. e \in EntriesType /\ Sound(e)
  BY RemoveIfExpiredType, RemoveIfExpiredSound
<1>2. e[key] # None => Sound([e EXCEPT ![key].expires_at = None])
  BY <1>1, RedatedSound
<1> QED BY <1>1, <1>2 DEF persist, Quiet, Outcome

LEMMA ExecuteSound ==
  ASSUME NEW e \in EntriesType, Sound(e), NEW c \in CommandSpace, NEW d \in Time, NEW n,
         NEW o \in Execute(e, c, d, n)
  PROVE  Sound(o.entries)
<1>1. Runs(e, c, d, n, o)
  BY ExecuteCases
<1>2. SideOf(c) \in Sides
  BY DEF SideOf, Sides
<1>3. CASE c.op \in {"GET", "DEL", "EXISTS", "TTL", "LRANGE", "STATS", "INSPECT", "CLEANUP"}
  BY <1>3, ReadsOnlyRemove, WithoutSound
<1>4. CASE c.op = "SET"
  BY <1>1, <1>4, CommandFields, SetSound DEF Runs
<1>5. CASE c.op \in {"EXPIRE", "EXPIREAT"}
  BY <1>1, <1>5, CommandFields, ExpireAtSound DEF Runs
<1>6. CASE c.op = "PERSIST"
  BY <1>1, <1>6, CommandFields, PersistSound DEF Runs
<1>7. CASE c.op \in {"LPUSH", "RPUSH"}
  BY <1>1, <1>2, <1>7, CommandFields, PushSound DEF Runs
<1>8. CASE c.op \in {"LPOP", "RPOP"}
  <2>1. c.key \in Keys
    BY <1>8, CommandFields
  <2>2. Sound(pop(e, c.key, SideOf(c), n).entries)
    BY <1>2, <2>1, PopSound
  <2> QED BY <1>1, <1>8, <2>2 DEF Runs
<1> QED BY <1>3, <1>4, <1>5, <1>6, <1>7, <1>8, CommandFields

----------------------------------------------------------------------------
(* What writes and the other commands do to each key.                      *)

LEMMA RepliesDiffer ==
  /\ Ok # OutOfMemory /\ WrongType # OutOfMemory /\ Ok # WrongType
  /\ \A x : Integer(x) # OutOfMemory /\ Integer(x) # WrongType
BY DEF Ok, OutOfMemory, WrongType, Integer

\* A write of `new` under `key` is undone, or done at the cost of other keys.
CommitUndone(e, o) == o.entries = e /\ o.reply = OutOfMemory
CommitDone(e, key, new, reply, o, victims) ==
  /\ o.entries = Without([e EXCEPT ![key] = new], victims)
  /\ o.reply = reply
  /\ victims # {} => Policy = "allkeys-random"

LEMMA CommitWriteCases ==
  ASSUME NEW e \in EntriesType, NEW key \in Keys, NEW new \in Entry, NEW reply,
         NEW o \in commit_write([e EXCEPT ![key] = new], key, e[key], reply)
  PROVE  \/ CommitUndone(e, o)
         \/ \E victims \in SUBSET (Keys \ {key}) : CommitDone(e, key, new, reply, o, victims)
<1> DEFINE e1 == [e EXCEPT ![key] = new]
<1>1. o \in commit_write(e1, key, e[key], reply)
  OBVIOUS
<1>2. restore_entry(e1, key, e[key]) = e
  BY DEF restore_entry, EntriesType
<1> HIDE DEF e1
<1>3. CASE enforce_memory_limit(e1, key) = {}
  BY <1>1, <1>2, <1>3 DEF commit_write, Outcome, CommitUndone
<1>4. CASE enforce_memory_limit(e1, key) # {}
  <2>1. PICK victims \in enforce_memory_limit(e1, key) :
          o.entries = Without(e1, victims) /\ o.reply = reply
    BY <1>1, <1>4 DEF commit_write, Outcome
  <2>2. victims \in SUBSET (Keys \ {key}) /\ (victims # {} => Policy = "allkeys-random")
    BY StoreAssumption DEF enforce_memory_limit, evict_until_within_limit, Present
  <2> QED BY <2>1, <2>2 DEF e1, CommitDone
<1> QED BY <1>3, <1>4

\* The entry a write leaves under its key, when `old` was there alive.
Written(c, old, new, reply) ==
  /\ c.op = "SET" => new.items = <<c.value>> /\ reply = Ok
  /\ c.op # "SET" =>
       /\ reply = Integer(Len(new.items))
       /\ new.expires_at = IF old = None THEN None ELSE old.expires_at

\* The two ways a write may end, from the key space e1 without the stale key.
WriteEnds(c, e1, o) ==
  \/ o.entries = e1 /\ o.reply \in {WrongType, OutOfMemory}
  \/ \E new \in Entry, victims \in SUBSET (Keys \ {c.key}) :
       /\ CommitDone(e1, c.key, new, o.reply, o, victims)
       /\ Written(c, e1[c.key], new, o.reply)

LEMMA SetEnds ==
  ASSUME NEW e \in EntriesType, NEW c \in CommandSpace, c.op = "SET", NEW n,
         NEW o \in set(e, c.key, c.value, n)
  PROVE  WriteEnds(c, remove_if_expired(e, c.key, n), o)
<1> DEFINE e1 == remove_if_expired(e, c.key, n)
           new == [type |-> "string", items |-> <<c.value>>, expires_at |-> None]
<1>1. e1 \in EntriesType /\ c.key \in Keys /\ c.value \in Values
  BY RemoveIfExpiredType, CommandFields
<1>2. new \in Entry /\ new.items = <<c.value>>
  BY <1>1 DEF Entry
<1>3. o \in commit_write([e1 EXCEPT ![c.key] = new], c.key, e1[c.key], Ok)
  BY DEF set
<1>4. Written(c, e1[c.key], new, Ok)
  BY <1>2 DEF Written
<1> HIDE DEF e1, new
<1>5. \/ CommitUndone(e1, o)
      \/ \E victims \in SUBSET (Keys \ {c.key}) : CommitDone(e1, c.key, new, Ok, o, victims)
  BY <1>1, <1>2, <1>3, CommitWriteCases
<1>6. WriteEnds(c, e1, o)
  BY <1>2, <1>4, <1>5 DEF WriteEnds, CommitUndone, CommitDone
<1> QED BY <1>6 DEF e1

LEMMA PushEnds ==
  ASSUME NEW e \in EntriesType, NEW c \in CommandSpace, c.op \in {"LPUSH", "RPUSH"}, NEW n,
         NEW o \in push(e, c.key, c.values, SideOf(c), n)
  PROVE  WriteEnds(c, remove_if_expired(e, c.key, n), o)
<1> DEFINE e1 == remove_if_expired(e, c.key, n)
           old == e1[c.key]
           list == IF old = None
                   THEN [type |-> "list", items |-> <<>>, expires_at |-> None]
                   ELSE old
           pushed == IF SideOf(c) = "left" THEN Reverse(c.values) \o list.items
                     ELSE list.items \o c.values
           new == [list EXCEPT !.items = pushed]
<1>1. e1 \in EntriesType /\ c.key \in Keys /\ c.values \in NonEmptySeq(Values)
      /\ SideOf(c) \in Sides
  BY RemoveIfExpiredType, CommandFields DEF SideOf, Sides
<1>2. list \in Entry /\ list.expires_at = IF old = None THEN None ELSE old.expires_at
  BY <1>1, EntryAt, EmptySeq DEF Entry
<1>3. pushed \in Seq(Values)
  BY <1>1, <1>2, EntryFields, PushedItems
<1>4. new \in Entry
  BY <1>2, <1>3, EntryFields
<1>5. new.items = pushed /\ new.expires_at = list.expires_at
  BY <1>2 DEF Entry
<1>6. \/ o = Quiet(e1, WrongType)
      \/ o \in commit_write([e1 EXCEPT ![c.key] = new], c.key, e1[c.key], Integer(Len(pushed)))
  BY DEF push
<1>7. Written(c, e1[c.key], new, Integer(Len(pushed)))
  BY <1>2, <1>5 DEF Written
<1> HIDE DEF e1, new, pushed, list, old
<1>8. ASSUME o = Quiet(e1, WrongType) PROVE WriteEnds(c, e1, o)
  BY <1>8 DEF WriteEnds, Quiet, Outcome
<1>9. ASSUME o \in commit_write([e1 EXCEPT ![c.key] = new], c.key, e1[c.key], Integer(Len(pushed)))
      PROVE  WriteEnds(c, e1, o)
  <2>1. \/ CommitUndone(e1, o)
        \/ \E victims \in SUBSET (Keys \ {c.key}) :
             CommitDone(e1, c.key, new, Integer(Len(pushed)), o, victims)
    BY <1>1, <1>4, <1>9, CommitWriteCases
  <2> QED BY <1>4, <1>7, <2>1 DEF WriteEnds, CommitUndone, CommitDone
<1>10. WriteEnds(c, e1, o)
  BY <1>6, <1>8, <1>9
<1> QED BY <1>10 DEF e1

LEMMA WritesEnd ==
  ASSUME NEW e \in EntriesType, NEW c \in CommandSpace, c.op \in Writes, NEW d, NEW n,
         NEW o \in Execute(e, c, d, n)
  PROVE  WriteEnds(c, remove_if_expired(e, c.key, n), o)
BY ExecuteCases, SetEnds, PushEnds DEF Runs, Writes

\* OutOfMemory means nothing happened, but for the stale key.
LEMMA RejectionRestores ==
  ASSUME NEW e \in EntriesType, NEW c \in CommandSpace, c.op \in Writes, NEW d, NEW n,
         NEW o \in Execute(e, c, d, n), o.reply = OutOfMemory
  PROVE  o.entries = remove_if_expired(e, c.key, n)
<1> DEFINE e1 == remove_if_expired(e, c.key, n)
<1>1. WriteEnds(c, e1, o)
  BY WritesEnd
<1>2. ASSUME NEW new \in Entry, Written(c, e1[c.key], new, o.reply) PROVE FALSE
  BY <1>2, RepliesDiffer DEF Written
<1> QED BY <1>1, <1>2 DEF WriteEnds

----------------------------------------------------------------------------
(* What the commands that do not write do to each key.                     *)

\* A key that is there with its old deadline, or rightly gone.
KeptOrGone(c, e, n, o, k) ==
  /\ o.entries[k] # None =>
       \/ o.entries[k].expires_at = e[k].expires_at
       \/ c.op \in {"EXPIRE", "EXPIREAT", "PERSIST"} /\ NamedKeys(c) = {k}
  /\ o.entries[k] = None =>
       \/ is_expired(e[k], n)
       \/ c.op \in Removers /\ k \in NamedKeys(c)

LEMMA RemovedKeptOrGone ==
  ASSUME NEW e \in EntriesType, NEW c, NEW n, NEW o, NEW k \in Keys, e[k] # None,
         NEW S, o.entries = Without(e, S),
         k \in S => is_expired(e[k], n) \/ (c.op \in Removers /\ k \in NamedKeys(c))
  PROVE  KeptOrGone(c, e, n, o, k)
BY DEF KeptOrGone, Without

LEMMA ReadsKeepOrDrop ==
  ASSUME NEW e \in EntriesType, NEW c \in CommandSpace, NEW d, NEW n,
         NEW o \in Execute(e, c, d, n), NEW k \in Keys, e[k] # None,
         c.op \in {"GET", "DEL", "EXISTS", "TTL", "LRANGE", "STATS", "INSPECT", "CLEANUP"}
  PROVE  KeptOrGone(c, e, n, o, k)
<1>1. Runs(e, c, d, n, o)
  BY ExecuteCases
<1>2. \A S \in SUBSET ExpiredKeys(e, n) :
        o.entries = Without(e, S) => KeptOrGone(c, e, n, o, k)
  <2>1. SUFFICES ASSUME NEW S \in SUBSET ExpiredKeys(e, n), o.entries = Without(e, S)
                 PROVE  KeptOrGone(c, e, n, o, k)
    OBVIOUS
  <2>2. k \in S => is_expired(e[k], n)
    BY DEF ExpiredKeys
  <2> QED BY <2>1, <2>2 DEF KeptOrGone, Without
<1>3. CASE c.op \in {"GET", "TTL", "LRANGE"}
  <2>1. o.entries = Without(e, {c.key} \cap ExpiredKeys(e, n))
    BY <1>1, <1>3 DEF Runs, get, ttl, lrange, Quiet, Outcome, remove_if_expired
  <2> QED BY <1>2, <2>1
<1>4. CASE c.op = "EXISTS"
  <2>1. o.entries = Without(e, ToSet(c.keys) \cap ExpiredKeys(e, n))
    BY <1>1, <1>4 DEF Runs, exists, Quiet, Outcome
  <2> QED BY <1>2, <2>1
<1>5. CASE c.op \in {"STATS", "INSPECT", "CLEANUP"}
  <2>1. \/ o.entries = Without(e, ExpiredKeys(e, n))
        \/ o.entries = Without(e, {})
    BY <1>1, <1>5 DEF Runs, stats, inspect_keys, cleanup_expired, Quiet, Outcome,
                      retain_unexpired, Without, EntriesType
  <2> QED BY <1>2, <2>1
<1>6. CASE c.op = "DEL"
  <2>1. o.entries = Without(e, ToSet(c.keys))
    BY <1>1, <1>6 DEF Runs, del, Quiet, Outcome
  <2>2. c.op \in Removers /\ NamedKeys(c) = ToSet(c.keys)
    BY <1>6 DEF Removers, NamedKeys
  <2> QED BY <2>1, <2>2, RemovedKeptOrGone
<1> QED BY <1>3, <1>4, <1>5, <1>6

\* The stale key aside, removing it changes no entry that is there.
LEMMA RemoveIfExpiredAt ==
  ASSUME NEW e, NEW key, NEW n, NEW k \in Keys, e[k] # None
  PROVE  /\ remove_if_expired(e, key, n)[k] \in {e[k], None}
         /\ remove_if_expired(e, key, n)[k] = None => is_expired(e[k], n)
BY DEF remove_if_expired, Without, ExpiredKeys

\* What an operation may do to the one key it names.
LEMMA OthersKeepOrDrop ==
  ASSUME NEW e \in EntriesType, NEW c \in CommandSpace, NEW d, NEW n,
         NEW o \in Execute(e, c, d, n), NEW k \in Keys, e[k] # None, c.op \notin Writes
  PROVE  KeptOrGone(c, e, n, o, k)
<1> DEFINE e1 == remove_if_expired(e, c.key, n)
<1>1. Runs(e, c, d, n, o)
  BY ExecuteCases
<1>2. e1 \in EntriesType /\ e1[k] \in {e[k], None} /\ (e1[k] = None => is_expired(e[k], n))
  BY RemoveIfExpiredType, RemoveIfExpiredAt
<1> HIDE DEF e1
<1>3. CASE c.op \in {"EXPIRE", "EXPIREAT", "PERSIST", "LPOP", "RPOP"}
  <2>1. NamedKeys(c) = {c.key} /\ c.key \in Keys
    BY <1>3, CommandFields DEF NamedKeys
  <2>2. CASE k # c.key
    <3>1. o.entries[k] = e1[k]
      <4>1. c.op \in {"EXPIRE", "EXPIREAT"} => o = expire_at(e, c.key, d, n)
        BY <1>1 DEF Runs
      <4>2. CASE c.op \in {"EXPIRE", "EXPIREAT"}
        BY <1>2, <2>2, <4>1, <4>2 DEF expire_at, Quiet, Outcome, Without, EntriesType, e1
      <4>3. CASE c.op = "PERSIST"
        BY <1>1, <1>2, <2>2, <4>3 DEF Runs, persist, Quiet, Outcome, EntriesType, e1
      <4>4. CASE c.op \in {"LPOP", "RPOP"}
        <5>1. o = pop(e, c.key, SideOf(c), n)
          BY <1>1, <4>4 DEF Runs
        <5>2. Without(e1, {c.key})[k] = e1[k]
          BY <2>2 DEF Without
        <5>3. \A items : [e1 EXCEPT ![c.key].items = items][k] = e1[k]
          BY <1>2, <2>2 DEF EntriesType
        <5> QED BY <5>1, <5>2, <5>3 DEF pop, Quiet, Outcome, e1
      <4> QED BY <1>3, <4>2, <4>3, <4>4
    <3> QED BY <1>2, <3>1 DEF KeptOrGone
  <2>3. CASE k = c.key /\ c.op \in {"EXPIRE", "EXPIREAT"}
    BY <2>1, <2>3 DEF KeptOrGone, Removers
  <2>4. CASE k = c.key /\ c.op \in {"LPOP", "RPOP"}
    <3>1. o = pop(e, k, SideOf(c), n)
      BY <1>1, <2>4 DEF Runs
    <3>2. o.entries[k] # None => o.entries[k].expires_at = e[k].expires_at
      <4>1. e1[k] = None => o.entries[k] = None
        BY <2>4, <3>1 DEF pop, Quiet, Outcome, e1
      <4>2. ASSUME e1[k] # None, o.entries[k] # None
            PROVE  o.entries[k].expires_at = e[k].expires_at
        <5>1. e1[k] \in Entry /\ e1[k] = e[k]
          BY <1>2, <4>2, EntryAt
        <5>2. \A items : [e1[k] EXCEPT !.items = items].expires_at = e[k].expires_at
          BY <5>1 DEF Entry
        <5> QED BY <1>2, <2>4, <3>1, <4>2, <5>1, <5>2
                DEF pop, Quiet, Outcome, Without, EntriesType, e1
      <4> QED BY <4>1, <4>2
    <3> QED BY <2>1, <2>4, <3>2 DEF KeptOrGone, Removers
  <2>5. CASE k = c.key /\ c.op = "PERSIST"
    <3>1. o = persist(e, k, n)
      BY <1>1, <2>5 DEF Runs
    <3>2. e1[k] # None => o.entries[k] # None
      <4>1. ASSUME e1[k] # None PROVE [e1[k] EXCEPT !.expires_at = None] \in Entry
        BY <1>2, <4>1, EntryAt DEF Entry
      <4> QED BY <1>2, <2>5, <3>1, <4>1, NoneAssumption
              DEF persist, Quiet, Outcome, EntriesType, e1
    <3> QED BY <1>2, <2>1, <2>5, <3>2 DEF KeptOrGone
  <2> QED BY <1>3, <2>2, <2>3, <2>4, <2>5
<1> QED BY <1>3, ReadsKeepOrDrop, CommandFields DEF Writes

----------------------------------------------------------------------------
(* What has expired is as good as missing.                                 *)

LEMMA RemovedTwice ==
  ASSUME NEW e \in EntriesType, NEW key, NEW n
  PROVE  remove_if_expired(remove_if_expired(e, key, n), key, n) = remove_if_expired(e, key, n)
BY DEF remove_if_expired, Without, ExpiredKeys, Present, is_expired, EntriesType

LEMMA WithoutNone ==
  ASSUME NEW e \in EntriesType
  PROVE  Without(e, {}) = e
BY DEF Without, EntriesType

\* The commands that begin with remove_if_expired see nothing else of the
\* key space they find.
LEMMA OneKeyCommands ==
  ASSUME NEW e, NEW f, NEW c, NEW d, NEW n,
         remove_if_expired(e, c.key, n) = remove_if_expired(f, c.key, n)
  PROVE  /\ set(e, c.key, c.value, n) = set(f, c.key, c.value, n)
         /\ get(e, c.key, n) = get(f, c.key, n)
         /\ expire_at(e, c.key, d, n) = expire_at(f, c.key, d, n)
         /\ ttl(e, c.key, n) = ttl(f, c.key, n)
         /\ persist(e, c.key, n) = persist(f, c.key, n)
         /\ push(e, c.key, c.values, SideOf(c), n) = push(f, c.key, c.values, SideOf(c), n)
         /\ pop(e, c.key, SideOf(c), n) = pop(f, c.key, SideOf(c), n)
         /\ lrange(e, c.key, c.start, c.stop, n) = lrange(f, c.key, c.start, c.stop, n)
<1>1. set(e, c.key, c.value, n) = set(f, c.key, c.value, n)
  BY Zenon DEF set
<1>2. get(e, c.key, n) = get(f, c.key, n)
  BY Zenon DEF get
<1>3. expire_at(e, c.key, d, n) = expire_at(f, c.key, d, n)
  BY Zenon DEF expire_at
<1>4. ttl(e, c.key, n) = ttl(f, c.key, n)
  BY Zenon DEF ttl
<1>5. persist(e, c.key, n) = persist(f, c.key, n)
  BY Zenon DEF persist
<1>6. push(e, c.key, c.values, SideOf(c), n) = push(f, c.key, c.values, SideOf(c), n)
  BY Zenon DEF push
<1>7. pop(e, c.key, SideOf(c), n) = pop(f, c.key, SideOf(c), n)
  BY Zenon DEF pop
<1>8. lrange(e, c.key, c.start, c.stop, n) = lrange(f, c.key, c.start, c.stop, n)
  BY Zenon DEF lrange
<1> QED BY <1>1, <1>2, <1>3, <1>4, <1>5, <1>6, <1>7, <1>8

\* DEL and EXISTS drop every key they name that has expired.
LEMMA DelWithoutStale ==
  ASSUME NEW e \in EntriesType, NEW keys \in NonEmptySeq(Keys), NEW n
  PROVE  del(Without(e, ToSet(keys) \cap ExpiredKeys(e, n)), keys, n) = del(e, keys, n)
<1> DEFINE S == ToSet(keys)
           f == Without(e, S \cap ExpiredKeys(e, n))
<1>1. Without(f, S) = Without(e, S)
  BY DEF Without
<1>2. S \cap (Present(f) \ ExpiredKeys(f, n)) = S \cap (Present(e) \ ExpiredKeys(e, n))
  BY DEF Without, Present, ExpiredKeys, is_expired
<1> QED BY <1>1, <1>2 DEF del

LEMMA ExistsWithoutStale ==
  ASSUME NEW e \in EntriesType, NEW keys \in NonEmptySeq(Keys), NEW n
  PROVE  exists(Without(e, ToSet(keys) \cap ExpiredKeys(e, n)), keys, n) = exists(e, keys, n)
<1> DEFINE S == ToSet(keys)
           f == Without(e, S \cap ExpiredKeys(e, n))
<1>1. Without(f, S \cap ExpiredKeys(f, n)) = f
  BY DEF Without, Present, ExpiredKeys, is_expired
<1> QED BY <1>1, Zenon DEF exists

LEMMA StaleIsMissing ==
  ASSUME NEW e \in EntriesType, NEW c \in CommandSpace, NEW d, NEW n
  PROVE  Execute(Without(e, NamedKeys(c) \cap ExpiredKeys(e, n)), c, d, n) = Execute(e, c, d, n)
<1> DEFINE f == Without(e, NamedKeys(c) \cap ExpiredKeys(e, n))
<1>1. CASE c.op \in {"STATS", "INSPECT", "CLEANUP"}
  <2>1. NamedKeys(c) \cap ExpiredKeys(e, n) = {}
    BY <1>1 DEF NamedKeys
  <2> QED BY <2>1, WithoutNone
<1>2. CASE c.op \in {"DEL", "EXISTS"}
  <2>1. c.keys \in NonEmptySeq(Keys)
    BY <1>2 DEF CommandSpace
  <2>2. NamedKeys(c) = ToSet(c.keys)
    BY <1>2 DEF NamedKeys
  <2>3. del(f, c.keys, n) = del(e, c.keys, n) /\ exists(f, c.keys, n) = exists(e, c.keys, n)
    BY <2>1, <2>2, DelWithoutStale, ExistsWithoutStale
  <2> HIDE DEF f
  <2>4. Execute(f, c, d, n) = Execute(e, c, d, n)
    BY <1>2, <2>3 DEF Execute
  <2> QED BY <2>4 DEF f
<1>3. CASE c.op \in {"SET", "GET", "EXPIRE", "EXPIREAT", "TTL", "PERSIST", "LPUSH", "RPUSH",
                     "LPOP", "RPOP", "LRANGE"}
  <2>1. NamedKeys(c) = {c.key}
    BY <1>3 DEF NamedKeys
  <2>2. f = remove_if_expired(e, c.key, n)
    BY <2>1 DEF remove_if_expired
  <2>3. remove_if_expired(f, c.key, n) = remove_if_expired(e, c.key, n)
    BY <2>2, RemovedTwice
  <2> HIDE DEF f
  <2>4. /\ set(f, c.key, c.value, n) = set(e, c.key, c.value, n)
        /\ get(f, c.key, n) = get(e, c.key, n)
        /\ expire_at(f, c.key, d, n) = expire_at(e, c.key, d, n)
        /\ ttl(f, c.key, n) = ttl(e, c.key, n)
        /\ persist(f, c.key, n) = persist(e, c.key, n)
        /\ push(f, c.key, c.values, SideOf(c), n) = push(e, c.key, c.values, SideOf(c), n)
        /\ pop(f, c.key, SideOf(c), n) = pop(e, c.key, SideOf(c), n)
        /\ lrange(f, c.key, c.start, c.stop, n) = lrange(e, c.key, c.start, c.stop, n)
    BY <2>3, OneKeyCommands
  <2>5. Execute(f, c, d, n) = Execute(e, c, d, n)
    BY <1>3, <2>4 DEF Execute
  <2> QED BY <2>5 DEF f
<1> QED BY <1>1, <1>2, <1>3, CommandFields


----------------------------------------------------------------------------
(* Running out of memory.                                                  *)

\* If no victim set is allowed, not even evicting everything else is enough:
\* otherwise a smallest set that is enough would be allowed.
LEMMA NothingElseHelps ==
  ASSUME NEW e \in EntriesType, NEW key \in Keys, Policy = "allkeys-random",
         enforce_memory_limit(e, key) = {}
  PROVE  ~WithinLimit(Without(e, Present(e) \ {key}))
<1> DEFINE others == Present(e) \ {key}
           enough == {S \in SUBSET others : WithinLimit(Without(e, S))}
<1>1. SUFFICES ASSUME WithinLimit(Without(e, others)) PROVE FALSE
  OBVIOUS
<1>2. ~WithinLimit(e) /\ evict_until_within_limit(e, key) = {}
  BY DEF enforce_memory_limit
<1>3. IsFiniteSet(others)
  BY ExpiredAreKeys, KeySetCount, FS_Subset
<1>4. others \in enough /\ enough \subseteq SUBSET others
  BY <1>1
<1>5. IsWellFoundedOn(StrictSubsetOrdering(others), SUBSET others)
  BY <1>3, FS_StrictSubsetOrderingWellFounded, FS_FiniteSubsetsOfFinite
<1> HIDE DEF others, enough
<1>6. PICK S \in enough : \A T \in enough : ~(<<T, S>> \in StrictSubsetOrdering(others))
  BY <1>4, <1>5, WFMin
<1>7. S \in SUBSET others /\ WithinLimit(Without(e, S))
  BY DEF enough
<1>8. PICK last \in S : TRUE
  BY <1>2, <1>7, WithoutNone
<1>9. ~WithinLimit(Without(e, S \ {last}))
  <2>1. S \ {last} \in SUBSET others /\ S \ {last} \subseteq S /\ S \ {last} # S
    BY <1>7
  <2>2. <<S \ {last}, S>> \in StrictSubsetOrdering(others)
    BY <1>7, <2>1 DEF StrictSubsetOrdering
  <2>3. S \ {last} \notin enough
    BY <1>6, <2>2
  <2> QED BY <2>1, <2>3 DEF enough
<1>10. S \in evict_until_within_limit(e, key)
  BY <1>7, <1>8, <1>9 DEF evict_until_within_limit, others
<1> QED BY <1>2, <1>10

\* The bytes of a list of payloads, each a pair of its position and a number.
PayloadCells(items, overhead) ==
  UNION {{i} \X (1..(ValueLen[items[i]] + overhead)) : i \in DOMAIN items}

\* What an entry takes: the overhead, its key and its payloads.
LEMMA EntryBytes ==
  ASSUME NEW key \in Keys, NEW x \in Entry, NEW overhead \in Nat,
         overhead = (IF x.type = "list" THEN ItemOverhead ELSE 0)
  PROVE  Cardinality(EntryFootprint(key, x))
           = EntryOverhead + KeyLen[key] + Cardinality(PayloadCells(x.items, overhead))
<1> DEFINE head == {<<key, 0>>} \X (1..(EntryOverhead + KeyLen[key]))
           body == UNION {{<<key, i>>} \X (1..ItemBytes(x, i)) : i \in DOMAIN x.items}
           cells == PayloadCells(x.items, overhead)
           f == [c \in body |-> <<c[1][2], c[2]>>]
<1>1. EntryFootprint(key, x) = head \cup body
  BY DEF EntryFootprint
<1>2. IsFiniteSet(head) /\ IsFiniteSet(body)
  BY <1>1, EntryFootprintFinite, FS_Subset
<1>3. Cardinality(head) = EntryOverhead + KeyLen[key]
  <2> DEFINE n == EntryOverhead + KeyLen[key]
  <2>1. n \in Nat
    BY StoreAssumption
  <2> HIDE DEF n
  <2>2. IsFiniteSet({<<key, 0>>}) /\ Cardinality({<<key, 0>>}) = 1
    BY FS_Singleton
  <2>3. IsFiniteSet(1..n) /\ Cardinality(1..n) = n
    BY <2>1, FS_Interval
  <2>4. Cardinality({<<key, 0>>} \X (1..n)) = Cardinality({<<key, 0>>}) * Cardinality(1..n)
    BY <2>2, <2>3, FS_Product
  <2>5. Cardinality({<<key, 0>>} \X (1..n)) = n
    BY <2>1, <2>2, <2>3, <2>4
  <2> QED BY <2>5 DEF n
<1>4. head \cap body = {}
  <2>1. DOMAIN x.items \subseteq Nat \ {0}
    BY EntryFields, LenProperties
  <2> QED BY <2>1
<1>5. \A i \in DOMAIN x.items : ItemBytes(x, i) = ValueLen[x.items[i]] + overhead
  BY DEF ItemBytes
<1>6. \A c \in body : \E i \in DOMAIN x.items : \E b \in 1..ItemBytes(x, i) : c = <<<<key, i>>, b>>
  OBVIOUS
<1>7. \A i \in DOMAIN x.items : \A b \in 1..ItemBytes(x, i) : <<<<key, i>>, b>> \in body
  OBVIOUS
<1>8. \A d : d \in cells <=> \E i \in DOMAIN x.items : \E b \in 1..ItemBytes(x, i) : d = <<i, b>>
  BY <1>5 DEF PayloadCells
<1>9. f \in Bijection(body, cells)
  <2> HIDE DEF body, cells
  <2>1. \A c \in body : f[c] \in cells
    BY <1>6, <1>8
  <2>2. \A c \in body, d \in body : f[c] = f[d] => c = d
    BY <1>6
  <2>3. ASSUME NEW d \in cells PROVE \E c \in body : f[c] = d
    <3>1. PICK i \in DOMAIN x.items : \E b \in 1..ItemBytes(x, i) : d = <<i, b>>
      BY <1>8
    <3>2. PICK b \in 1..ItemBytes(x, i) : d = <<i, b>>
      BY <3>1
    <3>3. <<<<key, i>>, b>> \in body /\ f[<<<<key, i>>, b>>] = d
      BY <1>7, <3>2
    <3> QED BY <3>3
  <2>4. f \in [body -> cells]
    BY <2>1
  <2> HIDE DEF f
  <2> QED BY <2>2, <2>3, <2>4 DEF Bijection, Injection, Surjection, IsInjective
<1> HIDE DEF head, body, cells, f
<1>10. Cardinality(cells) = Cardinality(body)
  BY <1>2, <1>9, FS_Bijection DEF ExistsBijection
<1>11. Cardinality(head \cup body)
         = Cardinality(head) + Cardinality(body) - Cardinality(head \cap body)
  BY <1>2, FS_Union
<1>12. Cardinality(head \cap body) = 0
  BY <1>4, FS_EmptySet
<1>13. Cardinality(head) \in Nat /\ Cardinality(body) \in Nat
  BY <1>2, FS_CardinalityType
<1>14. Cardinality(head \cup body) = Cardinality(head) + Cardinality(body)
  BY <1>11, <1>12, <1>13
<1> QED BY <1>1, <1>3, <1>10, <1>14 DEF cells

\* A refused write would not fit alone.
LEMMA RefusedAlone ==
  ASSUME NEW e \in EntriesType, NEW key \in Keys, NEW new \in Entry, NEW old, NEW reply,
         reply # OutOfMemory, Policy = "allkeys-random",
         NEW o \in commit_write([e EXCEPT ![key] = new], key, old, reply),
         o.reply = OutOfMemory
  PROVE  Cardinality(EntryFootprint(key, new)) > MaxMemory
<1> DEFINE e1 == [e EXCEPT ![key] = new]
           alone == Without(e1, Present(e1) \ {key})
<1>1. e1 \in EntriesType /\ e1[key] = new
  BY EntryUpdateType DEF EntriesType
<1>2. o \in commit_write(e1, key, old, reply)
  OBVIOUS
<1> HIDE DEF e1
<1>3. enforce_memory_limit(e1, key) = {}
  BY <1>2 DEF commit_write, Outcome
<1>4. ~WithinLimit(alone)
  BY <1>1, <1>3, NothingElseHelps
<1>5. Present(alone) = {key} /\ alone[key] = new
  BY <1>1, EntryFields DEF Present, Without
<1>6. alone \in EntriesType
  BY <1>1, WithoutType
<1> HIDE DEF alone
<1>7. Footprint(alone) = EntryFootprint(key, new)
  BY <1>5 DEF Footprint
<1>8. estimated_memory_bytes(alone) \in Nat
  BY <1>6, FootprintFinite
<1> QED BY <1>4, <1>7, <1>8, StoreAssumption DEF WithinLimit, estimated_memory_bytes

----------------------------------------------------------------------------
(* For the components that run the store's critical sections.              *)

\* A deadline is a time SystemTime can represent.
LEMMA ResolvedType ==
  ASSUME NEW base \in Time, NEW seconds \in Nat, NEW t \in Time
  PROVE  CheckedAddOr(base, seconds, t) \in Time
<1>1. seconds * TicksPerSecond \in Nat
  BY StoreAssumption
<1>2. base \in Nat /\ t \in Time
  BY StoreAssumption DEF Time
<1>3. base + seconds * TicksPerSecond \in Nat
  BY <1>1, <1>2
<1> QED BY <1>2, <1>3, StoreAssumption DEF CheckedAddOr, Time

LEMMA ZeroIsTime == 0 \in Time
BY StoreAssumption DEF Time

\* The key space the program starts with.
LEMMA NoKeysSound ==
  ASSUME NEW e, e = [k \in Keys |-> None]
  PROVE  e \in EntriesType /\ Sound(e)
<1>1. e \in EntriesType
  BY DEF EntriesType
<1>2. Present(e) = {}
  BY DEF Present
<1>3. WithinLimit(e)
  <2>1. Footprint(e) = {}
    BY <1>2 DEF Footprint
  <2>2. estimated_memory_bytes(e) = 0
    BY <2>1, FS_EmptySet DEF estimated_memory_bytes
  <2> QED BY <2>2, StoreAssumption DEF WithinLimit
<1> QED BY <1>1, <1>3 DEF Sound, NoEmpty

LEMMA ExecutedOK ==
  ASSUME NEW e \in EntriesType, Sound(e), NEW c \in CommandSpace, NEW d \in Time, NEW n,
         NEW o \in Execute(e, c, d, n)
  PROVE  o.entries \in EntriesType /\ Sound(o.entries)
<1>1. NoEmpty(e)
  BY DEF Sound
<1>2. o.entries \in EntriesType
  BY <1>1, ExecuteType DEF OutcomeOK
<1> QED BY <1>2, ExecuteSound

\* AERUGO.INSPECT answers with a sequence of rows, no more than it was asked for.
LEMMA InspectedRows ==
  ASSUME NEW e \in EntriesType, NEW limit \in Nat, NEW now
  PROVE  /\ inspect_keys(e, limit, now).reply[1] = "array"
         /\ \E m \in 0..limit : DOMAIN inspect_keys(e, limit, now).reply[2] = 1..m
<1> DEFINE e1 == retain_unexpired(e, now)
           n == Cardinality(Present(e1))
           sorted == SortedKeys(Present(e1))
           shown == {j \in 1..limit : j <= n}
           rows == [i \in shown |-> inspection(sorted[i], e1[sorted[i]], now)]
           m == IF n <= limit THEN n ELSE limit
<1>1. n \in Nat
  BY ExpiredAreKeys, KeySetCount
<1>2. inspect_keys(e, limit, now).reply = Array(IF limit = 0 THEN <<>> ELSE rows)
  BY DEF inspect_keys, Quiet, Outcome
<1>3. DOMAIN rows = shown
  OBVIOUS
<1> HIDE DEF n, rows
<1>4. shown = 1..m /\ m \in 0..limit
  BY <1>1
<1>5. DOMAIN <<>> = 1..0 /\ 0 \in 0..limit
  OBVIOUS
<1> HIDE DEF shown, m
<1>6. CASE limit = 0
  BY <1>2, <1>5, <1>6 DEF Array
<1>7. CASE limit # 0
  BY <1>2, <1>3, <1>4, <1>7 DEF Array
<1> QED BY <1>6, <1>7

=============================================================================
