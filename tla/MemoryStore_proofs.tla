-------------------------- MODULE MemoryStore_proofs ------------------------
(***************************************************************************)
(* Safety of MemoryStore.tla for any number of clients, any commands, keys *)
(* and payloads, any memory limit and both eviction policies; and that it  *)
(* implements AbstractCache.tla, by the mapping of StoreRefinement.tla.    *)
(*                                                                         *)
(* Inv is inductive.  None of its parts is so alone: a pop stays within    *)
(* the type only because no list is empty, and a deadline change, a        *)
(* rollback or an eviction stays within the limit only because entries     *)
(* have their type.                                                        *)
(*                                                                         *)
(* CountersExact is inductive only together with IdleCountsNothing: a task *)
(* that is not recording carries nothing, so a critical section adds what  *)
(* it brings about and Record moves it, neither overwriting anything.      *)
(*                                                                         *)
(* The heart of the refinement is EffectSimulated: what a critical section *)
(* computes is an effect the cache allows for the same command on the same *)
(* keys.  It is shown one command at a time, from the definitions of both. *)
(***************************************************************************)
EXTENDS StoreRefinement, StoreOps_proofs

Inv == TypeOK /\ MemoryBounded /\ NoEmptyList

----------------------------------------------------------------------------
(* Helpers.                                                                *)

LEMMA InvSound == Inv => entries \in EntriesType /\ Sound(entries)
BY DEF Inv, TypeOK, MemoryBounded, NoEmptyList, Sound, NoEmpty

LEMMA CommandsAreCommands == Commands_ \subseteq CommandSpace
BY TaskAssumption DEF Commands_, CommandSpace

LEMMA AddType ==
  ASSUME NEW c \in Counts, NEW d \in Counts
  PROVE  Add(c, d) \in Counts
<1>1. \A n \in Nat : n % CounterModulus \in Nat
  BY TaskAssumption
<1> QED BY <1>1 DEF Add, Counts

LEMMA EventsType ==
  ASSUME NEW c, NEW o
  PROVE  Events(c, o) \in Counts
<1>1. Gone(o) \in SUBSET Keys /\ (Gone(o) \ {c.key}) \in SUBSET Keys
  BY DEF Gone
<1> QED BY <1>1, KeySetCount DEF Events, Counts

\* A task that waits has a command, and one that is not idle too.
LEMMA WaitingCommand ==
  ASSUME TypeOK, NEW t \in Tasks, phase[t] # "idle"
  PROVE  cmd[t] \in CommandSpace
BY CommandsAreCommands DEF TypeOK

\* Every critical section is a step of Execute and of Finish.
LEMMA CriticalSectionExecutes ==
  ASSUME TypeOK, NEW t \in Tasks, CriticalSection(t)
  PROVE  /\ phase[t] = "waiting"
         /\ \E o \in Execute(entries, cmd[t], deadline[t], now[t]) : Finish(t, o)
<1>1. CASE Set(t)
  BY <1>1 DEF Set, Waiting, Execute
<1>2. CASE Get(t)
  BY <1>2 DEF Get, Waiting, Execute
<1>3. CASE Del(t)
  BY <1>3 DEF Del, Waiting, Execute
<1>4. CASE Exists(t)
  BY <1>4 DEF Exists, Waiting, Execute
<1>5. CASE ExpireAt(t)
  BY <1>5 DEF ExpireAt, Waiting, Execute
<1>6. CASE GetTtl(t)
  BY <1>6 DEF GetTtl, Waiting, Execute
<1>7. CASE Persist(t)
  BY <1>7 DEF Persist, Waiting, Execute
<1>8. CASE Push(t)
  BY <1>8 DEF Push, Waiting, Execute
<1>9. CASE Pop(t)
  BY <1>9 DEF Pop, Waiting, Execute
<1>10. CASE Lrange(t)
  BY <1>10 DEF Lrange, Waiting, Execute
<1>11. CASE Stats(t)
  BY <1>11 DEF Stats, Waiting, Execute
<1>12. CASE Inspect(t)
  BY <1>12 DEF Inspect, Waiting, Execute
<1>13. CASE CleanupExpired(t)
  BY <1>13 DEF CleanupExpired, Waiting, Execute
<1> QED BY <1>1, <1>2, <1>3, <1>4, <1>5, <1>6, <1>7, <1>8, <1>9, <1>10, <1>11, <1>12, <1>13
        DEF CriticalSection

----------------------------------------------------------------------------
(* Inv is an invariant.                                                    *)

LEMMA InitInv == Init => Inv
<1> SUFFICES ASSUME Init PROVE Inv
  OBVIOUS
<1>1. entries \in EntriesType
  BY DEF Init, EntriesType
<1>2. Zero \in Counts
  BY DEF Zero, Counts
<1>3. 0 \in Time /\ 0 \in 0..Horizon
  BY StoreAssumption, TaskAssumption DEF Time
<1>4. TypeOK
  BY <1>1, <1>2, <1>3 DEF Init, TypeOK, Phases
<1>5. Footprint(entries) = {}
  BY DEF Init, Footprint, Present
<1>6. MemoryBounded
  BY <1>5, FS_EmptySet, StoreAssumption
     DEF MemoryBounded, WithinLimit, estimated_memory_bytes
<1>7. NoEmptyList
  BY DEF Init, NoEmptyList
<1> QED BY <1>4, <1>6, <1>7 DEF Inv

LEMMA TickInv ==
  ASSUME Inv, Tick
  PROVE  Inv'
<1>1. clock' \in 0..Horizon
  BY TaskAssumption DEF Inv, TypeOK, Tick, Time
<1>2. TypeOK'
  BY <1>1 DEF Inv, TypeOK, Tick, taskVars
<1> QED BY <1>2 DEF Inv, Tick, MemoryBounded, NoEmptyList

\* The instants a call samples or resolves.
LEMMA ClockIsTime ==
  ASSUME TypeOK
  PROVE  clock \in Time
BY StoreAssumption, TaskAssumption DEF TypeOK, Time

LEMMA DeadlineIsTime ==
  ASSUME TypeOK, NEW seconds \in Nat
  PROVE  /\ expire_deadline(seconds, clock) \in Time
         /\ expire_at_unix_deadline(seconds, clock) \in Time
<1>1. seconds * TicksPerSecond \in Nat
  BY StoreAssumption
<1>2. \A base \in Nat : base + seconds * TicksPerSecond \in Nat
  BY <1>1
<1>3. clock \in Time /\ clock \in Nat
  BY ClockIsTime, StoreAssumption DEF Time
<1>4. \A base \in Nat : CheckedAddOr(base, seconds, clock) \in Time
  BY <1>2, <1>3, StoreAssumption DEF CheckedAddOr, Time
<1> QED BY <1>3, <1>4 DEF expire_deadline, expire_at_unix_deadline

LEMMA CommandsOfTasks ==
  ASSUME NEW t \in Tasks, NEW c \in CommandsOf(t)
  PROVE  c \in Commands_ /\ c \in CommandSpace /\ c # None
<1>1. c \in Commands_
  BY DEF CommandsOf, Commands_
<1>2. None \notin CommandSpace
  BY NoneAssumption
<1> QED BY <1>1, <1>2, CommandsAreCommands

LEMMA CallInv ==
  ASSUME Inv, NEW t \in Tasks, NEW c \in CommandsOf(t), Call(t, c) \/ CallExpire(t, c)
  PROVE  Inv'
<1>1. c \in Commands_ /\ c # None
  BY CommandsOfTasks
<1>2. CASE Call(t, c)
  <2>1. clock \in Time
    BY ClockIsTime DEF Inv
  <2>2. TypeOK'
    BY <1>1, <1>2, <2>1 DEF Inv, TypeOK, Call, Phases
  <2> QED BY <1>2, <2>2 DEF Inv, Call, MemoryBounded, NoEmptyList
<1>3. CASE CallExpire(t, c)
  <2>1. c.seconds \in Nat
    BY <1>3, CommandsOfTasks, CommandFields DEF CallExpire
  <2>2. deadline' \in [Tasks -> Time]
    BY <1>3, <2>1, DeadlineIsTime DEF Inv, TypeOK, CallExpire
  <2>3. now' \in [Tasks -> Time]
    BY <1>3, ClockIsTime DEF Inv, TypeOK, CallExpire
  <2>4. TypeOK'
    BY <1>1, <1>3, <2>2, <2>3 DEF Inv, TypeOK, CallExpire, Phases
  <2> QED BY <1>3, <2>4 DEF Inv, CallExpire, MemoryBounded, NoEmptyList
<1> QED BY <1>2, <1>3

LEMMA EnterExpireAtInv ==
  ASSUME Inv, NEW t \in Tasks, EnterExpireAt(t)
  PROVE  Inv'
<1>1. clock \in Time
  BY ClockIsTime DEF Inv
<1>2. TypeOK'
  BY <1>1 DEF Inv, TypeOK, EnterExpireAt, Phases
<1> QED BY <1>2 DEF Inv, EnterExpireAt, MemoryBounded, NoEmptyList

LEMMA CriticalSectionInv ==
  ASSUME Inv, NEW t \in Tasks, CriticalSection(t)
  PROVE  Inv'
<1>1. TypeOK /\ entries \in EntriesType /\ Sound(entries)
  BY InvSound DEF Inv
<1>2. phase[t] = "waiting"
  BY <1>1, CriticalSectionExecutes
<1>3. PICK o \in Execute(entries, cmd[t], deadline[t], now[t]) : Finish(t, o)
  BY <1>1, CriticalSectionExecutes
<1>4. cmd[t] \in CommandSpace /\ deadline[t] \in Time
  BY <1>1, <1>2, WaitingCommand DEF TypeOK
<1>5. OutcomeOK(o)
  BY <1>1, <1>4, ExecuteType DEF Sound
<1>6. Sound(o.entries)
  BY <1>1, <1>4, ExecuteSound
<1>7. happened' \in Counts
  BY <1>1, <1>3, AddType, EventsType DEF Finish, TypeOK
<1>8. TypeOK'
  <2>1. /\ entries' \in EntriesType /\ pending' \in [Tasks -> Counts]
        /\ phase' \in [Tasks -> Phases]
    BY <1>1, <1>3, <1>5 DEF Finish, OutcomeOK, TypeOK, Phases
  <2>2. /\ reply' = [u \in Tasks |-> reply'[u]]
        /\ \A u \in Tasks : reply'[u] # None => reply'[u][1] \in ReplyTags
    BY <1>1, <1>3, <1>5 DEF Finish, OutcomeOK, TypeOK
  <2>3. \A u \in Tasks : cmd'[u] = None <=> phase'[u] = "idle"
    BY <1>1, <1>2, <1>3 DEF Finish, TypeOK
  <2> QED BY <1>1, <1>3, <1>7, <2>1, <2>2, <2>3 DEF Finish, TypeOK
<1>9. MemoryBounded' /\ NoEmptyList'
  BY <1>3, <1>6 DEF Finish, Sound, NoEmpty, MemoryBounded, NoEmptyList
<1> QED BY <1>8, <1>9 DEF Inv

LEMMA RecordInv ==
  ASSUME Inv, NEW t \in Tasks, Record(t)
  PROVE  Inv'
<1>1. counters' \in Counts
  BY AddType DEF Inv, TypeOK, Record
<1>2. Zero \in Counts
  BY DEF Zero, Counts
<1>3. TypeOK'
  BY <1>1, <1>2 DEF Inv, TypeOK, Record, Phases
<1> QED BY <1>3 DEF Inv, Record, MemoryBounded, NoEmptyList

LEMMA ReadCountersInv ==
  ASSUME Inv, NEW t \in Tasks, ReadCounters(t)
  PROVE  Inv'
<1>1. <<"stats", reply[t][2], counters>>[1] \in ReplyTags
  BY DEF ReplyTags
<1>2. /\ reply' = [u \in Tasks |-> reply'[u]]
      /\ \A u \in Tasks : reply'[u] # None => reply'[u][1] \in ReplyTags
  BY <1>1 DEF Inv, TypeOK, ReadCounters
<1>3. TypeOK'
  BY <1>2 DEF Inv, TypeOK, ReadCounters, Phases
<1> QED BY <1>3 DEF Inv, ReadCounters, MemoryBounded, NoEmptyList

LEMMA ReturnInv ==
  ASSUME Inv, NEW t \in Tasks, Return(t)
  PROVE  Inv'
<1>1. 0 \in Time
  BY StoreAssumption DEF Time
<1>2. TypeOK'
  BY <1>1 DEF Inv, TypeOK, Return, Phases
<1> QED BY <1>2 DEF Inv, Return, MemoryBounded, NoEmptyList

LEMMA NextInv ==
  ASSUME Inv, [Next]_vars
  PROVE  Inv'
<1>1. CASE UNCHANGED vars
  BY <1>1 DEF Inv, vars, TypeOK, MemoryBounded, NoEmptyList
<1>2. CASE Next
  BY <1>2, TickInv, CallInv, EnterExpireAtInv, CriticalSectionInv, RecordInv,
     ReadCountersInv, ReturnInv DEF Next, Progress
<1> QED BY <1>1, <1>2

THEOREM Invariant == Spec => []Inv
<1>1. Inv /\ [Next]_vars => Inv'
  BY NextInv
<1> QED BY InitInv, <1>1, PTL DEF Spec

----------------------------------------------------------------------------
(* The theorems.                                                           *)

\* Store and calls keep their types, for every instance: no critical section
\* of storage.rs pops an empty list or stores a deadline SystemTime cannot
\* represent.
THEOREM TypeCorrect == Spec => []TypeOK
BY Invariant, PTL DEF Inv

\* Between critical sections the estimated memory never exceeds
\* max_memory_bytes: the claim of enforce_memory_limit and its callers.
THEOREM MemoryStaysBounded == Spec => []MemoryBounded
BY Invariant, PTL DEF Inv

\* No key ever holds an empty list: pop and the rollback of push see to it.
THEOREM NoListIsEmpty == Spec => []NoEmptyList
BY Invariant, PTL DEF Inv

\* A command that waited behind others finds a key of its own expired, at its
\* own time: for every command this comes out as if the key were not there.
THEOREM ExpiredCountsAsMissing == Spec => []ExpiredIsMissing
<1>1. Inv => ExpiredIsMissing
  <2> SUFFICES ASSUME Inv, NEW t \in Tasks, phase[t] = "waiting"
               PROVE  Execute(Without(entries, NamedKeys(cmd[t]) \cap ExpiredKeys(entries, now[t])),
                              cmd[t], deadline[t], now[t])
                        = Execute(entries, cmd[t], deadline[t], now[t])
    BY DEF ExpiredIsMissing
  <2>1. TypeOK /\ entries \in EntriesType
    BY InvSound DEF Inv
  <2>2. cmd[t] \in CommandSpace
    BY <2>1, WaitingCommand
  <2> QED BY <2>1, <2>2, StaleIsMissing
<1> QED BY <1>1, Invariant, PTL

----------------------------------------------------------------------------
(* What a critical section may do: the action properties.                  *)

\* A task leaves "waiting" only through its critical section.
LEMMA ExecutingStep ==
  ASSUME TypeOK, Next, NEW t \in Tasks, Executing(t)
  PROVE  CriticalSection(t)
<1>1. \A u \in Tasks :
        EnterExpireAt(u) \/ Record(u) \/ ReadCounters(u) \/ Return(u) => phase'[t] = phase[t]
  BY DEF Executing, EnterExpireAt, Record, ReadCounters, Return, TypeOK
<1>2. \A u \in Tasks : \A c \in CommandsOf(u) :
        Call(u, c) \/ CallExpire(u, c) => phase'[t] = phase[t]
  BY DEF Executing, Call, CallExpire, TypeOK
<1>3. Tick => phase'[t] = phase[t]
  BY DEF Tick, taskVars
<1>4. \A u \in Tasks : CriticalSection(u) /\ u # t => phase'[t] = phase[t]
  BY CriticalSectionExecutes DEF Finish, TypeOK
<1> QED BY <1>1, <1>2, <1>3, <1>4 DEF Executing, Next, Progress

\* What is known of an executing task.
LEMMA Executes ==
  ASSUME Inv, Next, NEW t \in Tasks, Executing(t)
  PROVE  /\ entries \in EntriesType
         /\ cmd[t] \in CommandSpace
         /\ deadline[t] \in Time
         /\ \E o \in Execute(entries, cmd[t], deadline[t], now[t]) :
              Finish(t, o) /\ entries' = o.entries /\ reply'[t] = o.reply
<1>1. TypeOK /\ entries \in EntriesType
  BY InvSound DEF Inv
<1>2. cmd[t] \in CommandSpace /\ deadline[t] \in Time
  BY <1>1, WaitingCommand DEF Executing, TypeOK
<1>3. PICK o \in Execute(entries, cmd[t], deadline[t], now[t]) : Finish(t, o)
  BY <1>1, ExecutingStep, CriticalSectionExecutes
<1>4. entries' = o.entries /\ reply'[t] = o.reply
  BY <1>1, <1>3 DEF Finish, TypeOK
<1> QED BY <1>1, <1>2, <1>3, <1>4

LEMMA RejectionStep ==
  ASSUME Inv, Next, NEW t \in Tasks, Rejecting(t)
  PROVE  entries' = remove_if_expired(entries, cmd[t].key, now[t])
<1>1. cmd[t].op \in Writes /\ Executing(t) /\ reply'[t] = OutOfMemory
  BY DEF Rejecting, Waiting
<1>2. PICK o \in Execute(entries, cmd[t], deadline[t], now[t]) :
        entries' = o.entries /\ reply'[t] = o.reply
  BY <1>1, Executes
<1> QED BY <1>1, <1>2, Executes, RejectionRestores

\* A write answered OutOfMemory leaves no trace but the removal of its own key
\* when that had expired, whatever it replaced, extended or evicted before:
\* the rollbacks of set, push and evict_until_within_limit put all of it back.
THEOREM WritesRollBack == Spec => RejectedWriteRollsBack
<1>1. Inv /\ [Next]_vars =>
        [\A t \in Tasks : Rejecting(t) =>
           entries' = remove_if_expired(entries, cmd[t].key, now[t])]_vars
  BY RejectionStep
<1> QED BY <1>1, Invariant, PTL DEF Spec, RejectedWriteRollsBack

LEMMA StoredStep ==
  ASSUME Inv, Next, NEW t \in Tasks, Executing(t)
  PROVE  /\ (cmd[t].op = "SET" /\ reply'[t] = Ok) =>
              /\ entries'[cmd[t].key] # None
              /\ entries'[cmd[t].key].items = <<cmd[t].value>>
         /\ (cmd[t].op \in {"LPUSH", "RPUSH"} /\ reply'[t][1] = "int") =>
              /\ entries'[cmd[t].key] # None
              /\ Len(entries'[cmd[t].key].items) = reply'[t][2]
<1> DEFINE c == cmd[t]
           e1 == remove_if_expired(entries, c.key, now[t])
<1>1. SUFFICES ASSUME \/ c.op = "SET" /\ reply'[t] = Ok
                      \/ c.op \in {"LPUSH", "RPUSH"} /\ reply'[t][1] = "int"
               PROVE  /\ entries'[c.key] # None
                      /\ c.op = "SET" => entries'[c.key].items = <<c.value>>
                      /\ c.op # "SET" => Len(entries'[c.key].items) = reply'[t][2]
  OBVIOUS
<1>2. PICK o \in Execute(entries, c, deadline[t], now[t]) :
        entries' = o.entries /\ reply'[t] = o.reply
  BY Executes
<1>3. c \in CommandSpace /\ c.op \in Writes /\ c.key \in Keys /\ entries \in EntriesType
  BY <1>1, Executes, CommandFields DEF Writes
<1>4. WriteEnds(c, e1, o)
  BY <1>2, <1>3, WritesEnd
<1>5. o.reply \notin {WrongType, OutOfMemory}
  BY <1>1, <1>2, RepliesDiffer DEF WrongType, OutOfMemory
<1>6. PICK new \in Entry, victims \in SUBSET (Keys \ {c.key}) :
        CommitDone(e1, c.key, new, o.reply, o, victims) /\ Written(c, e1[c.key], new, o.reply)
  BY <1>4, <1>5 DEF WriteEnds
<1>7. o.entries[c.key] = new
  BY <1>3, <1>6, RemoveIfExpiredType DEF CommitDone, Without, EntriesType
<1>8. new # None
  BY EntryFields
<1> QED BY <1>2, <1>6, <1>7, <1>8 DEF Written, Integer

\* The key of an acknowledged SET or push is there, with what was written, when
\* the critical section ends: commit never evicts the protected key.
THEOREM AcknowledgedWritesAreStored == Spec => AcknowledgedWriteIsStored
<1>1. Inv /\ [Next]_vars =>
        [\A t \in Tasks : Executing(t) =>
           /\ (cmd[t].op = "SET" /\ reply'[t] = Ok) =>
                /\ entries'[cmd[t].key] # None
                /\ entries'[cmd[t].key].items = <<cmd[t].value>>
           /\ (cmd[t].op \in {"LPUSH", "RPUSH"} /\ reply'[t][1] = "int") =>
                /\ entries'[cmd[t].key] # None
                /\ Len(entries'[cmd[t].key].items) = reply'[t][2]]_vars
  BY StoredStep
<1> QED BY <1>1, Invariant, PTL DEF Spec, AcknowledgedWriteIsStored

----------------------------------------------------------------------------
(* Deadlines.  A critical section works with a time that is past or        *)
(* present, so what it takes for expired has expired.                      *)

ReadingsArePast == \A t \in Tasks : now[t] <= clock

LEMMA InitPast == Init => ReadingsArePast
BY DEF Init, ReadingsArePast

LEMMA NextPast ==
  ASSUME Inv, ReadingsArePast, [Next]_vars
  PROVE  ReadingsArePast'
<1>1. clock \in Nat /\ now \in [Tasks -> Time] /\ Time \subseteq Nat
  BY TaskAssumption, StoreAssumption DEF Inv, TypeOK, Time
<1>2. CASE UNCHANGED vars
  BY <1>2 DEF vars, ReadingsArePast
<1>3. CASE Tick
  <2>1. \A t \in Tasks : now[t] \in Nat
    BY <1>1
  <2> QED BY <1>1, <1>3, <2>1 DEF Tick, taskVars, ReadingsArePast
<1>4. ASSUME NEW t \in Tasks, NEW c \in CommandsOf(t), Call(t, c) \/ CallExpire(t, c)
      PROVE  ReadingsArePast'
  BY <1>1, <1>4 DEF Call, CallExpire, ReadingsArePast
<1>5. ASSUME NEW t \in Tasks, CriticalSection(t) PROVE ReadingsArePast'
  BY <1>5, CriticalSectionExecutes DEF Inv, Finish, ReadingsArePast
<1>6. ASSUME NEW t \in Tasks,
             EnterExpireAt(t) \/ Record(t) \/ ReadCounters(t) \/ Return(t)
      PROVE  ReadingsArePast'
  BY <1>1, <1>6 DEF EnterExpireAt, Record, ReadCounters, Return, ReadingsArePast
<1> QED BY <1>2, <1>3, <1>4, <1>5, <1>6 DEF Next, Progress

LEMMA PastExpiration ==
  ASSUME Inv, ReadingsArePast, NEW t \in Tasks, NEW k \in Keys, entries[k] # None,
         is_expired(entries[k], now[t])
  PROVE  is_expired(entries[k], clock)
<1>1. clock \in Int /\ now[t] \in Int /\ now[t] <= clock
  BY TaskAssumption, StoreAssumption DEF Inv, TypeOK, ReadingsArePast, Time
<1>2. entries[k].expires_at # None => entries[k].expires_at \in Int
  BY EntryAt, EntryFields, StoreAssumption DEF Inv, TypeOK, Time
<1> QED BY <1>1, <1>2 DEF is_expired

\* Only critical sections change the key space.
LEMMA ChangesExecute ==
  ASSUME Inv, Next, entries' # entries
  PROVE  \E t \in Tasks : Executing(t)
<1>1. \A t \in Tasks : EnterExpireAt(t) \/ Record(t) \/ ReadCounters(t) \/ Return(t)
                        => entries' = entries
  BY DEF EnterExpireAt, Record, ReadCounters, Return
<1>2. \A t \in Tasks : \A c \in CommandsOf(t) :
        Call(t, c) \/ CallExpire(t, c) => entries' = entries
  BY DEF Call, CallExpire
<1>3. \A t \in Tasks : CriticalSection(t) => Executing(t)
  BY CriticalSectionExecutes DEF Inv, TypeOK, Executing, Finish
<1> QED BY <1>1, <1>2, <1>3 DEF Next, Progress, Tick

\* A write, seen from any key that was there.
LEMMA WriteKeepsOrDrops ==
  ASSUME NEW e \in EntriesType, NEW c \in CommandSpace, c.op \in Writes, NEW d, NEW n,
         NEW o \in Execute(e, c, d, n), NEW k \in Keys, e[k] # None, ~is_expired(e[k], n)
  PROVE  /\ o.entries[k] = None => k # c.key /\ Policy = "allkeys-random" /\ o.reply # OutOfMemory
         /\ o.entries[k] # None /\ o.entries[k].expires_at # e[k].expires_at =>
              k = c.key /\ c.op = "SET" /\ o.reply = Ok
<1> DEFINE e1 == remove_if_expired(e, c.key, n)
<1>1. e1 \in EntriesType /\ e1[k] = e[k] /\ c.key \in Keys
  BY RemoveIfExpiredType, RemoveIfExpiredAt, CommandFields DEF Writes
<1>2. WriteEnds(c, e1, o)
  BY WritesEnd
<1> HIDE DEF e1
<1>3. CASE o.entries = e1
  BY <1>1, <1>3
<1>4. ASSUME NEW new \in Entry, NEW victims \in SUBSET (Keys \ {c.key}),
             CommitDone(e1, c.key, new, o.reply, o, victims), Written(c, e1[c.key], new, o.reply)
      PROVE  /\ o.entries[k] = None =>
                  k # c.key /\ Policy = "allkeys-random" /\ o.reply # OutOfMemory
             /\ o.entries[k] # None /\ o.entries[k].expires_at # e[k].expires_at =>
                  k = c.key /\ c.op = "SET" /\ o.reply = Ok
  <2>1. o.reply # OutOfMemory
    BY <1>4, RepliesDiffer DEF Written
  <2>2. new # None
    BY EntryFields
  <2>3. CASE k = c.key
    <3>1. o.entries[k] = new
      BY <1>1, <1>4, <2>3 DEF CommitDone, Without, EntriesType
    <3>2. c.op # "SET" => new.expires_at = e[k].expires_at
      BY <1>1, <1>4, <2>3 DEF Written
    <3>3. c.op = "SET" => o.reply = Ok
      BY <1>4 DEF Written
    <3> QED BY <2>2, <2>3, <3>1, <3>2, <3>3
  <2>4. CASE k # c.key
    <3>1. o.entries[k] = IF k \in victims THEN None ELSE e[k]
      BY <1>1, <1>4, <2>4 DEF CommitDone, Without, EntriesType
    <3>2. k \in victims => Policy = "allkeys-random"
      BY <1>4 DEF CommitDone
    <3> QED BY <2>1, <2>4, <3>1, <3>2
  <2> QED BY <2>3, <2>4
<1> QED BY <1>2, <1>3, <1>4 DEF WriteEnds

LEMMA SurvivalStep ==
  ASSUME Inv, ReadingsArePast, Next, NEW k \in Keys, Live(k), entries'[k] = None
  PROVE  \E t \in Tasks : Executing(t) /\
           \/ cmd[t].op \in Removers /\ k \in NamedKeys(cmd[t])
           \/ /\ cmd[t].op \in Writes /\ k # cmd[t].key
              /\ Policy = "allkeys-random" /\ reply'[t] # OutOfMemory
<1>1. PICK t \in Tasks : Executing(t)
  BY ChangesExecute DEF Live
<1>2. PICK o \in Execute(entries, cmd[t], deadline[t], now[t]) :
        entries' = o.entries /\ reply'[t] = o.reply
  BY <1>1, Executes
<1>3. entries \in EntriesType /\ cmd[t] \in CommandSpace
  BY <1>1, Executes
<1>4. entries[k] # None /\ ~is_expired(entries[k], now[t])
  BY PastExpiration DEF Live
<1>5. CASE cmd[t].op \in Writes
  BY <1>1, <1>2, <1>3, <1>4, <1>5, WriteKeepsOrDrops
<1>6. CASE cmd[t].op \notin Writes
  <2>1. KeptOrGone(cmd[t], entries, now[t], o, k)
    BY <1>2, <1>3, <1>4, <1>6, OthersKeepOrDrop
  <2> QED BY <1>1, <1>2, <1>4, <2>1 DEF KeptOrGone
<1> QED BY <1>5, <1>6

\* A live key goes only by a command that names it or by eviction for another
\* key's write: lazy expiration and the sweep, which judge by a clock read
\* before the lock was granted, never take a key before its deadline.
THEOREM LiveKeysAreKept == Spec => LiveKeysSurvive
<1>1. Inv /\ ReadingsArePast /\ [Next]_vars =>
        [\A k \in Keys : Live(k) /\ entries'[k] = None =>
           \E t \in Tasks : Executing(t) /\
             \/ cmd[t].op \in Removers /\ k \in NamedKeys(cmd[t])
             \/ /\ cmd[t].op \in Writes /\ k # cmd[t].key
                /\ Policy = "allkeys-random" /\ reply'[t] # OutOfMemory]_vars
  BY SurvivalStep
<1>2. Inv /\ ReadingsArePast /\ [Next]_vars => ReadingsArePast'
  BY NextPast
<1> QED BY <1>1, <1>2, InitPast, Invariant, PTL DEF Spec, LiveKeysSurvive

LEMMA ProvenanceStep ==
  ASSUME Inv, ReadingsArePast, Next, NEW k \in Keys, entries[k] # None, entries'[k] # None,
         entries[k].expires_at # entries'[k].expires_at
  PROVE  \E t \in Tasks : Executing(t) /\ NamedKeys(cmd[t]) = {k} /\
           \/ cmd[t].op \in {"EXPIRE", "EXPIREAT", "PERSIST"}
           \/ cmd[t].op = "SET" /\ reply'[t] = Ok
           \/ cmd[t].op \in {"LPUSH", "RPUSH"} /\ is_expired(entries[k], clock)
<1>1. PICK t \in Tasks : Executing(t)
  BY ChangesExecute
<1>2. PICK o \in Execute(entries, cmd[t], deadline[t], now[t]) :
        entries' = o.entries /\ reply'[t] = o.reply
  BY <1>1, Executes
<1>3. entries \in EntriesType /\ cmd[t] \in CommandSpace
  BY <1>1, Executes
<1>4. CASE cmd[t].op \notin Writes
  <2>1. KeptOrGone(cmd[t], entries, now[t], o, k)
    BY <1>2, <1>3, <1>4, OthersKeepOrDrop
  <2> QED BY <1>1, <1>2, <2>1 DEF KeptOrGone
<1>5. CASE cmd[t].op \in Writes
  <2>1. NamedKeys(cmd[t]) = {cmd[t].key}
    BY <1>5 DEF NamedKeys, Writes
  <2>2. CASE ~is_expired(entries[k], now[t])
    BY <1>1, <1>2, <1>3, <1>5, <2>1, <2>2, WriteKeepsOrDrops
  <2>3. CASE is_expired(entries[k], now[t])
    <3>1. is_expired(entries[k], clock)
      BY <2>3, PastExpiration
    <3>2. WriteEnds(cmd[t], remove_if_expired(entries, cmd[t].key, now[t]), o)
      BY <1>2, <1>3, <1>5, WritesEnd
    <3>3. k = cmd[t].key /\ (cmd[t].op = "SET" => o.reply = Ok)
      <4> DEFINE e1 == remove_if_expired(entries, cmd[t].key, now[t])
      <4>1. e1 \in EntriesType /\ e1[k] \in {entries[k], None}
        BY <1>3, RemoveIfExpiredType, RemoveIfExpiredAt
      <4> HIDE DEF e1
      <4>2. o.entries # e1
        BY <1>2, <4>1
      <4>3. PICK new \in Entry, victims \in SUBSET (Keys \ {cmd[t].key}) :
              /\ CommitDone(e1, cmd[t].key, new, o.reply, o, victims)
              /\ Written(cmd[t], e1[cmd[t].key], new, o.reply)
        BY <3>2, <4>2 DEF WriteEnds, e1
      <4>4. k # cmd[t].key => o.entries[k] \in {e1[k], None}
        BY <4>1, <4>3 DEF CommitDone, Without, EntriesType
      <4> QED BY <1>2, <4>1, <4>3, <4>4 DEF Written
    <3> QED BY <1>1, <1>2, <1>5, <2>1, <3>1, <3>3 DEF Writes
  <2> QED BY <2>2, <2>3
<1> QED BY <1>4, <1>5

\* The deadline of a key that stays there is changed by nothing but EXPIRE,
\* EXPIREAT, PERSIST, an acknowledged SET or a push that found it expired: list
\* commands, rejected writes and other keys' commands keep it.
THEOREM DeadlinesHaveProvenance == Spec => DeadlineProvenance
<1>1. Inv /\ ReadingsArePast /\ [Next]_vars =>
        [\A k \in Keys :
           (entries[k] # None /\ entries'[k] # None
              /\ entries[k].expires_at # entries'[k].expires_at) =>
           \E t \in Tasks : Executing(t) /\ NamedKeys(cmd[t]) = {k} /\
             \/ cmd[t].op \in {"EXPIRE", "EXPIREAT", "PERSIST"}
             \/ cmd[t].op = "SET" /\ reply'[t] = Ok
             \/ cmd[t].op \in {"LPUSH", "RPUSH"} /\ is_expired(entries[k], clock)]_vars
  BY ProvenanceStep
<1>2. Inv /\ ReadingsArePast /\ [Next]_vars => ReadingsArePast'
  BY NextPast
<1> QED BY <1>1, <1>2, InitPast, Invariant, PTL DEF Spec, DeadlineProvenance

----------------------------------------------------------------------------
(* Refused writes.                                                         *)

LEMMA RefusedStep ==
  ASSUME Inv, Next, NEW t \in Tasks, Rejecting(t), Policy = "allkeys-random"
  PROVE  WrittenBytes(t) > MaxMemory
<1> DEFINE c == cmd[t]
           e == remove_if_expired(entries, c.key, now[t])
           old == IF e[c.key] = None THEN <<>> ELSE e[c.key].items
           items == IF c.op = "SET" THEN <<c.value>>
                    ELSE IF SideOf(c) = "left" THEN Reverse(c.values) \o old
                    ELSE old \o c.values
           overhead == IF c.op = "SET" THEN 0 ELSE ItemOverhead
<1>1. c.op \in Writes /\ Executing(t) /\ reply'[t] = OutOfMemory
  BY DEF Rejecting, Waiting
<1>2. PICK o \in Execute(entries, c, deadline[t], now[t]) : o.reply = OutOfMemory
  BY <1>1, Executes
<1>3. c \in CommandSpace /\ c.key \in Keys /\ entries \in EntriesType
  BY <1>1, Executes, CommandFields DEF Writes
<1>4. Runs(entries, c, deadline[t], now[t], o)
  BY <1>2, <1>3, ExecuteCases
<1>5. e \in EntriesType
  BY <1>3, RemoveIfExpiredType
<1>6. WrittenBytes(t) = EntryOverhead + KeyLen[c.key] + Cardinality(PayloadCells(items, overhead))
  BY DEF WrittenBytes, PayloadCells
<1>7. overhead \in Nat
  BY StoreAssumption
<1>8. CASE c.op = "SET"
  <2> DEFINE new == [type |-> "string", items |-> <<c.value>>, expires_at |-> None]
  <2>1. c.value \in Values
    BY <1>3, <1>8, CommandFields
  <2>2. new \in Entry /\ new.items = items /\ overhead = IF new.type = "list" THEN ItemOverhead ELSE 0
    BY <1>8, <2>1 DEF Entry
  <2>3. o \in commit_write([e EXCEPT ![c.key] = new], c.key, e[c.key], Ok)
    BY <1>4, <1>8 DEF Runs, set
  <2> HIDE DEF new, e, items, overhead
  <2>4. Cardinality(EntryFootprint(c.key, new)) > MaxMemory
    BY <1>2, <1>3, <1>5, <2>2, <2>3, RefusedAlone, RepliesDiffer
  <2>5. Cardinality(EntryFootprint(c.key, new))
          = EntryOverhead + KeyLen[c.key] + Cardinality(PayloadCells(new.items, overhead))
    BY <1>3, <1>7, <2>2, EntryBytes
  <2> QED BY <1>6, <2>2, <2>4, <2>5
<1>9. CASE c.op \in {"LPUSH", "RPUSH"}
  <2> DEFINE list == IF e[c.key] = None
                     THEN [type |-> "list", items |-> <<>>, expires_at |-> None]
                     ELSE e[c.key]
             new == [list EXCEPT !.items = items]
  <2>1. c.values \in NonEmptySeq(Values) /\ SideOf(c) \in Sides
    BY <1>3, <1>9, CommandFields DEF SideOf, Sides
  <2>2. list \in Entry /\ list.items = old
    BY <1>3, <1>5, EntryAt, EmptySeq DEF Entry
  <2>3. items = IF SideOf(c) = "left" THEN Reverse(c.values) \o list.items ELSE list.items \o c.values
    BY <1>9, <2>2
  <2>4. items \in Seq(Values)
    <3>1. list.items \in Seq(Values)
      BY <2>2, EntryFields
    <3> QED BY <2>1, <2>3, <3>1, PushedItems
  <2>5. new \in Entry /\ new.items = items /\ new.type = list.type
    <3>1. new \in Entry
      BY <2>2, <2>4, EntryFields
    <3>2. list = [type |-> list.type, items |-> list.items, expires_at |-> list.expires_at]
      BY <2>2 DEF Entry
    <3> HIDE DEF list, items
    <3> QED BY <3>1, <3>2
  <2>6. /\ list.type = "list"
        /\ o \in commit_write([e EXCEPT ![c.key] = new], c.key, e[c.key], Integer(Len(items)))
    <3>1. o \in push(entries, c.key, c.values, SideOf(c), now[t])
      BY <1>4, <1>9 DEF Runs
    <3>2. Quiet(e, WrongType).reply = WrongType /\ WrongType # OutOfMemory
      BY RepliesDiffer DEF Quiet, Outcome
    <3>3. o # Quiet(e, WrongType)
      BY <1>2, <3>2
    <3> QED BY <2>3, <3>1, <3>3 DEF push
  <2>7. overhead = IF new.type = "list" THEN ItemOverhead ELSE 0
    BY <1>9, <2>5, <2>6
  <2> HIDE DEF new, e, items, overhead, list
  <2>8. Cardinality(EntryFootprint(c.key, new)) > MaxMemory
    BY <1>2, <1>3, <1>5, <2>5, <2>6, RefusedAlone, RepliesDiffer
  <2>9. Cardinality(EntryFootprint(c.key, new))
          = EntryOverhead + KeyLen[c.key] + Cardinality(PayloadCells(new.items, overhead))
    BY <1>3, <1>7, <2>5, <2>7, EntryBytes
  <2> QED BY <1>6, <2>5, <2>8, <2>9
<1> QED BY <1>1, <1>8, <1>9 DEF Writes

\* A write that allkeys-random refuses would not fit into an otherwise empty
\* store: evict_until_within_limit gives up only when nothing is left to evict.
THEOREM OnlyHopelessWritesAreRejected == Spec => RejectedOnlyWhenHopeless
<1>1. Inv /\ [Next]_vars =>
        [\A t \in Tasks : Rejecting(t) /\ Policy = "allkeys-random" =>
           WrittenBytes(t) > MaxMemory]_vars
  BY RefusedStep
<1> QED BY <1>1, Invariant, PTL DEF Spec, RejectedOnlyWhenHopeless

----------------------------------------------------------------------------
(* The counters: wrapping.                                                 *)

LEMMA DivModSum ==
  ASSUME NEW m \in Int, m > 0, NEW a \in Int
  PROVE  a = m * (a \div m) + (a % m)
OBVIOUS

LEMMA DivMod ==
  ASSUME NEW m \in Int, m > 0, NEW a \in Int
  PROVE  /\ a \div m \in Int
         /\ a % m \in 0..(m - 1)
         /\ a = m * (a \div m) + (a % m)
<1>1. a \div m \in Int /\ a % m \in 0..(m - 1)
  OBVIOUS
<1> QED BY <1>1, DivModSum

LEMMA ModUnique ==
  ASSUME NEW m \in Int, m > 0, NEW q \in Int, NEW r \in 0..(m - 1), NEW a \in Int,
         a = m * q + r
  PROVE  a % m = r
OBVIOUS

\* Wrapping early or late is the same.
LEMMA ModPlus ==
  ASSUME NEW m \in Int, m > 0, NEW a \in Int, NEW b \in Int
  PROVE  ((a % m) + b) % m = (a + b) % m
<1> DEFINE q == a \div m
           r == a % m
           p == (r + b) \div m
           s == (r + b) % m
<1>1. q \in Int /\ r \in 0..(m - 1) /\ a = m * q + r
  BY DivMod
<1>2. r + b \in Int
  BY <1>1
<1> HIDE DEF q, r
<1>3. p \in Int /\ s \in 0..(m - 1) /\ r + b = m * p + s
  BY <1>2, DivMod
<1> HIDE DEF p, s
<1>4. m * (q + p) = m * q + m * p /\ m * q \in Int /\ m * p \in Int
  BY <1>1, <1>3
<1>5. a + b = m * (q + p) + s /\ q + p \in Int /\ a + b \in Int
  BY <1>1, <1>3, <1>4
<1>6. (a + b) % m = s
  <2> DEFINE x == a + b
             y == q + p
  <2>1. x = m * y + s /\ y \in Int /\ x \in Int /\ s \in 0..(m - 1)
    BY <1>3, <1>5
  <2> HIDE DEF x, y
  <2>2. x % m = s
    BY <2>1, ModUnique
  <2> QED BY <2>2 DEF x
<1> QED BY <1>6 DEF s, r

\* A sum that wraps; adding to one that has wrapped is adding before.
WrapSum(a, b, m) == (a + b) % m

LEMMA WrapSwap ==
  ASSUME NEW m \in Int, m > 0, NEW a \in Int, NEW b \in Int, NEW c \in Int
  PROVE  WrapSum(WrapSum(a, c, m), b, m) = WrapSum(a, b + c, m)
<1> DEFINE s == a + c
<1>1. s \in Int /\ s + b = a + (b + c)
  OBVIOUS
<1> HIDE DEF s
<1>2. ((s % m) + b) % m = (s + b) % m
  BY <1>1, ModPlus
<1>3. (((a + c) % m) + b) % m = (s + b) % m
  BY <1>2 DEF s
<1> QED BY <1>1, <1>3 DEF WrapSum

----------------------------------------------------------------------------
(* The counters: what tasks carry.                                         *)

Kinds == {"expired", "evicted", "rejected"}

LEMMA TasksFinite == IsFiniteSet(Tasks)
BY TaskAssumption, FS_AddElement DEF Tasks

LEMMA CellsCount ==
  ASSUME NEW x, NEW n \in Nat
  PROVE  IsFiniteSet({x} \X (1..n)) /\ Cardinality({x} \X (1..n)) = n
<1>1. IsFiniteSet({x}) /\ Cardinality({x}) = 1
  BY FS_Singleton
<1>2. IsFiniteSet(1..n) /\ Cardinality(1..n) = n
  BY FS_Interval
<1>3. /\ IsFiniteSet({x} \X (1..n))
      /\ Cardinality({x} \X (1..n)) = Cardinality({x}) * Cardinality(1..n)
  BY <1>1, <1>2, FS_Product
<1>4. Cardinality({x}) * Cardinality(1..n) = n
  BY <1>1, <1>2
<1> QED BY <1>3, <1>4

LEMMA ToCountFinite ==
  ASSUME NEW p \in [Tasks -> Counts], NEW f \in Kinds, NEW T \in SUBSET Tasks
  PROVE  IsFiniteSet(ToCount(p, f, T)) /\ Cardinality(ToCount(p, f, T)) \in Nat
<1> DEFINE g == [t \in T |-> {t} \X (1..p[t][f])]
<1>1. IsFiniteSet(T)
  BY TasksFinite, FS_Subset
<1>2. \A t \in T : p[t][f] \in Nat
  BY DEF Kinds, Counts
<1>3. \A t \in T : IsFiniteSet(g[t])
  BY <1>2, CellsCount
<1>4. g = [t \in T |-> g[t]]
  OBVIOUS
<1>5. ToCount(p, f, T) = UNION {g[t] : t \in T}
  BY DEF ToCount
<1> HIDE DEF g
<1>6. IsFiniteSet(ToCount(p, f, T))
  BY <1>1, <1>3, <1>4, <1>5, FiniteFamily
<1> QED BY <1>6, FS_CardinalityType

\* What all carry is what one carries and what the others do.
LEMMA ToCountSplit ==
  ASSUME NEW p \in [Tasks -> Counts], NEW f \in Kinds, NEW T \in SUBSET Tasks, NEW t \in T
  PROVE  Cardinality(ToCount(p, f, T)) = Cardinality(ToCount(p, f, T \ {t})) + p[t][f]
<1> DEFINE own == {t} \X (1..p[t][f])
           rest == ToCount(p, f, T \ {t})
<1>1. p[t][f] \in Nat
  BY DEF Kinds, Counts
<1>2. IsFiniteSet(own) /\ Cardinality(own) = p[t][f]
  BY <1>1, CellsCount
<1>3. IsFiniteSet(rest) /\ Cardinality(rest) \in Nat
  BY ToCountFinite
<1>4. ToCount(p, f, T) = rest \cup own /\ rest \cap own = {}
  BY DEF ToCount
<1> HIDE DEF own, rest
<1>5. Cardinality(rest \cup own) = Cardinality(rest) + Cardinality(own) - Cardinality(rest \cap own)
  BY <1>2, <1>3, FS_Union
<1>6. Cardinality(rest \cap own) = 0
  BY <1>4, FS_EmptySet
<1> QED BY <1>1, <1>2, <1>3, <1>4, <1>5, <1>6 DEF rest

\* Only task t's load changes.
LEMMA ToCountMoves ==
  ASSUME NEW p \in [Tasks -> Counts], NEW q \in [Tasks -> Counts], NEW f \in Kinds,
         NEW t \in Tasks, \A u \in Tasks \ {t} : q[u] = p[u]
  PROVE  Cardinality(ToCount(q, f, Tasks)) + p[t][f]
           = Cardinality(ToCount(p, f, Tasks)) + q[t][f]
<1>1. ToCount(q, f, Tasks \ {t}) = ToCount(p, f, Tasks \ {t})
  BY DEF ToCount
<1>2. /\ Cardinality(ToCount(q, f, Tasks)) = Cardinality(ToCount(q, f, Tasks \ {t})) + q[t][f]
      /\ Cardinality(ToCount(p, f, Tasks)) = Cardinality(ToCount(p, f, Tasks \ {t})) + p[t][f]
  BY ToCountSplit
<1>3. Cardinality(ToCount(p, f, Tasks \ {t})) \in Nat /\ p[t][f] \in Nat /\ q[t][f] \in Nat
  BY ToCountFinite DEF Kinds, Counts
<1> QED BY <1>1, <1>2, <1>3

----------------------------------------------------------------------------
(* The counters: what a critical section brings about is what it counts.   *)

Pending(expired, evicted, rejected) ==
  [expired |-> expired, evicted |-> evicted, rejected |-> rejected]

\* The keys gone from e.
LEMMA GoneWithout ==
  ASSUME NEW S \in SUBSET Present(entries), NEW o, o.entries = Without(entries, S)
  PROVE  Gone(o) = S
BY DEF Gone, Without, Present

LEMMA SweepCounts ==
  ASSUME NEW c, c.op \in {"CLEANUP", "STATS", "INSPECT"}, NEW n, NEW o,
         o.entries = retain_unexpired(entries, n), o.reply # OutOfMemory
  PROVE  Events(c, o) = Pending(Cardinality(ExpiredKeys(entries, n)), 0, 0)
<1>1. Gone(o) = ExpiredKeys(entries, n)
  BY GoneWithout DEF retain_unexpired, ExpiredKeys
<1> QED BY <1>1 DEF Events, Pending

LEMMA QuietCounts ==
  ASSUME NEW c, c.op \notin {"CLEANUP", "STATS", "INSPECT"} \cup Writes, NEW o,
         o.reply # OutOfMemory
  PROVE  Events(c, o) = Zero
BY DEF Events, Writes, Zero

\* A write evicts the victims it reports; a rejected one evicts none, and what
\* remove_if_expired took was its own key.
LEMMA CommitCounts ==
  ASSUME NEW c, c.op \in Writes, c.key \in Keys, NEW n, NEW new \in Entry, NEW r,
         r # OutOfMemory, entries \in EntriesType,
         NEW e, e = remove_if_expired(entries, c.key, n),
         NEW o \in commit_write([e EXCEPT ![c.key] = new], c.key, e[c.key], r)
  PROVE  Events(c, o) = o.pending
<1> DEFINE e1 == [e EXCEPT ![c.key] = new]
<1>1. /\ e \in EntriesType
      /\ \A k \in Keys \ {c.key} : e[k] = entries[k]
  BY RemoveIfExpiredType DEF remove_if_expired, Without
<1>2. e1 \in EntriesType /\ \A k \in Keys \ {c.key} : e1[k] = entries[k]
  BY <1>1 DEF EntriesType
<1>3. o \in commit_write(e1, c.key, e[c.key], r)
  OBVIOUS
<1>4. \A k \in Keys \ {c.key} : restore_entry(e1, c.key, e[c.key])[k] = entries[k]
  BY <1>2 DEF restore_entry, EntriesType
<1> HIDE DEF e1
<1>5. CASE enforce_memory_limit(e1, c.key) = {}
  <2>1. o = Outcome(restore_entry(e1, c.key, e[c.key]), OutOfMemory, 0, 0, 1)
    BY <1>3, <1>5 DEF commit_write
  <2>2. Gone(o) \ {c.key} = {}
    BY <1>4, <2>1 DEF Gone, Outcome
  <2>3. Cardinality(Gone(o) \ {c.key}) = 0
    BY <2>2, FS_EmptySet
  <2> QED BY <2>1, <2>3 DEF Events, Outcome, Writes
<1>6. CASE enforce_memory_limit(e1, c.key) # {}
  <2>1. PICK victims \in enforce_memory_limit(e1, c.key) :
          o = Outcome(Without(e1, victims), r, 0, Cardinality(victims), 0)
    BY <1>3, <1>6 DEF commit_write
  <2>2. victims \in SUBSET (Present(e1) \ {c.key})
    BY DEF enforce_memory_limit, evict_until_within_limit
  <2>3. Gone(o) \ {c.key} = victims
    BY <1>2, <2>1, <2>2 DEF Gone, Outcome, Without, Present
  <2> QED BY <2>1, <2>3 DEF Events, Outcome, Writes
<1> QED BY <1>5, <1>6

LEMMA SetCounts ==
  ASSUME entries \in EntriesType, NEW c \in CommandSpace, c.op = "SET", NEW n,
         NEW o \in set(entries, c.key, c.value, n)
  PROVE  Events(c, o) = o.pending
<1> DEFINE e == remove_if_expired(entries, c.key, n)
           new == [type |-> "string", items |-> <<c.value>>, expires_at |-> None]
<1>1. c.key \in Keys /\ c.value \in Values /\ c.op \in Writes
  BY CommandFields DEF Writes
<1>2. new \in Entry
  BY <1>1 DEF Entry
<1>3. o \in commit_write([e EXCEPT ![c.key] = new], c.key, e[c.key], Ok)
  BY DEF set
<1>4. e = remove_if_expired(entries, c.key, n)
  OBVIOUS
<1> HIDE DEF e, new
<1> QED BY <1>1, <1>2, <1>3, <1>4, RepliesDiffer, CommitCounts

LEMMA PushCounts ==
  ASSUME entries \in EntriesType, NEW c \in CommandSpace, c.op \in {"LPUSH", "RPUSH"}, NEW n,
         NEW o \in push(entries, c.key, c.values, SideOf(c), n)
  PROVE  Events(c, o) = o.pending
<1> DEFINE e == remove_if_expired(entries, c.key, n)
           old == e[c.key]
           list == IF old = None
                   THEN [type |-> "list", items |-> <<>>, expires_at |-> None]
                   ELSE old
           pushed == IF SideOf(c) = "left" THEN Reverse(c.values) \o list.items
                     ELSE list.items \o c.values
           new == [list EXCEPT !.items = pushed]
<1>1. e \in EntriesType /\ c.key \in Keys /\ c.values \in NonEmptySeq(Values)
      /\ SideOf(c) \in Sides /\ c.op \in Writes
  BY RemoveIfExpiredType, CommandFields DEF SideOf, Sides, Writes
<1>2. list \in Entry
  BY <1>1, EntryAt, EmptySeq DEF Entry
<1>3. new \in Entry
  BY <1>1, <1>2, EntryFields, PushedItems
<1>4. \/ o = Quiet(e, WrongType)
      \/ o \in commit_write([e EXCEPT ![c.key] = new], c.key, e[c.key], Integer(Len(pushed)))
  BY DEF push
<1>5. e = remove_if_expired(entries, c.key, n)
  OBVIOUS
<1> HIDE DEF e, new, pushed, list, old
<1>6. CASE o = Quiet(e, WrongType)
  <2>1. Gone(o) \ {c.key} = {}
    BY <1>5, <1>6 DEF Gone, Quiet, Outcome, remove_if_expired, Without
  <2>2. Cardinality(Gone(o) \ {c.key}) = 0
    BY <2>1, FS_EmptySet
  <2> QED BY <1>1, <1>6, <2>2, RepliesDiffer DEF Events, Quiet, Outcome, Writes
<1>7. CASE o \in commit_write([e EXCEPT ![c.key] = new], c.key, e[c.key], Integer(Len(pushed)))
  BY <1>1, <1>3, <1>5, <1>7, RepliesDiffer, CommitCounts
<1> QED BY <1>4, <1>6, <1>7

LEMMA ExecuteCounts ==
  ASSUME entries \in EntriesType, NEW c \in CommandSpace, NEW d, NEW n,
         NEW o \in Execute(entries, c, d, n)
  PROVE  Events(c, o) = o.pending
<1>1. Runs(entries, c, d, n, o)
  BY ExecuteCases
<1>2. CASE c.op = "SET"
  BY <1>1, <1>2, SetCounts DEF Runs
<1>3. CASE c.op \in {"LPUSH", "RPUSH"}
  BY <1>1, <1>3, PushCounts DEF Runs
<1>4. CASE c.op = "STATS"
  <2>1. o = stats(entries, n)
    BY <1>1, <1>4 DEF Runs
  <2>2. o.entries = retain_unexpired(entries, n) /\ o.reply # OutOfMemory
    BY <2>1 DEF stats, Outcome, OutOfMemory
  <2>3. o.pending = Pending(Cardinality(ExpiredKeys(entries, n)), 0, 0)
    BY <2>1 DEF stats, Outcome, Pending
  <2> QED BY <1>4, <2>2, <2>3, SweepCounts
<1>5. CASE c.op = "CLEANUP"
  <2>1. o = cleanup_expired(entries, n)
    BY <1>1, <1>5 DEF Runs
  <2>2. o.entries = retain_unexpired(entries, n) /\ o.reply # OutOfMemory
    BY <2>1, RepliesDiffer DEF cleanup_expired, Outcome
  <2>3. o.pending = Pending(Cardinality(ExpiredKeys(entries, n)), 0, 0)
    BY <2>1 DEF cleanup_expired, Outcome, Pending
  <2> QED BY <1>5, <2>2, <2>3, SweepCounts
<1>6. CASE c.op = "INSPECT"
  <2>1. o = inspect_keys(entries, c.limit, n)
    BY <1>1, <1>6 DEF Runs
  <2>2. CASE c.limit = 0
    <3>1. o.entries = entries /\ o.reply # OutOfMemory /\ o.pending = Zero
      BY <2>1, <2>2 DEF inspect_keys, Quiet, Outcome, Array, OutOfMemory, Zero
    <3>2. Gone(o) = {} /\ Cardinality({}) = 0
      BY <3>1, FS_EmptySet DEF Gone
    <3> QED BY <1>6, <3>1, <3>2 DEF Events, Zero
  <2>3. CASE c.limit # 0
    <3>1. o.entries = retain_unexpired(entries, n) /\ o.reply # OutOfMemory
      BY <2>1, <2>3 DEF inspect_keys, Outcome, Array, OutOfMemory
    <3>2. o.pending = Pending(Cardinality(ExpiredKeys(entries, n)), 0, 0)
      BY <2>1, <2>3 DEF inspect_keys, Outcome, Pending
    <3> QED BY <1>6, <3>1, <3>2, SweepCounts
  <2> QED BY <2>2, <2>3
<1>7. CASE c.op \in {"GET", "DEL", "EXISTS", "TTL", "LRANGE"}
  <2>1. o.pending = Zero /\ o.reply # OutOfMemory
    BY <1>1, <1>7 DEF Runs, get, del, exists, ttl, lrange, Quiet, Outcome, Zero, Null, Bulk,
       WrongType, Integer, Array, OutOfMemory
  <2> QED BY <1>7, <2>1, QuietCounts DEF Writes
<1>8. CASE c.op \in {"EXPIRE", "EXPIREAT"}
  <2>1. o = expire_at(entries, c.key, d, n)
    BY <1>1, <1>8 DEF Runs
  <2>2. o.pending = Zero /\ o.reply # OutOfMemory
    BY <2>1, RepliesDiffer DEF expire_at, Quiet, Outcome, Zero
  <2> QED BY <1>8, <2>2, QuietCounts DEF Writes
<1>9. CASE c.op = "PERSIST"
  <2>1. o = persist(entries, c.key, n)
    BY <1>1, <1>9 DEF Runs
  <2>2. o.pending = Zero /\ o.reply # OutOfMemory
    BY <2>1, RepliesDiffer DEF persist, Quiet, Outcome, Zero
  <2> QED BY <1>9, <2>2, QuietCounts DEF Writes
<1>10. CASE c.op \in {"LPOP", "RPOP"}
  <2>1. o = pop(entries, c.key, SideOf(c), n)
    BY <1>1, <1>10 DEF Runs
  <2>2. o.pending = Zero /\ o.reply # OutOfMemory
    BY <2>1 DEF pop, Quiet, Outcome, Zero, Null, Bulk, WrongType, OutOfMemory
  <2> QED BY <1>10, <2>2, QuietCounts DEF Writes
<1> QED BY <1>2, <1>3, <1>4, <1>5, <1>6, <1>7, <1>8, <1>9, <1>10, CommandFields

----------------------------------------------------------------------------
(* The counters: CountInv is an invariant.                                 *)

IdleCountsNothing == \A t \in Tasks : phase[t] # "recording" => pending[t] = Zero

CountInv == Inv /\ IdleCountsNothing /\ CountersExact

\* CountersExact, in a form the proofs work with.
Exact(f) == happened[f] = (counters[f] + Carried(f, Tasks)) % CounterModulus

LEMMA ExactIs == CountersExact <=> \A f \in Kinds : Exact(f)
BY DEF CountersExact, Exact, Kinds

LEMMA CountFacts ==
  ASSUME TypeOK, NEW f \in Kinds
  PROVE  /\ happened[f] \in Int /\ counters[f] \in Int
         /\ Carried(f, Tasks) \in Int
         /\ \A t \in Tasks : pending[t][f] \in Int
         /\ CounterModulus \in Int /\ CounterModulus > 0
<1>1. Carried(f, Tasks) \in Nat
  BY ToCountFinite DEF TypeOK, Carried
<1>2. happened[f] \in Nat /\ counters[f] \in Nat /\ \A t \in Tasks : pending[t][f] \in Nat
  BY DEF TypeOK, Counts, Kinds
<1> QED BY <1>1, <1>2, TaskAssumption

LEMMA AddAt ==
  ASSUME NEW c, NEW d, NEW f \in Kinds
  PROVE  Add(c, d)[f] = (c[f] + d[f]) % CounterModulus
BY DEF Add, Kinds

LEMMA ZeroAt ==
  ASSUME NEW f \in Kinds
  PROVE  Zero[f] = 0
BY DEF Zero, Kinds

LEMMA InitCount == Init => CountInv
<1> SUFFICES ASSUME Init PROVE CountInv
  OBVIOUS
<1>1. Inv
  BY InitInv
<1>2. IdleCountsNothing
  BY DEF Init, IdleCountsNothing
<1>3. ASSUME NEW f \in Kinds PROVE Exact(f)
  <2>1. happened[f] = 0 /\ counters[f] = 0 /\ \A t \in Tasks : pending[t][f] = 0
    BY ZeroAt DEF Init
  <2>2. ToCount(pending, f, Tasks) = {}
    BY <2>1 DEF ToCount
  <2>3. Carried(f, Tasks) = 0
    BY <2>2, FS_EmptySet DEF Carried
  <2>4. 0 % CounterModulus = 0
    BY TaskAssumption
  <2> QED BY <2>1, <2>3, <2>4 DEF Exact
<1> QED BY <1>1, <1>2, <1>3, ExactIs DEF CountInv

\* Only t's load changes, to d.
LEMMA LoadChanges ==
  ASSUME TypeOK, NEW t \in Tasks, NEW d \in Counts, pending' = [pending EXCEPT ![t] = d],
         NEW f \in Kinds
  PROVE  /\ Carried(f, Tasks)' + pending[t][f] = Carried(f, Tasks) + d[f]
         /\ Carried(f, Tasks)' \in Int
<1> DEFINE q == [pending EXCEPT ![t] = d]
<1>1. /\ pending \in [Tasks -> Counts] /\ q \in [Tasks -> Counts]
      /\ q[t] = d
      /\ \A u \in Tasks \ {t} : q[u] = pending[u]
  BY DEF TypeOK
<1>2. Carried(f, Tasks)' = Cardinality(ToCount(q, f, Tasks))
  BY DEF Carried, ToCount
<1> HIDE DEF q
<1>3. Cardinality(ToCount(q, f, Tasks)) + pending[t][f]
        = Cardinality(ToCount(pending, f, Tasks)) + q[t][f]
  BY <1>1, ToCountMoves
<1>4. Cardinality(ToCount(q, f, Tasks)) \in Nat
  BY <1>1, ToCountFinite
<1> QED BY <1>1, <1>2, <1>3, <1>4 DEF Carried

\* The critical section: what happened and what is carried grow by the same.
LEMMA CriticalSectionCount ==
  ASSUME CountInv, NEW t \in Tasks, CriticalSection(t)
  PROVE  CountInv'
<1>1. TypeOK /\ entries \in EntriesType /\ Sound(entries)
  BY InvSound DEF CountInv, Inv
<1>2. phase[t] = "waiting"
  BY <1>1, CriticalSectionExecutes
<1>3. PICK o \in Execute(entries, cmd[t], deadline[t], now[t]) : Finish(t, o)
  BY <1>1, CriticalSectionExecutes
<1>4. cmd[t] \in CommandSpace /\ deadline[t] \in Time
  BY <1>1, <1>2, WaitingCommand DEF TypeOK
<1>5. o.pending \in Counts /\ Events(cmd[t], o) = o.pending
  BY <1>1, <1>4, ExecuteType, ExecuteCounts DEF Sound, OutcomeOK
<1>6. Inv'
  BY CriticalSectionInv DEF CountInv
<1>7. pending[t] = Zero
  BY <1>2 DEF CountInv, IdleCountsNothing
<1>8. /\ pending' = [pending EXCEPT ![t] = o.pending]
      /\ counters' = counters
      /\ happened' = Add(happened, o.pending)
  BY <1>3, <1>5 DEF Finish
<1>9. IdleCountsNothing'
  <2>1. ASSUME NEW u \in Tasks, phase'[u] # "recording" PROVE pending'[u] = Zero
    BY <1>1, <1>3, <2>1 DEF CountInv, IdleCountsNothing, Finish, TypeOK
  <2> QED BY <2>1 DEF IdleCountsNothing
<1>10. ASSUME NEW f \in Kinds PROVE Exact(f)'
  <2> DEFINE C == counters[f]
             P == Carried(f, Tasks)
             d == o.pending[f]
             m == CounterModulus
  <2>1. happened[f] = (C + P) % m
    BY ExactIs DEF CountInv, Exact
  <2>2. C \in Int /\ P \in Int /\ m \in Int /\ m > 0
    BY <1>1, CountFacts
  <2>3. d \in Int
    BY <1>5 DEF Counts, Kinds
  <2>4. happened'[f] = (happened[f] + d) % m
    BY <1>8, AddAt
  <2>5. Carried(f, Tasks)' + pending[t][f] = P + d /\ Carried(f, Tasks)' \in Int
    BY <1>1, <1>5, <1>8, LoadChanges
  <2>6. pending[t][f] = 0
    BY <1>7, ZeroAt
  <2>7. Carried(f, Tasks)' = P + d
    BY <2>2, <2>3, <2>5, <2>6
  <2> HIDE DEF C, P, d, m
  <2>8. (((C + P) % m) + d) % m = (C + (d + P)) % m
    <3>1. WrapSum(WrapSum(C, P, m), d, m) = WrapSum(C, d + P, m)
      BY <2>2, <2>3, WrapSwap
    <3> QED BY <3>1 DEF WrapSum
  <2>9. C + (d + P) = C + (P + d)
    BY <2>2, <2>3
  <2>10. happened'[f] = (C + (P + d)) % m
    BY <2>1, <2>4, <2>8, <2>9
  <2> QED BY <1>8, <2>7, <2>10 DEF Exact, C, m
<1> QED BY <1>6, <1>9, <1>10 DEF CountInv, CountersExact, Exact, Kinds

\* Record: what the task carried moves into the counters.
LEMMA RecordCount ==
  ASSUME CountInv, NEW t \in Tasks, Record(t)
  PROVE  CountInv'
<1>1. TypeOK
  BY DEF CountInv, Inv
<1>2. Inv'
  BY RecordInv DEF CountInv
<1>3. Zero \in Counts
  BY DEF Zero, Counts
<1>4. /\ pending' = [pending EXCEPT ![t] = Zero]
      /\ counters' = Add(counters, pending[t])
      /\ happened' = happened
  BY DEF Record
<1>5. IdleCountsNothing'
  <2>1. ASSUME NEW u \in Tasks, phase'[u] # "recording" PROVE pending'[u] = Zero
    BY <1>1, <2>1 DEF CountInv, IdleCountsNothing, Record, TypeOK
  <2> QED BY <2>1 DEF IdleCountsNothing
<1>6. ASSUME NEW f \in Kinds PROVE Exact(f)'
  <2> DEFINE C == counters[f]
             P == Carried(f, Tasks)'
             d == pending[t][f]
             m == CounterModulus
  <2>1. happened[f] = (C + Carried(f, Tasks)) % m
    BY ExactIs DEF CountInv, Exact
  <2>2. C \in Int /\ d \in Int /\ Carried(f, Tasks) \in Int /\ m \in Int /\ m > 0
    BY <1>1, CountFacts
  <2>3. P + d = Carried(f, Tasks) + Zero[f] /\ P \in Int
    BY <1>1, <1>3, <1>4, LoadChanges
  <2>4. Zero[f] = 0
    BY ZeroAt
  <2>5. counters'[f] = (C + d) % m
    BY <1>4, AddAt
  <2> HIDE DEF C, P, d, m
  <2>6. C + Carried(f, Tasks) = C + (P + d) /\ C + (P + d) = (C + d) + P
    BY <2>2, <2>3, <2>4
  <2>7. (((C + d) % m) + P) % m = (C + (P + d)) % m
    <3>1. C \in Int /\ d \in Int /\ P \in Int /\ m \in Int /\ m > 0
      BY <2>2, <2>3
    <3>2. WrapSum(WrapSum(C, d, m), P, m) = WrapSum(C, P + d, m)
      BY <3>1, WrapSwap
    <3> QED BY <3>2 DEF WrapSum
  <2>8. happened'[f] = (counters'[f] + P) % m
    BY <1>4, <2>1, <2>5, <2>6, <2>7
  <2> QED BY <2>8 DEF Exact, P, m
<1> QED BY <1>2, <1>5, <1>6 DEF CountInv, CountersExact, Exact, Kinds

\* Everything else counts nothing.
LEMMA OthersCount ==
  ASSUME CountInv, Inv', UNCHANGED <<counters, pending, happened>>,
         \A t \in Tasks : phase'[t] # "recording" => phase[t] # "recording"
  PROVE  CountInv'
BY DEF CountInv, IdleCountsNothing, CountersExact, Carried

LEMMA NextCount ==
  ASSUME CountInv, [Next]_vars
  PROVE  CountInv'
<1>1. Inv /\ TypeOK /\ Inv'
  BY NextInv DEF CountInv, Inv
<1>2. CASE UNCHANGED vars
  BY <1>1, <1>2, OthersCount DEF vars
<1>3. CASE Tick
  BY <1>1, <1>3, OthersCount DEF Tick, taskVars
<1>4. ASSUME NEW t \in Tasks, NEW c \in CommandsOf(t), Call(t, c) \/ CallExpire(t, c)
      PROVE  CountInv'
  <2>1. UNCHANGED <<counters, pending, happened>>
    BY <1>4 DEF Call, CallExpire
  <2>2. \A u \in Tasks : phase'[u] # "recording" => phase[u] # "recording"
    BY <1>1, <1>4 DEF Call, CallExpire, TypeOK
  <2> QED BY <1>1, <2>1, <2>2, OthersCount
<1>5. ASSUME NEW t \in Tasks, EnterExpireAt(t) \/ ReadCounters(t) \/ Return(t)
      PROVE  CountInv'
  <2>1. UNCHANGED <<counters, pending, happened>>
    BY <1>5 DEF EnterExpireAt, ReadCounters, Return
  <2>2. \A u \in Tasks : phase'[u] # "recording" => phase[u] # "recording"
    BY <1>1, <1>5 DEF EnterExpireAt, ReadCounters, Return, TypeOK
  <2> QED BY <1>1, <2>1, <2>2, OthersCount
<1> QED BY <1>2, <1>3, <1>4, <1>5, CriticalSectionCount, RecordCount DEF Next, Progress

LEMMA CountInvariant == Spec => []CountInv
<1>1. CountInv /\ [Next]_vars => CountInv'
  BY NextCount
<1> QED BY InitCount, <1>1, PTL DEF Spec

----------------------------------------------------------------------------
(* The counters: the theorems.                                             *)

\* Updating the counters after the entries lock is dropped loses nothing and
\* counts nothing twice, for any number of tasks and however the counters
\* wrap: what was recorded plus what tasks carry is what happened.
THEOREM CountersAreExact == Spec => []CountersExact
BY CountInvariant, PTL DEF CountInv

LEMMA ReadingStep ==
  ASSUME CountInv, Next, NEW t \in Tasks, phase[t] = "reading", phase'[t] = "replying"
  PROVE  \A f \in Kinds :
           happened[f] = (reply'[t][3][f] + Carried(f, Tasks \ {t})) % CounterModulus
<1>1. TypeOK
  BY DEF CountInv, Inv
<1>2. ReadCounters(t)
  <2>1. \A u \in Tasks :
          EnterExpireAt(u) \/ Record(u) \/ Return(u) => phase'[t] = phase[t] \/ phase'[t] = "idle"
    BY <1>1 DEF EnterExpireAt, Record, Return, TypeOK
  <2>2. \A u \in Tasks : \A c \in CommandsOf(u) : Call(u, c) \/ CallExpire(u, c) => phase'[t] = phase[t]
    BY <1>1 DEF Call, CallExpire, TypeOK
  <2>3. Tick => phase'[t] = phase[t]
    BY DEF Tick, taskVars
  <2>4. \A u \in Tasks : CriticalSection(u) => phase'[t] = phase[t]
    BY <1>1, CriticalSectionExecutes DEF Finish, TypeOK
  <2>5. \A u \in Tasks : ReadCounters(u) /\ u # t => phase'[t] = phase[t]
    BY <1>1 DEF ReadCounters, TypeOK
  <2> QED BY <2>1, <2>2, <2>3, <2>4, <2>5 DEF Next, Progress
<1>3. reply'[t][3] = counters
  BY <1>1, <1>2 DEF ReadCounters, TypeOK
<1>4. ASSUME NEW f \in Kinds
      PROVE  Carried(f, Tasks) = Carried(f, Tasks \ {t})
  <2>1. pending[t][f] = 0
    BY ZeroAt DEF CountInv, IdleCountsNothing
  <2>2. pending \in [Tasks -> Counts] /\ t \in Tasks /\ Tasks \in SUBSET Tasks
    BY <1>1 DEF TypeOK
  <2>3. Cardinality(ToCount(pending, f, Tasks))
          = Cardinality(ToCount(pending, f, Tasks \ {t})) + pending[t][f]
    BY <2>2, ToCountSplit
  <2>4. Cardinality(ToCount(pending, f, Tasks \ {t})) \in Nat
    BY <2>2, ToCountFinite
  <2> QED BY <2>1, <2>3, <2>4 DEF Carried
<1> QED BY <1>3, <1>4, ExactIs DEF CountInv, Exact

\* The two halves of a STATS reply, read under two locks one after the other,
\* still agree on everything the reply itself brought about: the counters it
\* reports fall short of what happened by what other tasks have yet to record.
THEOREM StatsMissOnlyWhatOthersCarry == Spec => StatsMissOnlyOthers
<1>1. CountInv /\ [Next]_vars =>
        [\A t \in Tasks : (phase[t] = "reading" /\ phase'[t] = "replying") =>
           \A f \in {"expired", "evicted", "rejected"} :
             happened[f] = (reply'[t][3][f] + Carried(f, Tasks \ {t})) % CounterModulus]_vars
  BY ReadingStep DEF Kinds
<1> QED BY <1>1, CountInvariant, PTL DEF Spec, StatsMissOnlyOthers

----------------------------------------------------------------------------
(* The refinement: the operators of the cache, in terms of the store's.    *)

LEMMA SameKeySpace ==
  ASSUME NEW e, NEW S, NEW at
  PROVE  /\ Cache!Held(e) = Present(e)
         /\ Cache!Dead(e, at) = ExpiredKeys(e, at)
         /\ Cache!Drop(e, S) = Without(e, S)
BY DEF Cache!Held, Cache!Dead, Cache!Drop, Present, ExpiredKeys, is_expired, Without

LEMMA SameReplies ==
  /\ Cache!Null_ = Null
  /\ Cache!Refused = OutOfMemory
  /\ Cache!Mistyped = WrongType
  /\ \A n : Cache!Int_(n) = Integer(n)
BY DEF Cache!Null_, Cache!Refused, Cache!Mistyped, Cache!Int_, Null, OutOfMemory,
       WrongType, Integer

\* The cache without the expired keys the command looks at.
Seen(e, c, n) == Cache!Drop(e, Cache!LookedAt(c) \cap Cache!Dead(e, n))

\* What a command leaves behind, as the cache knows it.
Simulates(e, c, d, n, o) ==
  <<o.entries, Answered(c, o.reply)>> \in Cache!Effect(Seen(e, c, n), c, d, n)

\* A command on one key looks at that key.
LEMMA SeenOneKey ==
  ASSUME NEW e, NEW c, NEW n,
         c.op \notin {"DEL", "EXISTS", "STATS", "INSPECT"}
  PROVE  Seen(e, c, n) = remove_if_expired(e, c.key, n)
BY SameKeySpace DEF Seen, Cache!LookedAt, remove_if_expired

LEMMA PlainAnswer ==
  ASSUME NEW c, NEW r, c.op \notin {"STATS", "INSPECT"}
  PROVE  Answered(c, r) = r
BY DEF Answered

LEMMA SameSets ==
  ASSUME NEW S, NEW s
  PROVE  /\ Cache!Cardinality(S) = Cardinality(S)
         /\ Cache!ToSet(s) = ToSet(s)
<1>1. Cache!Cardinality(S) = Cardinality(S)
  BY DEF Cardinality, Cache!Cardinality
<1>2. Cache!ToSet(s) = ToSet(s)
  BY DEF ToSet, Cache!ToSet
<1> QED BY <1>1, <1>2

LEMMA SameOrder ==
  ASSUME NEW S
  PROVE  Cache!KeysInOrder(S) = SortedKeys(S)
BY DEF Cache!KeysInOrder, SortedKeys

----------------------------------------------------------------------------
(* The refinement: writes.                                                 *)

\* commit_write stores or rolls back as Store allows.
LEMMA CommitSimulated ==
  ASSUME NEW e \in EntriesType, NEW key \in Keys, NEW new \in Entry, NEW result,
         NEW o \in commit_write([e EXCEPT ![key] = new], key, e[key], result)
  PROVE  <<o.entries, o.reply>> \in Cache!Store(e, key, new, result)
<1> DEFINE e1 == [e EXCEPT ![key] = new]
           Evicting == MaxMemory # None /\ Policy = "allkeys-random"
<1>1. o \in commit_write(e1, key, e[key], result)
  OBVIOUS
<1>2. restore_entry(e1, key, e[key]) = e /\ Present(e1) \ {key} = Present(e) \ {key}
  BY DEF restore_entry, EntriesType, Present
<1>3. \A victims \in SUBSET (Present(e) \ {key}) :
        Without(e1, victims) = [Cache!Drop(e, victims) EXCEPT ![key] = new]
  BY DEF Without, Cache!Drop, EntriesType, Present
<1> HIDE DEF e1
<1>4. CASE enforce_memory_limit(e1, key) = {}
  <2>1. o.entries = e /\ o.reply = OutOfMemory
    BY <1>1, <1>2, <1>4 DEF commit_write, Outcome
  <2>2. MaxMemory # None
    BY <1>4 DEF enforce_memory_limit, WithinLimit
  <2> QED BY <2>1, <2>2, SameReplies DEF Cache!Store, Cache!Gives
<1>5. CASE enforce_memory_limit(e1, key) # {}
  <2>1. PICK victims \in enforce_memory_limit(e1, key) :
          o.entries = Without(e1, victims) /\ o.reply = result
    BY <1>1, <1>5 DEF commit_write, Outcome
  <2>2. victims \in SUBSET (Present(e) \ {key}) /\ (victims # {} => Evicting)
    BY <1>2, StoreAssumption
       DEF enforce_memory_limit, evict_until_within_limit, WithinLimit
  <2>3. victims \in IF Evicting THEN SUBSET (Cache!Held(e) \ {key}) ELSE {{}}
    BY <2>2, SameKeySpace
  <2>4. <<o.entries, o.reply>> = <<[Cache!Drop(e, victims) EXCEPT ![key] = new], result>>
    BY <1>3, <2>1, <2>2
  <2> QED BY <2>3, <2>4 DEF Cache!Store
<1> QED BY <1>4, <1>5

LEMMA SetSimulated ==
  ASSUME NEW e \in EntriesType, NEW c \in CommandSpace, c.op = "SET", NEW d, NEW n,
         NEW o \in set(e, c.key, c.value, n)
  PROVE  Simulates(e, c, d, n, o)
<1> DEFINE e1 == remove_if_expired(e, c.key, n)
           new == [type |-> "string", items |-> <<c.value>>, expires_at |-> None]
<1>1. e1 \in EntriesType /\ c.key \in Keys /\ c.value \in Values
  BY RemoveIfExpiredType, CommandFields
<1>2. new \in Entry
  BY <1>1 DEF Entry
<1>3. o \in commit_write([e1 EXCEPT ![c.key] = new], c.key, e1[c.key], Ok)
  BY DEF set
<1>4. Seen(e, c, n) = e1
  BY SeenOneKey
<1> HIDE DEF e1
<1>5. <<o.entries, o.reply>> \in Cache!Store(e1, c.key, new, Ok)
  BY <1>1, <1>2, <1>3, CommitSimulated
<1>6. Cache!Effect(e1, c, d, n) = Cache!Store(e1, c.key, new, Ok)
  BY Zenon DEF Cache!Effect, Ok
<1>7. Answered(c, o.reply) = o.reply
  BY PlainAnswer
<1> QED BY <1>4, <1>5, <1>6, <1>7 DEF Simulates

\* Pushing the values in front or behind puts each where Pushed has it.
LEMMA PushedSame ==
  ASSUME NEW items \in Seq(Values), NEW values \in NonEmptySeq(Values), NEW op
  PROVE  /\ op = "LPUSH" => Cache!Pushed(op, items, values) = Reverse(values) \o items
         /\ op # "LPUSH" => Cache!Pushed(op, items, values) = items \o values
         /\ Len(Reverse(values) \o items) = Len(items) + Len(values)
         /\ Len(items \o values) = Len(items) + Len(values)
<1> DEFINE held == Len(items)
           added == Len(values)
           rev == Reverse(values)
<1>1. values \in Seq(Values) /\ held \in Nat /\ added \in Nat
  BY LenProperties DEF NonEmptySeq
<1>2. rev \in Seq(Values) /\ Len(rev) = added
  BY <1>1, ReverseType
<1>3. \A i \in 1..added : rev[i] = values[added + 1 - i]
  BY <1>1 DEF Reverse
<1> HIDE DEF rev
<1>4. /\ rev \o items \in Seq(Values) /\ Len(rev \o items) = added + held
      /\ \A i \in 1..(added + held) :
           (rev \o items)[i] = IF i <= added THEN rev[i] ELSE items[i - added]
  <2>1. \A s \in Seq(Values) :
          /\ s \o items \in Seq(Values) /\ Len(s \o items) = Len(s) + Len(items)
          /\ \A i \in 1..(Len(s) + Len(items)) :
               (s \o items)[i] = IF i <= Len(s) THEN s[i] ELSE items[i - Len(s)]
    BY ConcatProperties
  <2> QED BY <1>2, <2>1
<1>5. /\ items \o values \in Seq(Values) /\ Len(items \o values) = held + added
      /\ \A i \in 1..(held + added) :
           (items \o values)[i] = IF i <= held THEN items[i] ELSE values[i - held]
  BY <1>1, ConcatProperties
<1>6. held + added = added + held /\ held + added \in Nat
  BY <1>1
<1>7. \A s \in Seq(Values) : s = [i \in 1..Len(s) |-> s[i]]
  BY LenProperties
<1> HIDE DEF held, added
<1>8. ASSUME op = "LPUSH" PROVE Cache!Pushed(op, items, values) = rev \o items
  <2>1. Cache!Pushed(op, items, values)
          = [i \in 1..(held + added) |->
               IF i <= added THEN values[added + 1 - i] ELSE items[i - added]]
    BY <1>8 DEF Cache!Pushed, held, added
  <2>2. \A i \in 1..(held + added) :
          (rev \o items)[i] = IF i <= added THEN values[added + 1 - i] ELSE items[i - added]
    <3>1. \A i \in 1..(held + added) :
            (rev \o items)[i] = IF i <= added THEN rev[i] ELSE items[i - added]
      BY <1>4, <1>6
    <3>2. \A i \in 1..added : rev[i] = values[added + 1 - i]
      BY <1>3
    <3>3. \A i \in 1..(held + added) : i <= added => i \in 1..added
      BY <1>1
    <3> HIDE DEF rev
    <3> QED BY <3>1, <3>2, <3>3
  <2> QED BY <1>4, <1>6, <1>7, <2>1, <2>2
<1>9. ASSUME op # "LPUSH" PROVE Cache!Pushed(op, items, values) = items \o values
  <2>1. Cache!Pushed(op, items, values)
          = [i \in 1..(held + added) |->
               IF i <= held THEN items[i] ELSE values[i - held]]
    BY <1>9 DEF Cache!Pushed, held, added
  <2> QED BY <1>5, <1>7, <2>1
<1> QED BY <1>4, <1>5, <1>6, <1>8, <1>9 DEF rev, held, added

LEMMA PushSimulated ==
  ASSUME NEW e \in EntriesType, NEW c \in CommandSpace, c.op \in {"LPUSH", "RPUSH"},
         NEW d, NEW n, NEW o \in push(e, c.key, c.values, SideOf(c), n)
  PROVE  Simulates(e, c, d, n, o)
<1> DEFINE e1 == remove_if_expired(e, c.key, n)
           old == e1[c.key]
           list == IF old = None
                   THEN [type |-> "list", items |-> <<>>, expires_at |-> None]
                   ELSE old
           pushed == IF SideOf(c) = "left" THEN Reverse(c.values) \o list.items
                     ELSE list.items \o c.values
           new == [list EXCEPT !.items = pushed]
           result == Integer(Len(pushed))
<1>1. e1 \in EntriesType /\ c.key \in Keys /\ c.values \in NonEmptySeq(Values)
      /\ SideOf(c) \in Sides /\ (SideOf(c) = "left" <=> c.op = "LPUSH")
  BY RemoveIfExpiredType, CommandFields DEF SideOf, Sides
<1>2. list \in Entry
  BY <1>1, EntryAt, EmptySeq DEF Entry
<1>3. pushed \in Seq(Values)
  BY <1>1, <1>2, EntryFields, PushedItems
<1>4. new \in Entry
  BY <1>2, <1>3, EntryFields
<1>5. /\ pushed = Cache!Pushed(c.op, list.items, c.values)
      /\ Len(pushed) = Len(list.items) + Len(c.values)
  <2>1. list.items \in Seq(Values) /\ c.values \in NonEmptySeq(Values)
    BY <1>1, <1>2, EntryFields
  <2> HIDE DEF list
  <2>2. /\ c.op = "LPUSH" => Cache!Pushed(c.op, list.items, c.values)
                               = Reverse(c.values) \o list.items
        /\ c.op # "LPUSH" => Cache!Pushed(c.op, list.items, c.values) = list.items \o c.values
        /\ Len(Reverse(c.values) \o list.items) = Len(list.items) + Len(c.values)
        /\ Len(list.items \o c.values) = Len(list.items) + Len(c.values)
    <3> DEFINE items == list.items
               values == c.values
    <3>1. items \in Seq(Values) /\ values \in NonEmptySeq(Values)
      BY <2>1
    <3> HIDE DEF items, values
    <3>2. /\ c.op = "LPUSH" => Cache!Pushed(c.op, items, values) = Reverse(values) \o items
          /\ c.op # "LPUSH" => Cache!Pushed(c.op, items, values) = items \o values
          /\ Len(Reverse(values) \o items) = Len(items) + Len(values)
          /\ Len(items \o values) = Len(items) + Len(values)
      BY ONLY <3>1, PushedSame
    <3> QED BY <3>2 DEF items, values
  <2> QED BY <1>1, <2>2
<1>6. IF list.type # "list" THEN o = Quiet(e1, WrongType)
      ELSE o \in commit_write([e1 EXCEPT ![c.key] = new], c.key, old, result)
  BY DEF push
<1>7. Cache!Push(e1, c) = IF list.type # "list" THEN Cache!Gives(e1, Cache!Mistyped)
                          ELSE Cache!Store(e1, c.key, new, result)
  <2>1. Cache!Push(e1, c)
          = IF list.type # "list" THEN Cache!Gives(e1, Cache!Mistyped)
            ELSE Cache!Store(e1, c.key,
                             [list EXCEPT !.items = Cache!Pushed(c.op, list.items, c.values)],
                             Cache!Int_(Len(list.items) + Len(c.values)))
    BY Zenon DEF Cache!Push
  <2> HIDE DEF list, pushed, e1
  <2> QED BY <1>5, <2>1, SameReplies
<1>8. Seen(e, c, n) = e1
  BY SeenOneKey
<1>9. Answered(c, o.reply) = o.reply
  BY PlainAnswer
<1> HIDE DEF e1, new, list, pushed, result
<1>10. <<o.entries, o.reply>> \in Cache!Push(e1, c)
  <2>1. CASE list.type # "list"
    BY <1>6, <1>7, <2>1, SameReplies DEF Quiet, Outcome, Cache!Gives
  <2>2. CASE list.type = "list"
    BY <1>1, <1>4, <1>6, <1>7, <2>2, CommitSimulated
  <2> QED BY <2>1, <2>2
<1>11. Cache!Effect(e1, c, d, n) = Cache!Push(e1, c)
  BY Zenon DEF Cache!Effect
<1> QED BY <1>8, <1>9, <1>10, <1>11 DEF Simulates

----------------------------------------------------------------------------
(* The refinement: commands on one key.                                    *)

LEMMA GetSimulated ==
  ASSUME NEW e \in EntriesType, NEW c \in CommandSpace, c.op = "GET", NEW d, NEW n,
         NEW o, o = get(e, c.key, n)
  PROVE  Simulates(e, c, d, n, o)
<1> DEFINE e1 == remove_if_expired(e, c.key, n)
<1>1. e1[c.key] \in Entry \cup {None}
  BY RemoveIfExpiredType, CommandFields, EntryAt
<1>2. Seen(e, c, n) = e1 /\ Answered(c, o.reply) = o.reply
  BY SeenOneKey, PlainAnswer
<1>3. o.entries = e1
      /\ o.reply = IF e1[c.key] = None THEN Null
                   ELSE IF e1[c.key].type = "string" THEN Bulk(e1[c.key].items[1])
                   ELSE WrongType
  BY DEF get, Quiet, Outcome
<1> HIDE DEF e1
<1>4. Cache!Effect(e1, c, d, n)
        = Cache!Gives(e1, IF e1[c.key] = None THEN Cache!Null_
                          ELSE IF e1[c.key].type = "list" THEN Cache!Mistyped
                          ELSE <<"bulk", e1[c.key].items[1]>>)
  BY Zenon DEF Cache!Effect
<1>5. e1[c.key] # None => e1[c.key].type \in {"string", "list"}
  BY <1>1 DEF Entry
<1>6. <<o.entries, o.reply>> \in Cache!Effect(e1, c, d, n)
  BY <1>3, <1>4, <1>5, SameReplies DEF Cache!Gives, Bulk
<1> QED BY <1>2, <1>6 DEF Simulates

LEMMA TtlSimulated ==
  ASSUME NEW e \in EntriesType, NEW c \in CommandSpace, c.op = "TTL", NEW d, NEW n,
         NEW o, o = ttl(e, c.key, n)
  PROVE  Simulates(e, c, d, n, o)
<1> DEFINE e1 == remove_if_expired(e, c.key, n)
<1>1. Seen(e, c, n) = e1 /\ Answered(c, o.reply) = o.reply
  BY SeenOneKey, PlainAnswer
<1>2. o.entries = e1
      /\ o.reply = Integer(IF e1[c.key] = None THEN -2 ELSE entry_ttl_seconds(e1[c.key], n))
  BY DEF ttl, Quiet, Outcome
<1> HIDE DEF e1
<1>3. Cache!Effect(e1, c, d, n)
        = Cache!Gives(e1, Cache!Int_(IF e1[c.key] = None THEN -2 ELSE Cache!Left(e1[c.key], n)))
  BY Zenon DEF Cache!Effect
<1>4. Cache!Left(e1[c.key], n) = entry_ttl_seconds(e1[c.key], n)
  BY DEF Cache!Left, entry_ttl_seconds
<1>5. <<o.entries, o.reply>> \in Cache!Effect(e1, c, d, n)
  BY <1>2, <1>3, <1>4, SameReplies DEF Cache!Gives
<1> QED BY <1>1, <1>5 DEF Simulates

LEMMA PersistSimulated ==
  ASSUME NEW e \in EntriesType, NEW c \in CommandSpace, c.op = "PERSIST", NEW d, NEW n,
         NEW o, o = persist(e, c.key, n)
  PROVE  Simulates(e, c, d, n, o)
<1> DEFINE e1 == remove_if_expired(e, c.key, n)
<1>1. c.key \in Keys
  BY CommandFields
<1>2. Seen(e, c, n) = e1 /\ Answered(c, o.reply) = o.reply
  BY SeenOneKey, PlainAnswer
<1>3. \/ /\ e1[c.key] = None \/ e1[c.key].expires_at = None
         /\ o.entries = e1 /\ o.reply = Integer(0)
      \/ /\ e1[c.key] # None /\ e1[c.key].expires_at # None
         /\ o.entries = [e1 EXCEPT ![c.key].expires_at = None] /\ o.reply = Integer(1)
  BY DEF persist, Quiet, Outcome
<1> HIDE DEF e1
<1>4. Cache!Effect(e1, c, d, n)
        = IF c.key \in Cache!Held(e1) /\ e1[c.key].expires_at # None
          THEN Cache!Gives([e1 EXCEPT ![c.key].expires_at = None], Cache!Int_(1))
          ELSE Cache!Gives(e1, Cache!Int_(0))
  BY Zenon DEF Cache!Effect
<1>5. c.key \in Cache!Held(e1) <=> e1[c.key] # None
  BY <1>1 DEF Cache!Held
<1>6. <<o.entries, o.reply>> \in Cache!Effect(e1, c, d, n)
  BY <1>3, <1>4, <1>5, SameReplies DEF Cache!Gives
<1> QED BY <1>2, <1>6 DEF Simulates

LEMMA ExpireAtSimulated ==
  ASSUME NEW e \in EntriesType, NEW c \in CommandSpace, c.op \in {"EXPIRE", "EXPIREAT"},
         NEW d \in Time, NEW n \in Time, NEW o, o = expire_at(e, c.key, d, n)
  PROVE  Simulates(e, c, d, n, o)
<1> DEFINE e1 == remove_if_expired(e, c.key, n)
<1>1. d > n <=> ~(d <= n)
  BY StoreAssumption DEF Time
<1>2. Seen(e, c, n) = e1 /\ Answered(c, o.reply) = o.reply
  BY SeenOneKey, PlainAnswer
<1>3. \/ e1[c.key] = None /\ o.entries = e1 /\ o.reply = Integer(0)
      \/ /\ e1[c.key] # None /\ d <= n
         /\ o.entries = Without(e1, {c.key}) /\ o.reply = Integer(1)
      \/ /\ e1[c.key] # None /\ ~(d <= n)
         /\ o.entries = [e1 EXCEPT ![c.key].expires_at = d] /\ o.reply = Integer(1)
  BY DEF expire_at, Quiet, Outcome
<1> HIDE DEF e1
<1>4. Cache!Effect(e1, c, d, n)
        = IF e1[c.key] = None THEN Cache!Gives(e1, Cache!Int_(0))
          ELSE Cache!Gives(IF d > n THEN [e1 EXCEPT ![c.key].expires_at = d]
                           ELSE Cache!Drop(e1, {c.key}), Cache!Int_(1))
  BY Zenon DEF Cache!Effect
<1>5. <<o.entries, o.reply>> \in Cache!Effect(e1, c, d, n)
  BY <1>1, <1>3, <1>4, SameReplies, SameKeySpace DEF Cache!Gives
<1> QED BY <1>2, <1>5 DEF Simulates

\* The items a pop leaves, position by position.
LEMMA PoppedSame ==
  ASSUME NEW items \in Seq(Values), items # <<>>
  PROVE  /\ Tail(items) = [i \in 1..(Len(items) - 1) |-> IF i < 1 THEN items[i] ELSE items[i + 1]]
         /\ Front(items) = [i \in 1..(Len(items) - 1) |->
                              IF i < Len(items) THEN items[i] ELSE items[i + 1]]
         /\ Head(items) = items[1] /\ Last(items) = items[Len(items)]
<1>1. Len(items) \in Nat \ {0}
  BY EmptySeq
<1>2. \A s \in Seq(Values) : s = [i \in 1..Len(s) |-> s[i]]
  BY LenProperties
<1>3. Tail(items) \in Seq(Values) /\ Len(Tail(items)) = Len(items) - 1
      /\ \A i \in 1..(Len(items) - 1) : Tail(items)[i] = items[i + 1]
  BY HeadTailProperties
<1>4. Front(items) \in Seq(Values) /\ Len(Front(items)) = Len(items) - 1
  BY FrontType
<1>5. \A i \in 1..(Len(items) - 1) : Front(items)[i] = items[i]
  <2>1. \A i \in 1..(Len(items) - 1) : items[i] \in Values
    BY <1>1, LenProperties
  <2>2. \A i \in 1..(Len(items) - 1) : SubSeq(items, 1, Len(items) - 1)[i] = items[1 + i - 1]
    BY <1>1, <2>1, SubSeqProperties
  <2> QED BY <1>1, <2>2 DEF Front
<1>6. Tail(items) = [i \in 1..(Len(items) - 1) |-> IF i < 1 THEN items[i] ELSE items[i + 1]]
  <2> DEFINE t == Tail(items)
  <2>1. t \in Seq(Values) /\ Len(t) = Len(items) - 1
        /\ \A i \in 1..(Len(items) - 1) : t[i] = IF i < 1 THEN items[i] ELSE items[i + 1]
    BY <1>1, <1>3
  <2> HIDE DEF t
  <2>2. t = [i \in 1..(Len(items) - 1) |-> IF i < 1 THEN items[i] ELSE items[i + 1]]
    BY <1>2, <2>1
  <2> QED BY <2>2 DEF t
<1>7. Front(items) = [i \in 1..(Len(items) - 1) |->
                        IF i < Len(items) THEN items[i] ELSE items[i + 1]]
  BY <1>1, <1>2, <1>4, <1>5
<1>8. Head(items) = items[1] /\ Last(items) = items[Len(items)]
  BY <1>1 DEF Last
<1> QED BY <1>6, <1>7, <1>8

LEMMA PopSimulated ==
  ASSUME NEW e \in EntriesType, NoEmpty(e), NEW c \in CommandSpace, c.op \in {"LPOP", "RPOP"},
         NEW d, NEW n, NEW o, o = pop(e, c.key, SideOf(c), n)
  PROVE  Simulates(e, c, d, n, o)
<1> DEFINE e1 == remove_if_expired(e, c.key, n)
           items == e1[c.key].items
           end == IF c.op = "LPOP" THEN 1 ELSE Len(items)
           popped == [i \in 1..(Len(items) - 1) |-> IF i < end THEN items[i] ELSE items[i + 1]]
           rest == IF SideOf(c) = "left" THEN Tail(items) ELSE Front(items)
           taken == IF SideOf(c) = "left" THEN Head(items) ELSE Last(items)
<1>1. c.key \in Keys /\ e1 \in EntriesType /\ (SideOf(c) = "left" <=> c.op = "LPOP")
  BY RemoveIfExpiredType, CommandFields DEF SideOf
<1>2. Seen(e, c, n) = e1 /\ Answered(c, o.reply) = o.reply
  BY SeenOneKey, PlainAnswer
<1>3. e1[c.key] # None => items \in Seq(Values) /\ items # <<>>
  <2>1. e1[c.key] # None => e1[c.key] = e[c.key]
    BY <1>1 DEF remove_if_expired, Without
  <2> QED BY <1>1, <2>1, EntryAt, EntryFields DEF NoEmpty
<1>4. \/ e1[c.key] = None /\ o.entries = e1 /\ o.reply = Null
      \/ /\ e1[c.key] # None /\ e1[c.key].type # "list"
         /\ o.entries = e1 /\ o.reply = WrongType
      \/ /\ e1[c.key] # None /\ e1[c.key].type = "list"
         /\ o.entries = IF rest = <<>> THEN Without(e1, {c.key})
                        ELSE [e1 EXCEPT ![c.key].items = rest]
         /\ o.reply = Bulk(taken)
  BY DEF pop, Quiet, Outcome
<1> HIDE DEF e1
<1>5. Cache!Pop(e1, c)
        = IF e1[c.key] = None THEN Cache!Gives(e1, Cache!Null_)
          ELSE IF e1[c.key].type # "list" THEN Cache!Gives(e1, Cache!Mistyped)
          ELSE Cache!Gives(IF popped = <<>> THEN Cache!Drop(e1, {c.key})
                           ELSE [e1 EXCEPT ![c.key].items = popped],
                           <<"bulk", items[end]>>)
  BY DEF Cache!Pop
<1>6. e1[c.key] # None => rest = popped /\ taken = items[end]
  <2> SUFFICES ASSUME e1[c.key] # None PROVE rest = popped /\ taken = items[end]
    OBVIOUS
  <2>1. items \in Seq(Values) /\ items # <<>>
    BY <1>3
  <2> HIDE DEF items
  <2> QED BY <1>1, <2>1, PoppedSame
<1> HIDE DEF rest, popped, taken, items, end
<1>7. <<o.entries, o.reply>> \in Cache!Pop(e1, c)
  BY <1>4, <1>5, <1>6, SameReplies, SameKeySpace DEF Cache!Gives, Bulk
<1>8. Cache!Effect(e1, c, d, n) = Cache!Pop(e1, c)
  BY Zenon DEF Cache!Effect
<1> QED BY <1>2, <1>7, <1>8 DEF Simulates

\* The range normalize_range cuts out is the slice between the two positions.
LEMMA SliceSame ==
  ASSUME NEW items \in Seq(Values), NEW start \in Int, NEW stop \in Int,
         NEW range, range = normalize_range(Len(items), start, stop)
  PROVE  Cache!Slice(items, start, stop)
           = IF range = None THEN <<>> ELSE SubSeq(items, range[1] + 1, range[2] + 1)
<1> DEFINE len == Len(items)
           first == IF start < 0 THEN len + start ELSE start
           last == IF stop < 0 THEN len + stop ELSE stop
           from == IF first < 0 THEN 0 ELSE first
           to == IF last >= len THEN len - 1 ELSE last
           picked == {i \in 1..len : first <= i - 1 /\ i - 1 <= last}
           before == {i \in 1..len : i - 1 < first}
<1>1. len \in Nat /\ DOMAIN items = 1..len
  BY LenProperties
<1>2. Cache!Slice(items, start, stop)
        = [i \in 1..Cardinality(picked) |-> items[Cardinality(before) + i]]
  BY <1>1, SameSets DEF Cache!Slice
<1>3. range = IF len = 0 \/ last < 0 \/ from >= len \/ from > to THEN None ELSE <<from, to>>
  BY DEF normalize_range
<1>4. first \in Int /\ last \in Int /\ from \in Int /\ to \in Int
  BY <1>1
<1>5. CASE len = 0 \/ last < 0 \/ from >= len \/ from > to
  <2>1. picked = {}
    BY <1>1, <1>4, <1>5
  <2>2. Cardinality(picked) = 0
    BY <2>1, FS_EmptySet
  <2> DEFINE slice == [i \in 1..0 |-> items[Cardinality(before) + i]]
  <2>3. slice \in [1..0 -> Values]
    OBVIOUS
  <2>4. slice \in Seq(Values) /\ DOMAIN slice = 1..0
    BY <2>3, SeqDef
  <2>5. slice = <<>>
    <3> HIDE DEF slice
    <3> QED BY <2>4, LenProperties, EmptySeq
  <2> QED BY <1>2, <1>3, <1>5, <2>2, <2>5
<1>6. CASE ~(len = 0 \/ last < 0 \/ from >= len \/ from > to)
  <2>1. picked = (from + 1)..(to + 1) /\ before = 1..from
    BY <1>1, <1>4, <1>6
  <2>2. Cardinality(picked) = to - from + 1 /\ Cardinality(before) = from
    <3>1. from + 1 \in Int /\ to + 1 \in Int /\ from <= to /\ 0 <= from
      BY <1>4, <1>6
    <3> HIDE DEF picked, before, from, to
    <3> QED BY <2>1, <3>1, <1>4, FS_Interval
  <2>3. /\ SubSeq(items, from + 1, to + 1) \in Seq(Values)
        /\ Len(SubSeq(items, from + 1, to + 1)) = to - from + 1
        /\ \A i \in 1..(to - from + 1) : SubSeq(items, from + 1, to + 1)[i] = items[from + i]
    <3>1. from + 1 \in Int /\ to + 1 \in Int /\ from <= to /\ 0 <= from /\ to < len
      BY <1>1, <1>4, <1>6
    <3>2. \A i \in (from + 1)..(to + 1) : items[i] \in Values
      BY <1>1, <1>4, <3>1, LenProperties
    <3> DEFINE m == from + 1
               k == to + 1
    <3>3. m \in Int /\ k \in Int /\ m <= k /\ \A i \in m..k : items[i] \in Values
      BY <3>1, <3>2
    <3>4. k - m + 1 = to - from + 1 /\ \A i \in Int : m + i - 1 = from + i
      BY <1>4, <3>1
    <3> HIDE DEF from, to, len, m, k
    <3>5. /\ SubSeq(items, m, k) \in Seq(Values)
          /\ Len(SubSeq(items, m, k)) = k - m + 1
          /\ \A i \in 1..(k - m + 1) : SubSeq(items, m, k)[i] = items[m + i - 1]
      BY <3>3, SubSeqProperties
    <3>6. /\ SubSeq(items, m, k) \in Seq(Values)
          /\ Len(SubSeq(items, m, k)) = to - from + 1
          /\ \A i \in 1..(to - from + 1) : SubSeq(items, m, k)[i] = items[from + i]
      <4>1. \A i \in 1..(to - from + 1) : i \in Int
        BY <1>4
      <4>2. \A i \in 1..(to - from + 1) : SubSeq(items, m, k)[i] = items[m + i - 1]
        BY <3>4, <3>5
      <4> QED BY <3>4, <3>5, <4>1, <4>2
    <3> QED BY <3>6 DEF m, k
  <2>4. range # None
    BY <1>1, <1>3, <1>4, <1>6, NoneAssumption
  <2>5. range = <<from, to>>
    BY <1>3, <1>6
  <2> HIDE DEF from, to, picked, before
  <2>6. \A s \in Seq(Values) : s = [i \in 1..Len(s) |-> s[i]]
    BY LenProperties
  <2>7. SubSeq(items, from + 1, to + 1) = [i \in 1..(to - from + 1) |-> items[from + i]]
    BY <2>3, <2>6
  <2>8. range[1] = from /\ range[2] = to
    BY <2>5
  <2> QED BY <1>2, <2>2, <2>4, <2>7, <2>8
<1> QED BY <1>5, <1>6

LEMMA MoreCommandFields ==
  ASSUME NEW c \in CommandSpace
  PROVE  /\ c.op \in {"DEL", "EXISTS"} => c.keys \in NonEmptySeq(Keys)
         /\ c.op = "LRANGE" => c.start \in Int /\ c.stop \in Int
         /\ c.op = "INSPECT" => c.limit \in Nat
BY DEF CommandSpace

LEMMA LrangeSimulated ==
  ASSUME NEW e \in EntriesType, NEW c \in CommandSpace, c.op = "LRANGE", NEW d, NEW n,
         NEW o, o = lrange(e, c.key, c.start, c.stop, n)
  PROVE  Simulates(e, c, d, n, o)
<1> DEFINE e1 == remove_if_expired(e, c.key, n)
           items == e1[c.key].items
           range == normalize_range(Len(items), c.start, c.stop)
           cut == IF range = None THEN <<>> ELSE SubSeq(items, range[1] + 1, range[2] + 1)
<1>1. c.key \in Keys /\ c.start \in Int /\ c.stop \in Int /\ e1 \in EntriesType
  BY RemoveIfExpiredType, CommandFields, MoreCommandFields
<1>2. Seen(e, c, n) = e1 /\ Answered(c, o.reply) = o.reply
  BY SeenOneKey, PlainAnswer
<1>3. o.entries = e1
      /\ o.reply = IF e1[c.key] = None THEN Array(<<>>)
                   ELSE IF e1[c.key].type # "list" THEN WrongType ELSE Array(cut)
  BY DEF lrange, Quiet, Outcome
<1> HIDE DEF e1
<1>4. Cache!Effect(e1, c, d, n)
        = Cache!Gives(e1, IF e1[c.key] = None THEN <<"array", <<>>>>
                          ELSE IF e1[c.key].type # "list" THEN Cache!Mistyped
                          ELSE <<"array", Cache!Slice(items, c.start, c.stop)>>)
  BY Zenon DEF Cache!Effect
<1>5. e1[c.key] # None => cut = Cache!Slice(items, c.start, c.stop)
  <2>1. e1[c.key] # None => items \in Seq(Values)
    BY <1>1, EntryAt, EntryFields
  <2> DEFINE start == c.start
             stop == c.stop
  <2>2. start \in Int /\ stop \in Int /\ range = normalize_range(Len(items), start, stop)
    BY <1>1
  <2> HIDE DEF items, range, start, stop
  <2>3. e1[c.key] # None => Cache!Slice(items, start, stop) = cut
    BY <2>1, <2>2, SliceSame
  <2> QED BY <2>3 DEF start, stop
<1> HIDE DEF cut
<1>6. <<o.entries, o.reply>> \in Cache!Effect(e1, c, d, n)
  BY <1>3, <1>4, <1>5, SameReplies DEF Cache!Gives, Array
<1> QED BY <1>2, <1>6 DEF Simulates

----------------------------------------------------------------------------
(* The refinement: commands on several keys or all of them.                *)

LEMMA DelSimulated ==
  ASSUME NEW e \in EntriesType, NEW c \in CommandSpace, c.op = "DEL", NEW d, NEW n,
         NEW o, o = del(e, c.keys, n)
  PROVE  Simulates(e, c, d, n, o)
<1> DEFINE named == ToSet(c.keys)
           e1 == Without(e, named \cap ExpiredKeys(e, n))
<1>1. Cache!LookedAt(c) = named
  BY Zenon, SameSets DEF Cache!LookedAt
<1>2. Seen(e, c, n) = e1 /\ Answered(c, o.reply) = o.reply
  BY <1>1, SameKeySpace, PlainAnswer DEF Seen
<1>3. /\ o.entries = Without(e, named)
      /\ o.reply = Integer(Cardinality(named \cap (Present(e) \ ExpiredKeys(e, n))))
  BY DEF del, Quiet, Outcome
<1>4. /\ Without(e1, named) = Without(e, named)
      /\ named \cap Present(e1) = named \cap (Present(e) \ ExpiredKeys(e, n))
  BY DEF Without, Present
<1> HIDE DEF named, e1
<1>5. Cache!Effect(e1, c, d, n)
        = Cache!Gives(Cache!Drop(e1, Cache!ToSet(c.keys)),
            Cache!Int_(Cache!Cardinality(Cache!ToSet(c.keys) \cap Cache!Held(e1))))
  BY Zenon DEF Cache!Effect
<1>6. Cache!ToSet(c.keys) = named
  BY SameSets DEF named
<1>7. Cache!Effect(e1, c, d, n)
        = Cache!Gives(Without(e, named),
                      Integer(Cardinality(named \cap (Present(e) \ ExpiredKeys(e, n)))))
  BY <1>4, <1>5, <1>6, SameSets, SameReplies, SameKeySpace
<1> QED BY <1>2, <1>3, <1>7 DEF Simulates, Cache!Gives

LEMMA ExistsSimulated ==
  ASSUME NEW e \in EntriesType, NEW c \in CommandSpace, c.op = "EXISTS", NEW d, NEW n,
         NEW o, o = exists(e, c.keys, n)
  PROVE  Simulates(e, c, d, n, o)
<1> DEFINE e1 == Without(e, ToSet(c.keys) \cap ExpiredKeys(e, n))
           found == {i \in DOMAIN c.keys : e1[c.keys[i]] # None}
<1>1. Cache!LookedAt(c) = ToSet(c.keys)
  BY Zenon, SameSets DEF Cache!LookedAt
<1>2. Seen(e, c, n) = e1 /\ Answered(c, o.reply) = o.reply
  BY <1>1, SameKeySpace, PlainAnswer DEF Seen
<1>3. o.entries = e1 /\ o.reply = Integer(Cardinality(found))
  BY DEF exists, Quiet, Outcome
<1> HIDE DEF e1
<1>4. found = {i \in DOMAIN c.keys : c.keys[i] \in Cache!Held(e1)}
  <2>1. \A i \in DOMAIN c.keys : c.keys[i] \in Keys
    BY MoreCommandFields, LenProperties DEF NonEmptySeq
  <2> QED BY <2>1 DEF Cache!Held
<1>5. Cache!Effect(e1, c, d, n)
        = Cache!Gives(e1, Cache!Int_(Cache!Cardinality(
            {i \in DOMAIN c.keys : c.keys[i] \in Cache!Held(e1)})))
  BY Zenon DEF Cache!Effect
<1> HIDE DEF found
<1>6. Cache!Effect(e1, c, d, n) = Cache!Gives(e1, Integer(Cardinality(found)))
  BY <1>4, <1>5, SameSets, SameReplies
<1> QED BY <1>2, <1>3, <1>6 DEF Simulates, Cache!Gives

LEMMA StatsSimulated ==
  ASSUME NEW e \in EntriesType, NEW c \in CommandSpace, c.op = "STATS", NEW d, NEW n,
         NEW o, o = stats(e, n)
  PROVE  Simulates(e, c, d, n, o)
<1> DEFINE e1 == retain_unexpired(e, n)
           OfType(t) == {k \in Present(e1) : e1[k].type = t}
           dated == {k \in Present(e1) : e1[k].expires_at # None}
           cells == UNION {{k} \X DOMAIN e1[k].items : k \in OfType("list")}
<1>1. Seen(e, c, n) = e1
  <2>1. Cache!LookedAt(c) = Keys
    BY Zenon DEF Cache!LookedAt
  <2>2. Keys \cap ExpiredKeys(e, n) = ExpiredKeys(e, n)
    BY ExpiredAreKeys
  <2> QED BY <2>1, <2>2, SameKeySpace DEF Seen, retain_unexpired
<1>2. e1 \in EntriesType
  BY WithoutType DEF retain_unexpired
<1>3. o.entries = e1 /\ o.reply = <<"stats", build_stats(e1)>>
  BY DEF stats, Outcome
<1> HIDE DEF e1
<1>4. Answered(c, o.reply)
        = <<"stats", Cardinality(Present(e1)), Cardinality(OfType("string")),
            Cardinality(OfType("list")), Cardinality(dated), Cardinality(cells)>>
  BY <1>3 DEF Answered, build_stats
<1>5. Present(e1) \ OfType("list") = OfType("string")
  BY <1>2, EntryAt DEF Present, Entry
<1>6. Cache!Summary(e1)
        = <<"stats", Cache!Cardinality(Present(e1)),
            Cache!Cardinality(Present(e1) \ OfType("list")),
            Cache!Cardinality(OfType("list")), Cache!Cardinality(dated),
            Cache!Cardinality(cells)>>
  BY SameKeySpace DEF Cache!Summary
<1> HIDE DEF OfType, dated, cells
<1>7. Cache!Summary(e1) = Answered(c, o.reply)
  BY <1>4, <1>5, <1>6, SameSets
<1>8. Cache!Effect(e1, c, d, n) = Cache!Gives(e1, Cache!Summary(e1))
  BY Zenon DEF Cache!Effect
<1> QED BY <1>1, <1>3, <1>7, <1>8 DEF Simulates, Cache!Gives

LEMMA InspectSimulated ==
  ASSUME NEW e \in EntriesType, NEW c \in CommandSpace, c.op = "INSPECT", NEW d, NEW n,
         NEW o, o = inspect_keys(e, c.limit, n)
  PROVE  Simulates(e, c, d, n, o)
<1> DEFINE e1 == IF c.limit = 0 THEN e ELSE retain_unexpired(e, n)
           listed == SortedKeys(Present(e1))
           shown == {j \in 1..c.limit : j <= Cardinality(Present(e1))}
           rows == [i \in shown |-> inspection(listed[i], e1[listed[i]], n)]
           Row(k) == [key |-> k, value_type |-> e1[k].type,
                      ttl_seconds |-> entry_ttl_seconds(e1[k], n)]
           brief == [i \in shown |-> Row(listed[i])]
<1>1. Seen(e, c, n) = e1
  <2>1. Cache!LookedAt(c) = IF c.limit = 0 THEN {} ELSE Keys
    BY Zenon DEF Cache!LookedAt
  <2>2. Keys \cap ExpiredKeys(e, n) = ExpiredKeys(e, n)
    BY ExpiredAreKeys
  <2>3. Without(e, {}) = e
    BY DEF Without, EntriesType
  <2> QED BY <2>1, <2>2, <2>3, SameKeySpace DEF Seen, retain_unexpired
<1>2. o.entries = e1 /\ o.reply = Array(IF c.limit = 0 THEN <<>> ELSE rows)
  BY DEF inspect_keys, Quiet, Outcome
<1>3. c.limit = 0 => shown = {}
  OBVIOUS
<1> HIDE DEF e1
<1>4. Cache!Rows(e1, c.limit, n)
        = [i \in shown |-> [key |-> listed[i], value_type |-> e1[listed[i]].type,
                            ttl_seconds |-> Cache!Left(e1[listed[i]], n)]]
  <2>1. Cache!Rows(e1, c.limit, n)
          = [i \in {j \in 1..c.limit : j <= Cache!Cardinality(Present(e1))} |->
               [key |-> listed[i], value_type |-> e1[listed[i]].type,
                ttl_seconds |-> Cache!Left(e1[listed[i]], n)]]
    BY SameKeySpace, SameOrder DEF Cache!Rows
  <2>2. Cache!Cardinality(Present(e1)) = Cardinality(Present(e1))
    BY SameSets
  <2> HIDE DEF listed
  <2> QED BY <2>1, <2>2
<1>5. \A x : Cache!Left(x, n) = entry_ttl_seconds(x, n)
  BY DEF Cache!Left, entry_ttl_seconds
<1>6. Cache!Rows(e1, c.limit, n) = brief
  BY <1>4, <1>5
<1>7. Answered(c, o.reply) = <<"array", brief>>
  <2> DEFINE r == IF c.limit = 0 THEN <<>> ELSE rows
  <2>1. Answered(c, o.reply)
          = <<"array", [i \in DOMAIN r |-> [key |-> r[i].key, value_type |-> r[i].value_type,
                                            ttl_seconds |-> r[i].ttl_seconds]]>>
    <3>1. o.reply[2] = r
      BY <1>2 DEF Array
    <3> HIDE DEF r
    <3> QED BY <3>1 DEF Answered
  <2>2. DOMAIN r = shown
    BY <1>3
  <2>3. \A i \in shown : r[i] = inspection(listed[i], e1[listed[i]], n)
    BY <1>3
  <2> HIDE DEF r, shown, listed
  <2>4. \A i \in shown : [key |-> r[i].key, value_type |-> r[i].value_type,
                          ttl_seconds |-> r[i].ttl_seconds] = Row(listed[i])
    <3>1. \A k, x : /\ inspection(k, x, n).key = k
                    /\ inspection(k, x, n).value_type = x.type
                    /\ inspection(k, x, n).ttl_seconds = entry_ttl_seconds(x, n)
      BY DEF inspection
    <3> QED BY <2>3, <3>1
  <2> QED BY <2>1, <2>2, <2>4
<1>8. Cache!Effect(e1, c, d, n) = Cache!Gives(e1, <<"array", Cache!Rows(e1, c.limit, n)>>)
  BY Zenon DEF Cache!Effect
<1> QED BY <1>1, <1>2, <1>6, <1>7, <1>8 DEF Simulates, Cache!Gives

\* Every command a client can issue takes one of the effects of the cache.
LEMMA EffectSimulated ==
  ASSUME NEW e \in EntriesType, NoEmpty(e), NEW c \in CommandSpace, c.op # "CLEANUP",
         NEW d \in Time, NEW n \in Time, NEW o \in Execute(e, c, d, n)
  PROVE  Simulates(e, c, d, n, o)
<1>1. Runs(e, c, d, n, o)
  BY ExecuteCases
<1>2. c.op \in {"SET", "GET", "DEL", "EXISTS", "EXPIRE", "EXPIREAT", "TTL", "PERSIST", "LPUSH",
                "RPUSH", "LPOP", "RPOP", "LRANGE", "STATS", "INSPECT"}
  BY CommandFields
<1>3. CASE c.op = "SET"
  BY <1>1, <1>3, SetSimulated DEF Runs
<1>4. CASE c.op \in {"LPUSH", "RPUSH"}
  BY <1>1, <1>4, PushSimulated DEF Runs
<1>5. CASE c.op \in {"LPOP", "RPOP"}
  BY <1>1, <1>5, PopSimulated DEF Runs
<1>6. CASE c.op \in {"GET", "TTL", "PERSIST"}
  BY <1>1, <1>6, GetSimulated, TtlSimulated, PersistSimulated DEF Runs
<1>7. CASE c.op \in {"EXPIRE", "EXPIREAT"}
  BY <1>1, <1>7, ExpireAtSimulated DEF Runs
<1>8. CASE c.op = "LRANGE"
  BY <1>1, <1>8, LrangeSimulated DEF Runs
<1>9. CASE c.op \in {"DEL", "EXISTS"}
  BY <1>1, <1>9, DelSimulated, ExistsSimulated DEF Runs
<1>10. CASE c.op \in {"STATS", "INSPECT"}
  BY <1>1, <1>10, StatsSimulated, InspectSimulated DEF Runs
<1> QED BY <1>2, <1>3, <1>4, <1>5, <1>6, <1>7, <1>8, <1>9, <1>10

----------------------------------------------------------------------------
(* The refinement: what the mapping needs to know of a call under way.     *)

CallOK(t) ==
  /\ phase[t] # "idle" => cmd[t] \in CommandsOf(t)
  /\ phase[t] = "idle" => deadline[t] = 0
  /\ phase[t] = "reading" => cmd[t].op = "STATS"

\* A call keeps the command its own task issued, EXPIRE's deadline is gone when
\* it returns, and only STATS reads the counters.
CallsOK == \A t \in Tasks : CallOK(t)

MapInv == Inv /\ ReadingsArePast /\ CallsOK

LEMMA InitMap == Init => MapInv
<1>1. Init => CallsOK
  BY DEF Init, CallsOK, CallOK
<1> QED BY <1>1, InitInv, InitPast DEF MapInv

LEMMA NextCalls ==
  ASSUME MapInv, [Next]_vars
  PROVE  CallsOK'
<1>1. TypeOK
  BY DEF MapInv, Inv
<1>2. CASE UNCHANGED vars \/ Tick
  BY <1>2 DEF vars, Tick, taskVars, MapInv, CallsOK, CallOK, CommandsOf
<1>3. ASSUME NEW t \in Tasks, NEW c \in CommandsOf(t), Call(t, c) \/ CallExpire(t, c)
      PROVE  CallsOK'
  BY <1>1, <1>3 DEF Call, CallExpire, MapInv, CallsOK, CallOK, CommandsOf, TypeOK
<1>4. ASSUME NEW t \in Tasks, EnterExpireAt(t) \/ Record(t) \/ ReadCounters(t) \/ Return(t)
      PROVE  CallsOK'
  BY <1>1, <1>4
     DEF EnterExpireAt, Record, ReadCounters, Return, MapInv, CallsOK, CallOK, CommandsOf, TypeOK
<1>5. ASSUME NEW t \in Tasks, CriticalSection(t)
      PROVE  CallsOK'
  BY <1>1, <1>5, CriticalSectionExecutes
     DEF Finish, MapInv, CallsOK, CallOK, CommandsOf, TypeOK
<1> QED BY <1>2, <1>3, <1>4, <1>5 DEF Next, Progress

LEMMA NextMap ==
  ASSUME MapInv, [Next]_vars
  PROVE  MapInv'
BY NextInv, NextPast, NextCalls DEF MapInv

----------------------------------------------------------------------------
(* Steps.  The mapped variables are functions on the clients, so a step of *)
(* one client changes them at that client, and one of the cleaner not.     *)

stageBar == [u \in Clients |-> Stage(u)]
callBar == [u \in Clients |-> cmd[u]]
sinceBar == [u \in Clients |-> now[u]]
dueBar == [u \in Clients |-> deadline[u]]
answerBar == [u \in Clients |-> Answer(u)]

SameTask(u) ==
  /\ phase'[u] = phase[u] /\ cmd'[u] = cmd[u] /\ now'[u] = now[u]
  /\ deadline'[u] = deadline[u] /\ reply'[u] = reply[u]

\* The task may have moved, but the cache does not see it.
SameCall(u) ==
  /\ Stage(u)' = Stage(u) /\ Answer(u)' = Answer(u)
  /\ cmd'[u] = cmd[u] /\ now'[u] = now[u] /\ deadline'[u] = deadline[u]

LEMMA SameTaskMapped ==
  ASSUME NEW u \in Tasks, SameTask(u)
  PROVE  Stage(u)' = Stage(u) /\ Answer(u)' = Answer(u)
BY DEF SameTask, Stage, Answer

LEMMA OneClientMoves ==
  ASSUME NEW t \in Clients, \A u \in Clients \ {t} : SameTask(u)
  PROVE  /\ stageBar' = [stageBar EXCEPT ![t] = Stage(t)']
         /\ callBar' = [callBar EXCEPT ![t] = cmd'[t]]
         /\ sinceBar' = [sinceBar EXCEPT ![t] = now'[t]]
         /\ dueBar' = [dueBar EXCEPT ![t] = deadline'[t]]
         /\ answerBar' = [answerBar EXCEPT ![t] = Answer(t)']
<1>1. \A u \in Clients \ {t} : Stage(u)' = Stage(u) /\ Answer(u)' = Answer(u)
  BY SameTaskMapped DEF Tasks
<1>2. stageBar' = [stageBar EXCEPT ![t] = Stage(t)']
  BY <1>1 DEF stageBar
<1>3. answerBar' = [answerBar EXCEPT ![t] = Answer(t)']
  BY <1>1 DEF answerBar
<1> QED BY <1>2, <1>3 DEF callBar, sinceBar, dueBar, SameTask

LEMMA NoCallMoves ==
  ASSUME \A u \in Clients : SameCall(u)
  PROVE  UNCHANGED <<stageBar, callBar, sinceBar, dueBar, answerBar>>
<1>1. stageBar' = stageBar
  BY DEF stageBar, SameCall
<1>2. answerBar' = answerBar
  BY DEF answerBar, SameCall
<1> QED BY <1>1, <1>2 DEF callBar, sinceBar, dueBar, SameCall

LEMMA NoClientMoves ==
  ASSUME \A u \in Clients : SameTask(u)
  PROVE  UNCHANGED <<stageBar, callBar, sinceBar, dueBar, answerBar>>
<1>1. \A u \in Clients : SameCall(u)
  BY SameTaskMapped DEF Tasks, SameTask, SameCall
<1> QED BY <1>1, NoCallMoves

\* A step of task t leaves the others alone.
LEMMA OthersStay ==
  ASSUME TypeOK, NEW t \in Tasks,
         \/ \E c \in CommandsOf(t) : Call(t, c) \/ CallExpire(t, c)
         \/ Progress(t)
  PROVE  \A u \in Tasks \ {t} : SameTask(u)
<1>1. ASSUME NEW c \in CommandsOf(t), Call(t, c) \/ CallExpire(t, c)
      PROVE  \A u \in Tasks \ {t} : SameTask(u)
  BY <1>1 DEF Call, CallExpire, SameTask, TypeOK
<1>2. CASE CriticalSection(t)
  BY <1>2, CriticalSectionExecutes DEF Finish, SameTask, TypeOK
<1>3. CASE EnterExpireAt(t) \/ Record(t) \/ ReadCounters(t) \/ Return(t)
  BY <1>3 DEF EnterExpireAt, Record, ReadCounters, Return, SameTask, TypeOK
<1> QED BY <1>1, <1>2, <1>3 DEF Progress

LEMMA CallMapped ==
  ASSUME MapInv, NEW t \in Clients, NEW c \in CommandsOf(t), Call(t, c) \/ CallExpire(t, c)
  PROVE  c \in Commands /\ Cache!Call(t, c)
<1>1. TypeOK /\ t \in Tasks /\ t # Cleaner
  BY TaskAssumption DEF MapInv, Inv, Tasks
<1>2. \A u \in Clients \ {t} : SameTask(u)
  BY <1>1, OthersStay DEF Tasks
<1>3. c \in Commands
  BY <1>1 DEF CommandsOf
<1>4. /\ phase[t] = "idle" /\ phase'[t] \in {"waiting", "resolving"}
      /\ cmd'[t] = c /\ now'[t] = clock /\ entries' = entries /\ clock' = clock
  BY <1>1 DEF Call, CallExpire, TypeOK
<1>5. deadline'[t] = Cache!Due(c, clock)
  <2>1. CASE Call(t, c)
    BY <1>1, <2>1 DEF Call, Cache!Due, MapInv, CallsOK, CallOK
  <2>2. CASE CallExpire(t, c)
    <3>1. c.seconds \in Nat /\ clock \in Nat /\ TicksPerSecond \in Nat
      BY <1>1, <2>2, CommandsOfTasks, CommandFields, ClockIsTime, StoreAssumption
         DEF CallExpire, Time
    <3>2. c.seconds * TicksPerSecond \in Nat
      BY <3>1
    <3>3. 0 + c.seconds * TicksPerSecond = c.seconds * TicksPerSecond
      BY <3>2
    <3> QED BY <1>1, <2>2, <3>3
            DEF CallExpire, Cache!Due, expire_deadline, expire_at_unix_deadline,
                CheckedAddOr, TypeOK
  <2> QED BY <2>1, <2>2
<1>6. Stage(t) = "idle" /\ Stage(t)' = "called" /\ Answer(t) = None /\ Answer(t)' = None
  BY <1>4 DEF Stage, Answer
<1>7. /\ stageBar[t] = "idle"
      /\ stageBar' = [stageBar EXCEPT ![t] = "called"]
      /\ callBar' = [callBar EXCEPT ![t] = c]
      /\ sinceBar' = [sinceBar EXCEPT ![t] = clock]
      /\ dueBar' = [dueBar EXCEPT ![t] = Cache!Due(c, clock)]
      /\ answerBar' = answerBar
  BY <1>2, <1>4, <1>5, <1>6, OneClientMoves DEF stageBar, answerBar
<1> QED BY <1>3, <1>4, <1>7 DEF Cache!Call, stageBar, callBar, sinceBar, dueBar, answerBar

LEMMA EnterMapped ==
  ASSUME MapInv, NEW t \in Clients, EnterExpireAt(t)
  PROVE  Cache!Look(t)
<1>1. TypeOK /\ t \in Tasks
  BY DEF MapInv, Inv, Tasks
<1>2. \A u \in Clients \ {t} : SameTask(u)
  BY <1>1, OthersStay DEF Tasks, Progress
<1>3. /\ phase[t] = "resolving" /\ phase'[t] = "waiting" /\ now'[t] = clock
      /\ cmd'[t] = cmd[t] /\ deadline'[t] = deadline[t]
      /\ entries' = entries /\ clock' = clock
  BY <1>1 DEF EnterExpireAt, TypeOK
<1>4. Stage(t) = "called" /\ Stage(t)' = "called" /\ Answer(t) = None /\ Answer(t)' = None
  BY <1>3 DEF Stage, Answer
<1>5. stageBar[t] = "called" /\ stageBar' = stageBar
  <2>1. \A u \in Clients : Stage(u)' = Stage(u)
    BY <1>2, <1>4, SameTaskMapped DEF Tasks
  <2> QED BY <1>4, <2>1 DEF stageBar
<1>6. answerBar' = answerBar
  BY <1>2, <1>4, OneClientMoves DEF answerBar
<1>7. sinceBar' = [sinceBar EXCEPT ![t] = clock]
  BY <1>2, <1>3, OneClientMoves
<1>8. callBar' = callBar /\ dueBar' = dueBar
  BY <1>2, <1>3, OneClientMoves DEF callBar, dueBar
<1> QED BY <1>3, <1>5, <1>6, <1>7, <1>8
        DEF Cache!Look, stageBar, callBar, sinceBar, dueBar, answerBar

\* The critical section is the instant at which the call takes effect.
LEMMA SectionMapped ==
  ASSUME MapInv, NEW t \in Clients, CriticalSection(t)
  PROVE  Cache!Perform(t)
<1>1. TypeOK /\ t \in Tasks /\ t # Cleaner /\ entries \in EntriesType /\ NoEmpty(entries)
  BY TaskAssumption, InvSound DEF MapInv, Inv, Tasks, Sound
<1>2. \A u \in Clients \ {t} : SameTask(u)
  BY <1>1, OthersStay DEF Tasks, Progress
<1>3. phase[t] = "waiting"
  BY <1>1, CriticalSectionExecutes
<1>4. PICK o \in Execute(entries, cmd[t], deadline[t], now[t]) : Finish(t, o)
  BY <1>1, CriticalSectionExecutes
<1>5. cmd[t] \in Commands /\ cmd[t] \in CommandSpace /\ cmd[t].op # "CLEANUP"
  BY <1>1, <1>3, TaskAssumption DEF MapInv, CallsOK, CallOK, CommandsOf
<1>6. deadline[t] \in Time /\ now[t] \in Time
  BY <1>1 DEF TypeOK
<1>7. Simulates(entries, cmd[t], deadline[t], now[t], o)
  BY <1>1, <1>4, <1>5, <1>6, EffectSimulated
<1>8. /\ entries' = o.entries /\ reply'[t] = o.reply /\ cmd'[t] = cmd[t] /\ now'[t] = now[t]
      /\ deadline'[t] = deadline[t] /\ clock' = clock
      /\ phase'[t] \in {"recording", "reading", "replying"}
  BY <1>1, <1>4 DEF Finish, TypeOK
<1>9. Stage(t) = "called" /\ Stage(t)' = "answered" /\ Answer(t)' = Answered(cmd[t], o.reply)
  BY <1>3, <1>8 DEF Stage, Answer
<1>10. /\ stageBar[t] = "called" /\ callBar[t] = cmd[t] /\ sinceBar[t] = now[t]
       /\ dueBar[t] = deadline[t]
       /\ stageBar' = [stageBar EXCEPT ![t] = "answered"]
       /\ answerBar' = [answerBar EXCEPT ![t] = Answered(cmd[t], o.reply)]
       /\ UNCHANGED <<callBar, sinceBar, dueBar>>
  BY <1>2, <1>8, <1>9, OneClientMoves DEF stageBar, callBar, sinceBar, dueBar
<1>11. \E r \in Cache!Effect(Seen(entries, callBar[t], sinceBar[t]), callBar[t], dueBar[t],
                             sinceBar[t]) :
         entries' = r[1] /\ answerBar' = [answerBar EXCEPT ![t] = r[2]]
  <2> DEFINE r == <<o.entries, Answered(cmd[t], o.reply)>>
  <2>1. r \in Cache!Effect(Seen(entries, cmd[t], now[t]), cmd[t], deadline[t], now[t])
    BY <1>7 DEF Simulates
  <2>2. r[1] = o.entries /\ r[2] = Answered(cmd[t], o.reply)
    OBVIOUS
  <2> HIDE DEF r
  <2> QED BY <1>8, <1>10, <2>1, <2>2
<1> QED BY <1>8, <1>10, <1>11
        DEF Cache!Perform, Seen, stageBar, callBar, sinceBar, dueBar, answerBar

LEMMA ReturnMapped ==
  ASSUME MapInv, NEW t \in Clients, Return(t)
  PROVE  Cache!Return(t)
<1>1. TypeOK /\ t \in Tasks
  BY DEF MapInv, Inv, Tasks
<1>2. \A u \in Clients \ {t} : SameTask(u)
  BY <1>1, OthersStay DEF Tasks, Progress
<1>3. /\ phase[t] = "replying" /\ phase'[t] = "idle" /\ now'[t] = 0
      /\ cmd'[t] = None /\ deadline'[t] = 0 /\ entries' = entries /\ clock' = clock
  BY <1>1 DEF Return, TypeOK
<1>4. Stage(t) = "answered" /\ Stage(t)' = "idle" /\ Answer(t)' = None
  BY <1>3 DEF Stage, Answer
<1>5. /\ stageBar[t] = "answered"
      /\ stageBar' = [stageBar EXCEPT ![t] = "idle"]
      /\ callBar' = [callBar EXCEPT ![t] = None]
      /\ sinceBar' = [sinceBar EXCEPT ![t] = 0]
      /\ dueBar' = [dueBar EXCEPT ![t] = 0]
      /\ answerBar' = [answerBar EXCEPT ![t] = None]
  BY <1>2, <1>3, <1>4, OneClientMoves DEF stageBar
<1> QED BY <1>3, <1>5 DEF Cache!Return, stageBar, callBar, sinceBar, dueBar, answerBar

\* Counting is not seen.
LEMMA CountingMapped ==
  ASSUME MapInv, NEW t \in Clients, Record(t) \/ ReadCounters(t)
  PROVE  UNCHANGED <<entries, clock, stageBar, callBar, sinceBar, dueBar, answerBar>>
<1>1. TypeOK /\ t \in Tasks
  BY DEF MapInv, Inv, Tasks
<1>2. \A u \in Clients \ {t} : SameTask(u)
  BY <1>1, OthersStay DEF Tasks, Progress
<1>3. /\ phase[t] \in {"recording", "reading"} /\ phase'[t] \in {"reading", "replying"}
      /\ now'[t] = now[t] /\ cmd'[t] = cmd[t] /\ deadline'[t] = deadline[t]
      /\ entries' = entries /\ clock' = clock
  BY <1>1 DEF Record, ReadCounters, TypeOK
<1>4. Stage(t) = "answered" /\ Stage(t)' = "answered"
  BY <1>3 DEF Stage
<1>5. Answered(cmd[t], reply'[t]) = Answered(cmd[t], reply[t])
  <2>1. CASE Record(t)
    BY <2>1 DEF Record
  <2>2. CASE ReadCounters(t)
    <3>1. cmd[t].op = "STATS"
      BY <1>1, <2>2 DEF ReadCounters, MapInv, CallsOK, CallOK
    <3>2. reply'[t][2] = reply[t][2]
      BY <1>1, <2>2 DEF ReadCounters, TypeOK
    <3> QED BY <3>1, <3>2 DEF Answered
  <2> QED BY <2>1, <2>2
<1>6. Answer(t)' = Answer(t)
  BY <1>3, <1>4, <1>5 DEF Answer
<1>7. SameCall(t)
  BY <1>3, <1>4, <1>6 DEF SameCall
<1>8. \A u \in Clients \ {t} : SameCall(u)
  BY <1>2, SameTaskMapped DEF Tasks, SameTask, SameCall
<1>9. UNCHANGED <<stageBar, callBar, sinceBar, dueBar, answerBar>>
  BY <1>7, <1>8, NoCallMoves
<1> QED BY <1>3, <1>9

\* The sweep forgets keys that have expired by now, whatever clock it read.
LEMMA SweepMapped ==
  ASSUME MapInv, CriticalSection(Cleaner)
  PROVE  Cache!Forget
<1>1. TypeOK /\ Inv /\ ReadingsArePast /\ Cleaner \in Tasks /\ entries \in EntriesType
  BY InvSound DEF MapInv, Inv, Tasks
<1>2. \A u \in Clients : SameTask(u)
  BY <1>1, TaskAssumption, OthersStay DEF Tasks, Progress
<1>3. phase[Cleaner] = "waiting"
  BY <1>1, CriticalSectionExecutes
<1>4. cmd[Cleaner].op = "CLEANUP" /\ cmd[Cleaner] \in CommandSpace
  BY <1>1, <1>3, CommandsOfTasks DEF MapInv, CallsOK, CallOK, CommandsOf
<1>5. PICK o \in Execute(entries, cmd[Cleaner], deadline[Cleaner], now[Cleaner]) :
        Finish(Cleaner, o)
  BY <1>1, CriticalSectionExecutes
<1>6. o = cleanup_expired(entries, now[Cleaner])
  <2>1. Runs(entries, cmd[Cleaner], deadline[Cleaner], now[Cleaner], o)
    BY <1>4, <1>5, ExecuteCases
  <2> QED BY <1>4, <2>1 DEF Runs
<1>7. entries' = Without(entries, ExpiredKeys(entries, now[Cleaner])) /\ clock' = clock
  BY <1>5, <1>6 DEF Finish, cleanup_expired, Outcome, retain_unexpired
<1>8. ExpiredKeys(entries, now[Cleaner]) \in SUBSET Cache!Dead(entries, clock)
  <2>1. \A k \in ExpiredKeys(entries, now[Cleaner]) : k \in ExpiredKeys(entries, clock)
    BY <1>1, PastExpiration DEF ExpiredKeys, Present
  <2> QED BY <2>1, SameKeySpace
<1>9. entries' = Cache!Drop(entries, ExpiredKeys(entries, now[Cleaner]))
  BY <1>7, SameKeySpace
<1> QED BY <1>2, <1>7, <1>8, <1>9, NoClientMoves
        DEF Cache!Forget, stageBar, callBar, sinceBar, dueBar, answerBar

\* Everything else the cleaner does is not seen.
LEMMA CleanerMapped ==
  ASSUME MapInv,
         \/ \E c \in CommandsOf(Cleaner) : Call(Cleaner, c) \/ CallExpire(Cleaner, c)
         \/ EnterExpireAt(Cleaner) \/ Record(Cleaner) \/ ReadCounters(Cleaner) \/ Return(Cleaner)
  PROVE  UNCHANGED <<entries, clock, stageBar, callBar, sinceBar, dueBar, answerBar>>
<1>1. TypeOK /\ Cleaner \in Tasks
  BY DEF MapInv, Inv, Tasks
<1>2. \A u \in Clients : SameTask(u)
  BY <1>1, TaskAssumption, OthersStay DEF Tasks, Progress
<1>3. entries' = entries /\ clock' = clock
  BY DEF Call, CallExpire, EnterExpireAt, Record, ReadCounters, Return
<1> QED BY <1>2, <1>3, NoClientMoves

LEMMA TickMapped ==
  ASSUME MapInv, Tick
  PROVE  Cache!Tick
<1>1. \A u \in Clients : SameTask(u)
  BY DEF Tick, taskVars, SameTask
<1> QED BY <1>1, NoClientMoves DEF Tick, Cache!Tick, stageBar, callBar, sinceBar, dueBar, answerBar

LEMMA InitMapped == Init => Cache!Init
<1> SUFFICES ASSUME Init PROVE Cache!Init
  OBVIOUS
<1>1. \A u \in Clients : /\ Stage(u) = "idle" /\ cmd[u] = None /\ now[u] = 0
                         /\ deadline[u] = 0 /\ Answer(u) = None
  BY DEF Init, Tasks, Stage, Answer
<1> QED BY <1>1 DEF Init, Cache!Init

LEMMA StepMapped ==
  ASSUME MapInv, [Next]_vars
  PROVE  [Cache!Next]_Cache!vars
<1>1. CASE UNCHANGED vars
  <2>1. \A u \in Clients : SameTask(u)
    BY <1>1 DEF vars, SameTask
  <2> QED BY <1>1, <2>1, NoClientMoves
          DEF vars, Cache!vars, stageBar, callBar, sinceBar, dueBar, answerBar
<1>2. CASE Tick
  BY <1>2, TickMapped DEF Cache!Next
<1>3. ASSUME NEW t \in Tasks, NEW c \in CommandsOf(t), Call(t, c) \/ CallExpire(t, c)
      PROVE  [Cache!Next]_Cache!vars
  <2>1. CASE t \in Clients
    BY <1>3, <2>1, CallMapped DEF Cache!Next
  <2>2. CASE t = Cleaner
    BY <1>3, <2>2, CleanerMapped
       DEF Cache!vars, stageBar, callBar, sinceBar, dueBar, answerBar
  <2> QED BY <2>1, <2>2 DEF Tasks
<1>4. ASSUME NEW t \in Clients, Progress(t)
      PROVE  [Cache!Next]_Cache!vars
  <2>1. CASE EnterExpireAt(t)
    BY <2>1, EnterMapped DEF Cache!Next
  <2>2. CASE CriticalSection(t)
    BY <2>2, SectionMapped DEF Cache!Next
  <2>3. CASE Record(t) \/ ReadCounters(t)
    BY <2>3, CountingMapped DEF Cache!vars, stageBar, callBar, sinceBar, dueBar, answerBar
  <2>4. CASE Return(t)
    BY <2>4, ReturnMapped DEF Cache!Next
  <2> QED BY <1>4, <2>1, <2>2, <2>3, <2>4 DEF Progress
<1>5. CASE Progress(Cleaner)
  <2>1. CASE CriticalSection(Cleaner)
    BY <2>1, SweepMapped DEF Cache!Next
  <2>2. CASE EnterExpireAt(Cleaner) \/ Record(Cleaner) \/ ReadCounters(Cleaner) \/ Return(Cleaner)
    BY <2>2, CleanerMapped DEF Cache!vars, stageBar, callBar, sinceBar, dueBar, answerBar
  <2> QED BY <1>5, <2>1, <2>2 DEF Progress
<1> QED BY <1>1, <1>2, <1>3, <1>4, <1>5 DEF Next, Tasks

\* MemoryStore implements the cache: whatever calls overlap, each is answered
\* as if it had run alone, at one instant between its call and its return, on
\* the keys alive at a time it read in between.
THEOREM StoreImplementsCache == Spec => ImplementsCache
<1>1. Init => MapInv
  BY InitMap
<1>2. MapInv /\ [Next]_vars => MapInv'
  BY NextMap
<1>3. MapInv /\ [Next]_vars => [Cache!Next]_Cache!vars
  BY StepMapped
<1> QED BY <1>1, <1>2, <1>3, InitMapped, PTL DEF Spec, ImplementsCache, Cache!Spec

=============================================================================
