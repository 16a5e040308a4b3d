---------------------------- MODULE Server_proofs ---------------------------
(***************************************************************************)
(* Type correctness of Server.tla, for any number of connections and any   *)
(* commands they send, through crashes and restarts; and what a restart    *)
(* brings back, for connections that keep to their own keys.               *)
(*                                                                         *)
(* TypeOK is not inductive: that the log holds nothing but whole durable   *)
(* commands rests on the frames connections carry, its bound on the        *)
(* frames still under way, and the types of the key space on the lists in  *)
(* it not being empty, while serving as well as in the replay (Inv).       *)
(* For the restart, RestartInv keeps the values that the log stands for.   *)
(***************************************************************************)
EXTENDS Server, StoreOps_proofs

DurableOps == {"SET", "DEL", "EXPIREAT", "PERSIST", "LPUSH", "RPUSH", "LPOP", "RPOP"}

Durable == {c \in CommandSpace : c.op \in DurableOps}

Requests ==
  /\ cmd \in [Conns -> CommandSpace \cup {None}]
  /\ frame \in [Conns -> Durable \cup {None}]
  /\ \A c \in Conns : phase[c] = "appending" => frame[c] # None

LogOK ==
  /\ log \in Seq(Durable)
  /\ Len(log) + Cardinality(InFlight) <= MaxLog

Inv == TypeOK /\ Requests /\ LogOK /\ Sound(entries)

----------------------------------------------------------------------------
(* Frames and deadlines.                                                   *)

LEMMA CeilType ==
  ASSUME NEW instant \in Nat
  PROVE  unix_seconds_ceil(instant) \in Nat
<1>1. TicksPerSecond \in Int /\ TicksPerSecond > 0
  BY StoreAssumption
<1>2. \A n \in Nat, d \in Int : d > 0 => n \div d \in Nat
  OBVIOUS
<1>3. instant + TicksPerSecond - 1 \in Nat
  BY <1>1
<1> QED BY <1>1, <1>2, <1>3 DEF unix_seconds_ceil

LEMMA DeadlineType ==
  ASSUME NEW c \in CommandSpace, NEW t \in Time
  PROVE  ResolvedDeadline(c, t) \in Time
<1>1. CASE c.op = "EXPIRE"
  <2>1. c.seconds \in Nat
    BY <1>1, CommandFields
  <2> QED BY <1>1, <2>1, ResolvedType DEF ResolvedDeadline, expire_deadline
<1>2. CASE c.op = "EXPIREAT"
  <2>1. c.seconds \in Nat
    BY <1>2, CommandFields
  <2> QED BY <1>2, <2>1, ZeroIsTime, ResolvedType DEF ResolvedDeadline, expire_at_unix_deadline
<1>3. CASE c.op \notin {"EXPIRE", "EXPIREAT"}
  BY <1>3, ZeroIsTime DEF ResolvedDeadline
<1> QED BY <1>1, <1>2, <1>3

\* What a connection logs is durable and stays as it is when it is logged again.
LEMMA FrameType ==
  ASSUME NEW c \in CommandSpace, NEW t \in Time
  PROVE  to_aof_frame(c, t) \in Durable \cup {None}
<1>1. CASE c.op \in DurableOps
  BY <1>1 DEF to_aof_frame, DurableOps, Durable
<1>2. CASE c.op = "EXPIRE"
  <2> DEFINE s == expiration_deadline(c.seconds, t)
             f == [op |-> "EXPIREAT", key |-> c.key, seconds |-> s]
  <2>1. c.seconds \in Nat /\ c.key \in Keys
    BY <1>2, CommandFields
  <2>2. CheckedAddOr(t, c.seconds, t) \in Nat
    <3>1. CheckedAddOr(t, c.seconds, t) \in Time
      BY <2>1, ResolvedType
    <3>2. Time \subseteq Nat
      BY DEF Time
    <3> QED BY <3>1, <3>2
  <2>3. s \in Nat
    <3> DEFINE instant == CheckedAddOr(t, c.seconds, t)
    <3>1. instant \in Nat
      BY <2>2
    <3> HIDE DEF instant
    <3>2. unix_seconds_ceil(instant) \in Nat
      BY <3>1, CeilType
    <3> QED BY <3>2 DEF expiration_deadline, instant
  <2>4. to_aof_frame(c, t) = f
    BY <1>2 DEF to_aof_frame
  <2> HIDE DEF s
  <2>5. f \in [op : {"EXPIRE", "EXPIREAT"}, key : Keys, seconds : Nat]
    BY <2>1, <2>3
  <2>6. f \in CommandSpace /\ f.op \in DurableOps
    BY <2>5 DEF CommandSpace, DurableOps
  <2> QED BY <2>4, <2>6 DEF Durable
<1>3. CASE c.op \notin DurableOps \cup {"EXPIRE"}
  BY <1>3 DEF to_aof_frame, DurableOps
<1> QED BY <1>1, <1>2, <1>3

LEMMA DurableFrame ==
  ASSUME NEW c \in Durable, NEW t
  PROVE  c \in CommandSpace /\ to_aof_frame(c, t) = c
BY DEF Durable, DurableOps, to_aof_frame

LEMMA LogTyped ==
  ASSUME NEW l \in Seq(Durable), NEW t
  PROVE  \A i \in DOMAIN l : l[i] \in CommandSpace /\ to_aof_frame(l[i], t) = l[i]
BY DurableFrame

----------------------------------------------------------------------------
(* Executing a command, on a connection or in the replay.                  *)

LEMMA ExecutedType ==
  ASSUME Inv, NEW c \in CommandSpace, NEW d \in Time, NEW n, NEW o \in Execute(entries, c, d, n)
  PROVE  o.entries \in EntriesType /\ Sound(o.entries)
BY ExecutedOK DEF Inv, TypeOK

LEMMA EmptyStore == Empty \in EntriesType /\ Sound(Empty)
BY NoKeysSound DEF Empty

LEMMA ClockIsTime == TypeOK => clock \in Time
BY ServerAssumption, StoreAssumption DEF TypeOK, Time

LEMMA InFlightFinite ==
  /\ IsFiniteSet(InFlight) /\ Cardinality(InFlight) \in Nat
  /\ \A S \in SUBSET InFlight : Cardinality(S) \in Nat /\ Cardinality(S) <= Cardinality(InFlight)
<1>1. InFlight \in SUBSET Conns
  BY DEF InFlight
<1>2. IsFiniteSet(InFlight)
  BY <1>1, ServerAssumption, FS_Subset
<1> QED BY <1>2, FS_Subset, FS_CardinalityType

----------------------------------------------------------------------------
(* Inv is an invariant.                                                    *)

LEMMA InitInv == Init => Inv
<1> SUFFICES ASSUME Init PROVE Inv
  OBVIOUS
<1>1. entries \in EntriesType /\ Sound(entries)
  BY EmptyStore DEF Init
<1>2. InFlight = {}
  BY DEF Init, InFlight
<1>3. log = <<>> /\ log \in Seq(Durable) /\ Len(log) = 0 /\ DOMAIN log = {}
  BY EmptySeq DEF Init
<1>4. LogOK
  BY <1>2, <1>3, FS_EmptySet, ServerAssumption DEF LogOK
<1>5. Requests
  BY DEF Init, Requests
<1>6. TypeOK
  <2>1. 0 \in 0..Horizon /\ 0 \in 0..Len(log) /\ Len(log) <= MaxLog
    BY <1>3, ServerAssumption, StoreAssumption DEF Time
  <2> QED BY <1>1, <1>3, <2>1, ZeroIsTime DEF Init, TypeOK
<1> QED BY <1>1, <1>4, <1>5, <1>6 DEF Inv

\* Steps that leave the log and the requests alone.
LEMMA RequestsKept ==
  ASSUME Inv, UNCHANGED <<log, connVars>>
  PROVE  Requests' /\ LogOK'
<1>1. InFlight' = InFlight
  BY DEF InFlight, connVars
<1>2. Requests'
  BY DEF Inv, Requests, connVars
<1>3. LogOK'
  BY <1>1 DEF Inv, LogOK
<1> QED BY <1>2, <1>3

LEMMA TickInv ==
  ASSUME Inv, Tick
  PROVE  Inv'
<1>1. clock' \in 0..Horizon
  BY ServerAssumption, StoreAssumption DEF Inv, TypeOK, Tick, Time
<1>2. \A i \in DOMAIN log : log[i] \in CommandSpace /\ to_aof_frame(log[i], clock') = log[i]
  BY LogTyped DEF Inv, LogOK
<1>3. TypeOK'
  BY <1>1, <1>2 DEF Inv, TypeOK, Tick, connVars
<1> QED BY <1>3, RequestsKept DEF Inv, Tick

LEMMA ReceiveInv ==
  ASSUME Inv, NEW c \in Conns, NEW r \in Commands[c], Receive(c, r)
  PROVE  Inv'
<1>1. r \in CommandSpace /\ r # None
  BY ServerAssumption, NoneAssumption
<1>2. to_aof_frame(r, clock) \in Durable \cup {None}
  BY <1>1, FrameType, ClockIsTime DEF Inv
<1>3. TypeOK'
  BY <1>1, <1>2 DEF Inv, TypeOK, Requests, Receive, Durable
<1>4. Requests'
  BY <1>1, <1>2 DEF Inv, TypeOK, Requests, Receive
<1>5. LogOK'
  <2>1. InFlight' \subseteq InFlight \cup {c}
    BY DEF InFlight, Receive, Inv, TypeOK, Requests
  <2>2. IsFiniteSet(InFlight \cup {c}) /\ Cardinality(InFlight \cup {c}) <= Cardinality(InFlight) + 1
    <3> DEFINE S == InFlight
    <3>1. IsFiniteSet(S) /\ Cardinality(S) \in Nat
      BY InFlightFinite
    <3> HIDE DEF S
    <3>2. /\ IsFiniteSet(S \cup {c})
          /\ Cardinality(S \cup {c}) = IF c \in S THEN Cardinality(S) ELSE Cardinality(S) + 1
      BY <3>1, FS_AddElement
    <3> QED BY <3>1, <3>2 DEF S
  <2>3. Cardinality(InFlight') <= Cardinality(InFlight \cup {c}) /\ Cardinality(InFlight') \in Nat
        /\ Cardinality(InFlight \cup {c}) \in Nat
    BY <2>1, <2>2, FS_Subset, FS_CardinalityType
  <2>4. Len(log) \in Nat /\ MaxLog \in Nat /\ Len(log) + Cardinality(InFlight) < MaxLog
    BY ServerAssumption DEF Inv, LogOK, Receive
  <2>5. Len(log) + Cardinality(InFlight') <= MaxLog
    BY <2>2, <2>3, <2>4, InFlightFinite
  <2> QED BY <2>5 DEF LogOK, Inv, Receive
<1> QED BY <1>3, <1>4, <1>5 DEF Inv, Receive

LEMMA EnterInv ==
  ASSUME Inv, NEW c \in Conns, Enter(c)
  PROVE  Inv'
<1>1. cmd[c] \in CommandSpace
  BY DEF Inv, TypeOK, Requests, Enter
<1>2. clock \in Time /\ ResolvedDeadline(cmd[c], clock) \in Time
  BY <1>1, ClockIsTime, DeadlineType DEF Inv
<1>3. TypeOK'
  BY <1>2 DEF Inv, TypeOK, Enter
<1>4. Requests'
  BY DEF Inv, TypeOK, Requests, Enter
<1>5. InFlight' = InFlight
  BY DEF InFlight, Enter, Inv, TypeOK
<1> QED BY <1>3, <1>4, <1>5 DEF Inv, LogOK, Enter

LEMMA RunInv ==
  ASSUME Inv, NEW c \in Conns, Run(c)
  PROVE  Inv'
<1>1. cmd[c] \in CommandSpace /\ deadline[c] \in Time
  BY DEF Inv, TypeOK, Requests, Run
<1>2. PICK o \in Execute(entries, cmd[c], deadline[c], now[c]) :
        /\ entries' = o.entries
        /\ phase' = [phase EXCEPT ![c] = IF Logs(c, o) THEN "appending" ELSE "replying"]
        /\ versions' = IF Logs(c, o) \/ \E d \in Conns : Unlogged(d)
                       THEN [k \in Keys |-> versions[k] \cup {o.entries[k]}]
                       ELSE [k \in Keys |-> {o.entries[k]}]
  BY DEF Run
<1>3. o.entries \in EntriesType /\ Sound(o.entries)
  BY <1>1, ExecutedType
<1>4. versions' \in [Keys -> SUBSET (Entry \cup {None})]
  <2>1. \A k \in Keys : o.entries[k] \in Entry \cup {None}
    BY <1>3, EntryAt
  <2> QED BY <1>2, <2>1 DEF Inv, TypeOK
<1>5. TypeOK'
  BY <1>2, <1>3, <1>4 DEF Inv, TypeOK, Run
<1>6. Requests'
  BY <1>2 DEF Inv, TypeOK, Requests, Run, Logs
<1>7. LogOK'
  <2>1. InFlight' \in SUBSET InFlight
    BY <1>2 DEF InFlight, Run, Inv, TypeOK
  <2>2. Cardinality(InFlight') \in Nat /\ Cardinality(InFlight') <= Cardinality(InFlight)
    BY <2>1, InFlightFinite
  <2>3. Len(log) \in Nat /\ MaxLog \in Nat /\ Len(log) + Cardinality(InFlight) <= MaxLog
    BY ServerAssumption DEF Inv, LogOK
  <2>4. Len(log) + Cardinality(InFlight') <= MaxLog
    BY <2>2, <2>3, InFlightFinite
  <2> QED BY <2>4 DEF LogOK, Inv, Run
<1> QED BY <1>2, <1>3, <1>5, <1>6, <1>7 DEF Inv

\* The frame moves from the connection into the log.
LEMMA AppendInv ==
  ASSUME Inv, NEW c \in Conns, Append_(c)
  PROVE  Inv'
<1>1. frame[c] \in Durable /\ c \in InFlight
  BY DEF Inv, Requests, Append_, Unlogged, InFlight
<1>2. /\ log \in Seq(Durable) /\ log' = Append(log, frame[c])
      /\ Len(log) \in Nat /\ MaxLog \in Nat
  BY ServerAssumption DEF Inv, LogOK, Append_
<1>3. log' \in Seq(Durable) /\ Len(log') = Len(log) + 1
  BY <1>1, <1>2
<1>4. InFlight' = InFlight \ {c}
  BY DEF InFlight, Append_, Unlogged, Inv, TypeOK
<1>5. Cardinality(InFlight') = Cardinality(InFlight) - 1
  BY <1>1, <1>4, InFlightFinite, FS_RemoveElement
<1>6. Len(log') + Cardinality(InFlight') <= MaxLog
  BY <1>2, <1>3, <1>5, InFlightFinite DEF Inv, LogOK
<1>7. Len(log') <= MaxLog
  <2>1. Cardinality(InFlight') \in Nat
    BY <1>4, InFlightFinite
  <2> QED BY <1>2, <1>3, <1>6, <2>1
<1>8. \A i \in DOMAIN log' : log'[i] \in CommandSpace /\ to_aof_frame(log'[i], clock) = log'[i]
  BY <1>3, LogTyped
<1>9. versions' \in [Keys -> SUBSET (Entry \cup {None})]
  <2>1. \A k \in Keys : entries[k] \in Entry \cup {None}
    BY EntryAt DEF Inv, TypeOK
  <2> QED BY <2>1 DEF Inv, TypeOK, Append_
<1>10. replayed \in 0..Len(log')
  BY <1>2, <1>3 DEF Inv, TypeOK, Append_
<1>11. TypeOK'
  BY <1>7, <1>8, <1>9, <1>10 DEF Inv, TypeOK, Append_, Unlogged
<1>12. Requests'
  BY DEF Inv, TypeOK, Requests, Append_
<1>13. LogOK'
  BY <1>3, <1>6 DEF LogOK
<1> QED BY <1>11, <1>12, <1>13 DEF Inv, Append_

LEMMA ReplyInv ==
  ASSUME Inv, NEW c \in Conns, Reply(c)
  PROVE  Inv'
<1>1. TypeOK'
  BY ZeroIsTime DEF Inv, TypeOK, Requests, Reply
<1>2. Requests'
  BY DEF Inv, TypeOK, Requests, Reply
<1>3. InFlight' = InFlight
  BY DEF InFlight, Reply, Inv, TypeOK
<1> QED BY <1>1, <1>2, <1>3 DEF Inv, LogOK, Reply

LEMMA SweepInv ==
  ASSUME Inv, Sweep
  PROVE  Inv'
<1>1. entries' = Without(entries, ExpiredKeys(entries, clock))
  BY DEF Sweep, cleanup_expired, Outcome, retain_unexpired
<1>2. entries' \in EntriesType /\ Sound(entries')
  BY <1>1, WithoutType, WithoutSound DEF Inv, TypeOK
<1>3. TypeOK'
  BY <1>2 DEF Inv, TypeOK, Sweep, connVars
<1> QED BY <1>2, <1>3, RequestsKept DEF Inv, Sweep

LEMMA CrashInv ==
  ASSUME Inv, Crash
  PROVE  Inv'
<1>1. TypeOK'
  <2>1. 0 \in 0..Len(log)
    BY DEF Inv, LogOK
  <2>2. torn' \in BOOLEAN
    BY DEF Inv, TypeOK, Crash
  <2> QED BY <2>1, <2>2, EmptyStore, ZeroIsTime DEF Inv, TypeOK, Crash, NoRequest
<1>2. Requests'
  BY DEF Requests, Crash, NoRequest
<1>3. InFlight' = {}
  BY DEF InFlight, Crash, NoRequest
<1>4. LogOK'
  <2>1. Len(log) \in Nat /\ Len(log) <= MaxLog /\ Cardinality({}) = 0
    BY FS_EmptySet DEF Inv, TypeOK, LogOK
  <2> QED BY <1>3, <2>1 DEF Inv, LogOK, Crash
<1> QED BY <1>1, <1>2, <1>4, EmptyStore DEF Inv, Crash

LEMMA StartInv ==
  ASSUME Inv, Start
  PROVE  Inv'
<1>1. 0 \in 0..Len(log)
  BY DEF Inv, LogOK
<1>2. TypeOK'
  BY <1>1, EmptyStore DEF Inv, TypeOK, Start, connVars
<1> QED BY <1>2, EmptyStore, RequestsKept DEF Inv, Start

LEMMA ReplayFrameInv ==
  ASSUME Inv, ReplayFrame
  PROVE  Inv'
<1>1. replayed + 1 \in DOMAIN log /\ replayed + 1 \in 0..Len(log)
  BY DEF Inv, TypeOK, LogOK, ReplayFrame
<1>2. log[replayed + 1] \in CommandSpace
  BY <1>1 DEF Inv, TypeOK
<1>3. clock \in Time /\ ResolvedDeadline(log[replayed + 1], clock) \in Time
  BY <1>2, ClockIsTime, DeadlineType DEF Inv
<1>4. entries' \in EntriesType /\ Sound(entries')
  BY <1>2, <1>3, ExecutedType DEF ReplayFrame
<1>5. TypeOK'
  BY <1>1, <1>4 DEF Inv, TypeOK, ReplayFrame, connVars
<1> QED BY <1>4, <1>5, RequestsKept DEF Inv, ReplayFrame

LEMMA ReplayEndInv ==
  ASSUME Inv, ReplayTorn \/ ReplayDone \/ Listen
  PROVE  Inv'
<1>1. [k \in Keys |-> {entries[k]}] \in [Keys -> SUBSET (Entry \cup {None})]
  BY EntryAt DEF Inv, TypeOK
<1>2. TypeOK'
  BY <1>1 DEF Inv, TypeOK, ReplayTorn, ReplayDone, Listen, connVars
<1> QED BY <1>2, RequestsKept DEF Inv, ReplayTorn, ReplayDone, Listen

LEMMA NextInv ==
  ASSUME Inv, [Next]_vars
  PROVE  Inv'
<1>1. CASE UNCHANGED vars
  <2>1. TypeOK'
    BY <1>1 DEF vars, Inv, TypeOK
  <2> QED BY <1>1, <2>1, RequestsKept DEF vars, connVars, Inv
<1> QED BY <1>1, TickInv, ReceiveInv, EnterInv, RunInv, AppendInv, ReplyInv, SweepInv, CrashInv,
           StartInv, ReplayFrameInv, ReplayEndInv DEF Next

LEMMA Invariant == Spec => []Inv
<1>1. Inv /\ [Next]_vars => Inv'
  BY NextInv
<1> QED BY InitInv, <1>1, PTL DEF Spec

----------------------------------------------------------------------------
(* The theorems.                                                           *)

\* The server, its connections and its file keep their types through crashes
\* and restarts; whatever was sent and however it interleaved, the file holds
\* whole durable commands with absolute deadlines that replay can execute.
THEOREM ServerTypeCorrect == Spec => []TypeOK
BY Invariant, PTL DEF Inv

\* The memory limit holds in the replay of a log as it does while serving: the
\* frames are executed under it one by one.
THEOREM MemoryStaysBoundedInReplay == Spec => []WithinLimit(entries)
BY Invariant, PTL DEF Inv, Sound

----------------------------------------------------------------------------
(* What a restart brings back.                                             *)
(*                                                                         *)
(* Under the conditions below a key's value is a function of the frames    *)
(* that name it, in the order of the log, up to the time at which it       *)
(* expires.  RestartInv says that there is a history of these values, one  *)
(* for each length of the log, and that the store agrees with it: with its *)
(* end and what is still to be logged while the server is serving, with    *)
(* the place of the replay while it is replaying.                          *)

\* What may be in the log.
Sent == {r \in UNION {Commands[c] : c \in Conns} : r.op \in DurableOps}

DatedBy(k) == {r \in Sent : r.op = "EXPIREAT" /\ r.key = k}

Instant(r) == r.seconds * TicksPerSecond

\* Section 6 of the README shows what happens without each: evictions are not
\* logged; EXPIRE is logged with its deadline rounded up; connections may be logged
\* in another order than they were executed; a deadline that has passed takes with
\* it, in the replay, what was done to the key before it passed, so a key has one
\* deadline and no command that lifts it or keeps it for a value pushed later.
Independent ==
  /\ Policy = "noeviction"
  /\ \A c \in Conns : \A r \in Commands[c] : r.op # "EXPIRE"
  /\ \A c, d \in Conns : \A r \in Commands[c], s \in Commands[d] :
       c # d /\ r.op \in DurableOps /\ s.op \in DurableOps => NamedKeys(r) \cap NamedKeys(s) = {}
  /\ \A k \in Keys : \A r \in DatedBy(k), s \in Sent : k \in NamedKeys(s) =>
       \/ s.op \in {"SET", "DEL", "LPOP", "RPOP"}
       \/ s.op = "EXPIREAT" /\ s.seconds = r.seconds

\* The replay has room for every write that was accepted.
ReplayHasRoom ==
  mode = "replaying" /\ replayed < Len(log) =>
    \A o \in Execute(entries, log[replayed + 1], ResolvedDeadline(log[replayed + 1], clock), clock) :
      o.reply # OutOfMemory

\* w is what is left of v at time t.
Left(w, v, t) == w = v \/ (w = None /\ v # None /\ is_expired(v, t))

PushedOn(v, values, side) ==
  LET list == IF v = None THEN [type |-> "list", items |-> <<>>, expires_at |-> None] ELSE v
  IN  IF list.type # "list" THEN v
      ELSE [list EXCEPT !.items = IF side = "left" THEN Reverse(values) \o list.items
                                  ELSE list.items \o values]

PoppedOff(v, side) ==
  IF v = None THEN v
  ELSE IF v.type # "list" THEN v
  ELSE LET rest == IF side = "left" THEN Tail(v.items) ELSE Front(v.items)
       IN  IF rest = <<>> THEN None ELSE [v EXCEPT !.items = rest]

\* The value v of key k after frame r, when nothing expires.
After(v, k, r) ==
  IF k \notin NamedKeys(r) THEN v
  ELSE IF r.op = "SET" THEN [type |-> "string", items |-> <<r.value>>, expires_at |-> None]
  ELSE IF r.op = "DEL" THEN None
  ELSE IF r.op = "EXPIREAT"
       THEN IF v = None \/ Instant(r) > MaxInstant THEN None ELSE [v EXCEPT !.expires_at = Instant(r)]
  ELSE IF r.op \in {"LPUSH", "RPUSH"} THEN PushedOn(v, r.values, SideOf(r))
  ELSE IF r.op \in {"LPOP", "RPOP"} THEN PoppedOff(v, SideOf(r))
  ELSE v

\* The values key k may have: with one deadline at most, and no list if it has it.
Possible(k) ==
  {None} \cup {v \in Entry :
                 /\ v.items # <<>>
                 /\ v.expires_at # None => \E r \in DatedBy(k) : v.expires_at = Instant(r)
                 /\ DatedBy(k) # {} => v.type = "string"}

Requested ==
  \A c \in Conns :
    /\ phase[c] # "idle" => frame[c] = IF cmd[c].op \in DurableOps THEN cmd[c] ELSE None
    /\ phase[c] = "waiting" => now[c] <= clock /\ deadline[c] = ResolvedDeadline(cmd[c], now[c])
    /\ mode # "serving" => phase[c] = "idle"

\* The values of all keys after each number of frames of the log.
Traces(past) ==
  /\ \A k \in Keys : past[0][k] = None
  /\ \A i \in 0..Len(log) : \A k \in Keys : past[i][k] \in Possible(k)
  /\ \A i \in 1..Len(log) : \A k \in Keys : past[i][k] = After(past[i - 1][k], k, log[i])

\* Connection c has changed key k and not logged it yet.
Behind(c, k) == Unlogged(c) /\ k \in NamedKeys(frame[c])

Known(v, k) == \E w \in versions[k] : Left(w, v, clock)

\* The value of k at the end of the log, and once c has logged its command.
Logged(past, k) == past[Len(log)][k]

LoggedBy(past, k, c) == After(Logged(past, k), k, frame[c])

\* The store and the history hold the end of the log and what is still to be logged.
Serves(past) ==
  \A k \in Keys :
    /\ Known(Logged(past, k), k)
    /\ \A c \in Conns : Behind(c, k) =>
         Known(LoggedBy(past, k, c), k) /\ Left(entries[k], LoggedBy(past, k, c), clock)
    /\ mode = "serving" /\ (\A c \in Conns : ~Behind(c, k)) => Left(entries[k], Logged(past, k), clock)

Replays(past) ==
  mode \in {"replaying", "replayed"} =>
    \A k \in Keys : Left(entries[k], past[replayed][k], clock)

RestartInv ==
  /\ Requested
  /\ \A i \in 1..Len(log) : log[i] \in Sent
  /\ mode = "replayed" => replayed = Len(log)
  /\ \E past : Traces(past) /\ Serves(past) /\ Replays(past)

----------------------------------------------------------------------------
(* What is left of a value.                                                *)

LEMMA Times == Time \subseteq Nat /\ (TypeOK => clock \in Nat)
BY ServerAssumption, StoreAssumption DEF Time, TypeOK

LEMMA ExpiresAt ==
  ASSUME NEW v \in Entry \cup {None}, v # None
  PROVE  v.expires_at \in Nat \cup {None}
BY EntryFields, Times

LEMMA LeftLater ==
  ASSUME NEW w, NEW v \in Entry \cup {None}, NEW s \in Nat, NEW t \in Nat, s <= t, Left(w, v, s)
  PROVE  Left(w, v, t)
BY ExpiresAt, StoreAssumption DEF Left, is_expired

LEMMA LeftOfLeft ==
  ASSUME NEW u, NEW w, NEW v, NEW t, Left(u, w, t), Left(w, v, t)
  PROVE  Left(u, v, t)
BY DEF Left

LEMMA LeftWithout ==
  ASSUME NEW e, NEW S, NEW n, NEW k \in Keys, k \in S => k \in ExpiredKeys(e, n)
  PROVE  Left(Without(e, S)[k], e[k], n)
BY DEF Left, Without, ExpiredKeys, Present

LEMMA LeftOfRemoved ==
  ASSUME NEW e \in EntriesType, NEW key, NEW n, NEW k \in Keys
  PROVE  /\ Left(remove_if_expired(e, key, n)[k], e[k], n)
         /\ k # key => remove_if_expired(e, key, n)[k] = e[k]
         /\ LET v == remove_if_expired(e, k, n)[k] IN v # None => ~is_expired(v, n)
BY DEF remove_if_expired, Left, Without, ExpiredKeys, Present, EntriesType

----------------------------------------------------------------------------
(* What a command does to each key, when nothing is evicted.               *)

LEMMA Committed ==
  ASSUME Policy = "noeviction", NEW e \in EntriesType, NEW key \in Keys, NEW new \in Entry, NEW reply,
         NEW o \in commit_write([e EXCEPT ![key] = new], key, e[key], reply)
  PROVE  \/ o.entries = e /\ o.reply = OutOfMemory
         \/ o.entries = [e EXCEPT ![key] = new] /\ o.reply = reply
<1>1. CASE CommitUndone(e, o)
  BY <1>1 DEF CommitUndone
<1>2. ASSUME NEW victims \in SUBSET (Keys \ {key}), CommitDone(e, key, new, reply, o, victims)
      PROVE  o.entries = [e EXCEPT ![key] = new] /\ o.reply = reply
  <2>1. victims = {}
    BY <1>2 DEF CommitDone
  <2>2. [e EXCEPT ![key] = new] \in EntriesType
    BY EntryUpdateType
  <2> QED BY <1>2, <2>1, <2>2, WithoutNone DEF CommitDone
<1> QED BY <1>1, <1>2, CommitWriteCases

LEMMA SetDoes ==
  ASSUME Policy = "noeviction", NEW e \in EntriesType, NEW c \in CommandSpace, c.op = "SET", NEW n,
         NEW o \in set(e, c.key, c.value, n)
  PROVE  LET f == remove_if_expired(e, c.key, n)
         IN  \/ o.entries = f /\ o.reply = OutOfMemory
             \/ /\ o.entries = [f EXCEPT ![c.key] =
                                  [type |-> "string", items |-> <<c.value>>, expires_at |-> None]]
                /\ o.reply = Ok
<1> DEFINE f == remove_if_expired(e, c.key, n)
           new == [type |-> "string", items |-> <<c.value>>, expires_at |-> None]
<1>1. f \in EntriesType /\ c.key \in Keys /\ c.value \in Values
  BY RemoveIfExpiredType, CommandFields
<1>2. new \in Entry
  BY <1>1 DEF Entry
<1>3. o \in commit_write([f EXCEPT ![c.key] = new], c.key, f[c.key], Ok)
  BY DEF set
<1> HIDE DEF f, new
<1>4. \/ o.entries = f /\ o.reply = OutOfMemory
      \/ o.entries = [f EXCEPT ![c.key] = new] /\ o.reply = Ok
  BY <1>1, <1>2, <1>3, Committed
<1> QED BY <1>4 DEF f, new

LEMMA PushDoes ==
  ASSUME Policy = "noeviction", NEW e \in EntriesType, NEW c \in CommandSpace,
         c.op \in {"LPUSH", "RPUSH"}, NEW n, NEW o \in push(e, c.key, c.values, SideOf(c), n)
  PROVE  LET f == remove_if_expired(e, c.key, n)
         IN  \/ o.entries = f /\ o.reply = OutOfMemory
             \/ o.entries = [f EXCEPT ![c.key] = PushedOn(f[c.key], c.values, SideOf(c))]
<1> DEFINE f == remove_if_expired(e, c.key, n)
           old == f[c.key]
           list == IF old = None
                   THEN [type |-> "list", items |-> <<>>, expires_at |-> None]
                   ELSE old
           pushed == IF SideOf(c) = "left" THEN Reverse(c.values) \o list.items
                     ELSE list.items \o c.values
           new == [list EXCEPT !.items = pushed]
<1>1. f \in EntriesType /\ c.key \in Keys /\ c.values \in NonEmptySeq(Values)
      /\ SideOf(c) \in Sides
  BY RemoveIfExpiredType, CommandFields DEF SideOf, Sides
<1>2. list \in Entry
  BY <1>1, EntryAt, EmptySeq DEF Entry
<1>3. pushed \in Seq(Values)
  BY <1>1, <1>2, EntryFields, PushedItems
<1>4. new \in Entry
  BY <1>2, <1>3, EntryFields
<1>5. PushedOn(old, c.values, SideOf(c)) = IF list.type # "list" THEN old ELSE new
  BY DEF PushedOn
<1>6. CASE list.type # "list"
  <2>1. o = Quiet(f, WrongType)
    BY <1>6 DEF push
  <2>2. [f EXCEPT ![c.key] = old] = f
    BY <1>1 DEF EntriesType
  <2> QED BY <1>5, <1>6, <2>1, <2>2 DEF Quiet, Outcome
<1>7. CASE list.type = "list"
  <2>1. o \in commit_write([f EXCEPT ![c.key] = new], c.key, f[c.key], Integer(Len(pushed)))
    BY <1>7 DEF push
  <2>2. PushedOn(old, c.values, SideOf(c)) = new
    BY <1>5, <1>7
  <2> DEFINE reply == Integer(Len(pushed))
  <2>3. f \in EntriesType /\ c.key \in Keys /\ o \in commit_write([f EXCEPT ![c.key] = new], c.key, f[c.key], reply)
    BY <1>1, <2>1
  <2> HIDE DEF f, new, pushed, list, old, reply
  <2>4. \/ o.entries = f /\ o.reply = OutOfMemory
        \/ o.entries = [f EXCEPT ![c.key] = new] /\ o.reply = reply
    BY <1>4, <2>3, Committed
  <2> QED BY <2>2, <2>4 DEF f, old
<1> QED BY <1>6, <1>7

LEMMA PopDoes ==
  ASSUME NEW e \in EntriesType, NEW key \in Keys, NEW side, NEW n
  PROVE  LET f == remove_if_expired(e, key, n)
         IN  pop(e, key, side, n).entries = [f EXCEPT ![key] = PoppedOff(f[key], side)]
<1> DEFINE f == remove_if_expired(e, key, n)
           items == f[key].items
           rest == IF side = "left" THEN Tail(items) ELSE Front(items)
<1>1. f \in EntriesType /\ f = [k \in Keys |-> f[k]]
  BY RemoveIfExpiredType DEF EntriesType
<1>2. pop(e, key, side, n).entries =
        IF f[key] = None THEN f
        ELSE IF f[key].type # "list" THEN f
        ELSE IF rest = <<>> THEN Without(f, {key})
        ELSE [f EXCEPT ![key].items = rest]
  BY DEF pop, Quiet, Outcome
<1>3. PoppedOff(f[key], side) =
        IF f[key] = None THEN f[key]
        ELSE IF f[key].type # "list" THEN f[key]
        ELSE IF rest = <<>> THEN None ELSE [f[key] EXCEPT !.items = rest]
  BY DEF PoppedOff
<1>4. /\ [f EXCEPT ![key] = f[key]] = f
      /\ Without(f, {key}) = [f EXCEPT ![key] = None]
      /\ [f EXCEPT ![key].items = rest] = [f EXCEPT ![key] = [f[key] EXCEPT !.items = rest]]
  BY <1>1 DEF Without
<1> HIDE DEF rest, items, f
<1>5. pop(e, key, side, n).entries = [f EXCEPT ![key] = PoppedOff(f[key], side)]
  BY <1>2, <1>3, <1>4
<1> QED BY <1>5 DEF f

\* A key that is not named, or by a command that failed or is not durable, keeps
\* its value or has expired.
LEMMA OthersLeft ==
  ASSUME Policy = "noeviction", NEW e \in EntriesType, NEW c \in CommandSpace, NEW d, NEW n,
         NEW o \in Execute(e, c, d, n), NEW k \in Keys,
         \/ k \notin NamedKeys(c)
         \/ c.op \notin DurableOps \cup {"EXPIRE"}
         \/ o.reply \in {WrongType, OutOfMemory}
  PROVE  Left(o.entries[k], e[k], n)
<1> DEFINE f == remove_if_expired(e, c.key, n)
<1>1. Runs(e, c, d, n, o)
  BY ExecuteCases
<1>2. f \in EntriesType /\ Left(f[k], e[k], n) /\ (k # c.key => f[k] = e[k])
  BY RemoveIfExpiredType, LeftOfRemoved
<1>3. Left(e[k], e[k], n)
  BY DEF Left
<1>4. \A v : [f EXCEPT ![c.key] = v][k] = IF k = c.key THEN v ELSE f[k]
  BY <1>2 DEF EntriesType
<1>5. CASE c.op \in {"GET", "TTL", "LRANGE"}
  <2>1. o.entries = f
    BY <1>1, <1>5 DEF Runs, get, ttl, lrange, Quiet, Outcome
  <2> QED BY <1>2, <2>1
<1>6. CASE c.op \in {"EXISTS", "STATS", "INSPECT", "CLEANUP"}
  <2>1. \/ o.entries = Without(e, ToSet(c.keys) \cap ExpiredKeys(e, n))
        \/ o.entries = Without(e, ExpiredKeys(e, n))
        \/ o.entries = e
    BY <1>1, <1>6 DEF Runs, exists, stats, inspect_keys, cleanup_expired, Quiet, Outcome,
                      retain_unexpired
  <2> QED BY <1>3, <2>1, LeftWithout
<1>7. CASE c.op = "DEL"
  <2>1. NamedKeys(c) = ToSet(c.keys) /\ o.entries = Without(e, ToSet(c.keys))
    BY <1>1, <1>7 DEF NamedKeys, Runs, del, Quiet, Outcome
  <2>2. \E x : o.reply = Integer(x)
    BY <1>1, <1>7 DEF Runs, del, Quiet, Outcome
  <2>3. k \notin ToSet(c.keys)
    BY <1>7, <2>1, <2>2, RepliesDiffer DEF DurableOps
  <2> QED BY <2>1, <2>3 DEF Without, Left
<1>8. CASE c.op \in {"SET", "LPUSH", "RPUSH", "LPOP", "RPOP", "EXPIRE", "EXPIREAT", "PERSIST"}
  <2>1. NamedKeys(c) = {c.key} /\ c.key \in Keys
    BY <1>8, CommandFields DEF NamedKeys
  <2>2. c.op \in DurableOps \cup {"EXPIRE"}
    BY <1>8 DEF DurableOps
  <2>3. \/ o.entries = f
        \/ \E v : o.entries = [f EXCEPT ![c.key] = v] /\ o.reply \notin {WrongType, OutOfMemory}
    <3>1. CASE c.op = "SET"
      <4> DEFINE new == [type |-> "string", items |-> <<c.value>>, expires_at |-> None]
      <4>1. o \in set(e, c.key, c.value, n)
        BY <1>1, <3>1 DEF Runs
      <4>2. o.entries = f \/ (o.entries = [f EXCEPT ![c.key] = new] /\ o.reply = Ok)
        BY <3>1, <4>1, SetDoes
      <4> HIDE DEF new, f
      <4> QED BY <4>2, RepliesDiffer
    <3>2. CASE c.op \in {"LPUSH", "RPUSH"}
      <4>1. o \in push(e, c.key, c.values, SideOf(c), n)
        BY <1>1, <3>2 DEF Runs
      <4>2. WriteEnds(c, f, o)
        BY <3>2, <4>1, PushEnds
      <4>3. ASSUME o.entries # f PROVE o.reply \notin {WrongType, OutOfMemory}
        <5>1. PICK new \in Entry, victims \in SUBSET (Keys \ {c.key}) : Written(c, f[c.key], new, o.reply)
          BY <4>2, <4>3 DEF WriteEnds
        <5>2. o.reply = Integer(Len(new.items))
          BY <3>2, <5>1 DEF Written
        <5> QED BY <5>2, RepliesDiffer
      <4>4. o.entries = f \/ \E v : o.entries = [f EXCEPT ![c.key] = v]
        <5> DEFINE v == PushedOn(f[c.key], c.values, SideOf(c))
        <5>1. o.entries = f \/ o.entries = [f EXCEPT ![c.key] = v]
          BY <3>2, <4>1, PushDoes
        <5> HIDE DEF v, f
        <5> QED BY <5>1
      <4> QED BY <4>3, <4>4
    <3>3. CASE c.op \in {"LPOP", "RPOP"}
      <4>1. o = pop(e, c.key, SideOf(c), n)
        BY <1>1, <3>3 DEF Runs
      <4>2. o.entries = [f EXCEPT ![c.key] = PoppedOff(f[c.key], SideOf(c))]
        BY <2>1, <4>1, PopDoes
      <4>3. o.entries = f \/ o.reply = Null \/ \E x : o.reply = Bulk(x)
        BY <4>1 DEF pop, Quiet, Outcome
      <4>4. Null \notin {WrongType, OutOfMemory} /\ \A x : Bulk(x) \notin {WrongType, OutOfMemory}
        BY DEF Null, Bulk, WrongType, OutOfMemory
      <4> QED BY <4>2, <4>3, <4>4
    <3>4. CASE c.op \in {"EXPIRE", "EXPIREAT"}
      <4>1. o = expire_at(e, c.key, d, n)
        BY <1>1, <3>4 DEF Runs
      <4>2. \/ o.entries = f
            \/ o.entries = Without(f, {c.key})
            \/ o.entries = [f EXCEPT ![c.key].expires_at = d]
        BY <4>1 DEF expire_at, Quiet, Outcome
      <4>3. \E x : o.reply = Integer(x)
        BY <4>1 DEF expire_at, Quiet, Outcome
      <4>4. Without(f, {c.key}) = [f EXCEPT ![c.key] = None]
        BY <1>2 DEF Without, EntriesType
      <4>5. [f EXCEPT ![c.key].expires_at = d] = [f EXCEPT ![c.key] = [f[c.key] EXCEPT !.expires_at = d]]
        BY <1>2 DEF EntriesType
      <4> HIDE DEF f
      <4> QED BY <4>2, <4>3, <4>4, <4>5, RepliesDiffer
    <3>5. CASE c.op = "PERSIST"
      <4>1. o = persist(e, c.key, n)
        BY <1>1, <3>5 DEF Runs
      <4>2. \/ o.entries = f
            \/ o.entries = [f EXCEPT ![c.key].expires_at = None]
        BY <4>1 DEF persist, Quiet, Outcome
      <4>3. \E x : o.reply = Integer(x)
        BY <4>1 DEF persist, Quiet, Outcome
      <4>4. [f EXCEPT ![c.key].expires_at = None] = [f EXCEPT ![c.key] = [f[c.key] EXCEPT !.expires_at = None]]
        BY <1>2 DEF EntriesType
      <4> HIDE DEF f
      <4> QED BY <4>2, <4>3, <4>4, RepliesDiffer
    <3> QED BY <1>8, <3>1, <3>2, <3>3, <3>4, <3>5
  <2>4. CASE o.entries = f
    BY <1>2, <2>4
  <2>5. ASSUME NEW v, o.entries = [f EXCEPT ![c.key] = v], o.reply \notin {WrongType, OutOfMemory}
        PROVE  Left(o.entries[k], e[k], n)
    <3>1. k # c.key
      BY <2>1, <2>2, <2>5
    <3> QED BY <1>2, <1>4, <2>5, <3>1
  <2> QED BY <2>3, <2>4, <2>5
<1> QED BY <1>5, <1>6, <1>7, <1>8, CommandFields

----------------------------------------------------------------------------
(* The values a key may have, and what a logged command makes of them.     *)

LEMMA SentIs ==
  ASSUME NEW r \in Sent
  PROVE  /\ r \in Durable /\ r \in CommandSpace /\ r.op \in DurableOps
         /\ r.op # "DEL" => NamedKeys(r) = {r.key} /\ r.key \in Keys
         /\ r.op = "DEL" => NamedKeys(r) = ToSet(r.keys)
<1>1. r \in CommandSpace /\ r.op \in DurableOps
  BY ServerAssumption DEF Sent
<1>2. r.op # "DEL" => NamedKeys(r) = {r.key} /\ r.key \in Keys
  BY <1>1, CommandFields DEF DurableOps, NamedKeys
<1> QED BY <1>1, <1>2 DEF Durable, NamedKeys

LEMMA Undated ==
  ASSUME Independent, NEW k \in Keys, NEW r \in Sent, k \in NamedKeys(r),
         r.op \in {"PERSIST", "LPUSH", "RPUSH"}
  PROVE  DatedBy(k) = {}
BY DEF Independent

LEMMA OneDeadline ==
  ASSUME Independent, NEW k \in Keys, NEW r \in DatedBy(k), NEW v \in Possible(k), v # None,
         v.expires_at # None
  PROVE  v.expires_at = Instant(r)
<1>1. PICK s \in DatedBy(k) : v.expires_at = Instant(s)
  BY DEF Possible
<1>2. r \in Sent /\ r.op = "EXPIREAT" /\ r.key = k
  BY DEF DatedBy
<1>3. k \in NamedKeys(r)
  BY <1>2, SentIs
<1>4. r.seconds = s.seconds
  BY <1>2, <1>3 DEF Independent
<1> QED BY <1>1, <1>4 DEF Instant

LEMMA PossibleIs ==
  ASSUME NEW k, NEW v \in Possible(k)
  PROVE  /\ v \in Entry \cup {None}
         /\ v # None => v \in Entry /\ v.items # <<>> /\ v.items \in Seq(Values)
         /\ v # None /\ v.type = "list" => DatedBy(k) = {}
         /\ v # None /\ DatedBy(k) = {} => v.expires_at = None
BY EntryFields DEF Possible

\* The other way round.
LEMMA IsPossible ==
  ASSUME NEW k, NEW v \in Entry, v.items # <<>>, v.type = "string" \/ DatedBy(k) = {},
         v.expires_at = None \/ \E r \in DatedBy(k) : v.expires_at = Instant(r)
  PROVE  v \in Possible(k)
BY DEF Possible

LEMMA PushedPossible ==
  ASSUME NEW k, DatedBy(k) = {}, NEW v \in Possible(k), NEW values \in NonEmptySeq(Values),
         NEW side \in Sides
  PROVE  PushedOn(v, values, side) \in Possible(k)
<1> DEFINE list == IF v = None THEN [type |-> "list", items |-> <<>>, expires_at |-> None] ELSE v
           pushed == IF side = "left" THEN Reverse(values) \o list.items ELSE list.items \o values
           new == [list EXCEPT !.items = pushed]
<1>1. list \in Entry /\ list.items \in Seq(Values) /\ list.expires_at = None
  BY PossibleIs, EmptySeq DEF Entry
<1>2. pushed \in Seq(Values) /\ pushed # <<>>
  BY <1>1, PushedItems
<1>3. PushedOn(v, values, side) = IF list.type # "list" THEN v ELSE new
  BY DEF PushedOn
<1> HIDE DEF pushed, list
<1>4. new \in Entry /\ new.items # <<>> /\ new.expires_at = None
  BY <1>1, <1>2 DEF Entry
<1>5. new \in Possible(k)
  BY <1>4, IsPossible
<1> QED BY <1>3, <1>5

LEMMA PoppedPossible ==
  ASSUME NEW k, NEW v \in Possible(k), NEW side \in Sides
  PROVE  PoppedOff(v, side) \in Possible(k)
<1>1. None \in Possible(k)
  BY DEF Possible
<1>2. CASE v = None \/ v.type # "list"
  BY <1>2 DEF PoppedOff
<1>3. CASE v # None /\ v.type = "list"
  <2> DEFINE rest == IF side = "left" THEN Tail(v.items) ELSE Front(v.items)
             new == [v EXCEPT !.items = rest]
  <2>1. /\ v \in Entry /\ v.items \in Seq(Values) /\ v.items # <<>>
        /\ DatedBy(k) = {} /\ v.expires_at = None
    BY <1>3, PossibleIs
  <2>2. rest \in Seq(Values)
    BY <2>1, FrontType
  <2>3. PoppedOff(v, side) = IF rest = <<>> THEN None ELSE new
    BY <1>3 DEF PoppedOff
  <2> HIDE DEF rest
  <2>4. new \in Entry /\ new.items = rest /\ new.expires_at = None
    BY <2>1, <2>2 DEF Entry
  <2>5. rest # <<>> => new \in Possible(k)
    BY <2>1, <2>4, IsPossible
  <2> QED BY <1>1, <2>3, <2>5
<1> QED BY <1>2, <1>3

LEMMA AfterPossible ==
  ASSUME Independent, NEW k \in Keys, NEW v \in Possible(k), NEW r \in Sent
  PROVE  After(v, k, r) \in Possible(k)
<1> DEFINE w == After(v, k, r)
<1>1. None \in Possible(k)
  BY DEF Possible
<1>2. SUFFICES ASSUME k \in NamedKeys(r) PROVE w \in Possible(k)
  BY DEF After
<1>3. r \in CommandSpace /\ r.op \in DurableOps /\ SideOf(r) \in Sides
  BY SentIs DEF SideOf, Sides
<1>4. CASE r.op = "SET"
  <2> DEFINE new == [type |-> "string", items |-> <<r.value>>, expires_at |-> None]
  <2>1. w = new
    BY <1>2, <1>4 DEF After
  <2>2. r.value \in Values
    BY <1>3, <1>4, CommandFields
  <2>3. new \in Entry /\ new.items # <<>> /\ new.type = "string" /\ new.expires_at = None
    BY <2>2 DEF Entry
  <2> HIDE DEF new, w
  <2> QED BY <2>1, <2>3, IsPossible
<1>5. CASE r.op = "DEL"
  BY <1>1, <1>2, <1>5 DEF After
<1>6. CASE r.op = "EXPIREAT"
  <2>1. w = IF v = None \/ Instant(r) > MaxInstant THEN None ELSE [v EXCEPT !.expires_at = Instant(r)]
    BY <1>2, <1>6 DEF After
  <2>2. r \in DatedBy(k)
    BY <1>2, <1>6, SentIs DEF DatedBy
  <2>3. Instant(r) \in Nat
    BY <1>3, <1>6, CommandFields, StoreAssumption DEF Instant
  <2>4. ASSUME v # None, Instant(r) <= MaxInstant
        PROVE  [v EXCEPT !.expires_at = Instant(r)] \in Possible(k)
    <3> DEFINE new == [v EXCEPT !.expires_at = Instant(r)]
    <3>1. v \in Entry /\ v.items # <<>> /\ v.type = "string"
      BY <2>2, <2>4 DEF Possible
    <3>2. Instant(r) \in Time
      BY <2>3, <2>4, StoreAssumption DEF Time
    <3>3. new \in Entry /\ new.items # <<>> /\ new.type = "string" /\ new.expires_at = Instant(r)
      BY <3>1, <3>2 DEF Entry
    <3> HIDE DEF new
    <3>4. new \in Possible(k)
      BY <2>2, <3>3, IsPossible
    <3> QED BY <3>4 DEF new
  <2>5. MaxInstant \in Nat
    BY StoreAssumption
  <2> HIDE DEF w
  <2> QED BY <1>1, <2>1, <2>3, <2>4, <2>5
<1>7. CASE r.op \in {"LPUSH", "RPUSH"}
  <2>1. DatedBy(k) = {} /\ r.values \in NonEmptySeq(Values)
    BY <1>2, <1>3, <1>7, Undated, CommandFields
  <2>2. w = PushedOn(v, r.values, SideOf(r))
    BY <1>2, <1>7 DEF After
  <2> HIDE DEF w
  <2> QED BY <1>3, <2>1, <2>2, PushedPossible
<1>8. CASE r.op \in {"LPOP", "RPOP"}
  <2>1. w = PoppedOff(v, SideOf(r))
    BY <1>2, <1>8 DEF After
  <2> HIDE DEF w
  <2> QED BY <1>3, <2>1, PoppedPossible
<1>9. CASE r.op = "PERSIST"
  BY <1>9 DEF After
<1> QED BY <1>3, <1>4, <1>5, <1>6, <1>7, <1>8, <1>9 DEF DurableOps

\* The main lemma: a command executed on what is left of a value leaves what is
\* left of the value the frame stands for, at this time and at any later one.
LEMMA EffectLeft ==
  ASSUME Independent, NEW e \in EntriesType, NEW r \in Sent, NEW n \in Nat, NEW t \in Nat, n <= t,
         NEW o \in Execute(e, r, ResolvedDeadline(r, n), n), o.reply # OutOfMemory,
         NEW k \in Keys, NEW v \in Possible(k), Left(e[k], v, t)
  PROVE  Left(o.entries[k], After(v, k, r), t)
<1> DEFINE d == ResolvedDeadline(r, n)
           f == remove_if_expired(e, k, n)
           x == f[k]
           w == After(v, k, r)
<1>1. Policy = "noeviction" /\ e[k] \in Entry \cup {None} /\ r \in CommandSpace /\ r.op \in DurableOps
  BY SentIs, EntryAt DEF Independent
<1>2. CASE k \notin NamedKeys(r)
  <2>1. Left(o.entries[k], e[k], n)
    BY <1>1, <1>2, OthersLeft
  <2>2. Left(o.entries[k], e[k], t)
    BY <1>1, <2>1, LeftLater
  <2>3. Left(o.entries[k], v, t)
    BY <2>2, LeftOfLeft
  <2> QED BY <1>2, <2>3 DEF After
<1>3. CASE k \in NamedKeys(r)
  <2>1. f \in EntriesType /\ Left(x, e[k], n) /\ (x # None => ~is_expired(x, n))
    BY RemoveIfExpiredType, LeftOfRemoved
  <2>2. Left(x, v, t)
    BY <1>1, <2>1, LeftLater, LeftOfLeft
  <2>3. Runs(e, r, d, n, o)
    BY <1>1, ExecuteCases
  <2>4. r.op # "DEL" => r.key = k
    BY <1>3, SentIs
  <2>5. DatedBy(k) = {} => x = v
    BY <2>2, PossibleIs DEF Left, is_expired
  <2>6. \A y : [f EXCEPT ![k] = y][k] = y
    BY <2>1 DEF EntriesType
  <2>7. CASE r.op = "SET"
    <3> DEFINE new == [type |-> "string", items |-> <<r.value>>, expires_at |-> None]
    <3>1. w = new
      BY <1>3, <2>7 DEF After
    <3>2. o \in set(e, k, r.value, n)
      BY <2>3, <2>4, <2>7 DEF Runs
    <3>3. \/ o.entries = f /\ o.reply = OutOfMemory
          \/ o.entries = [f EXCEPT ![k] = new]
      <4>1. o \in set(e, r.key, r.value, n)
        BY <2>4, <2>7, <3>2
      <4>2. LET g == remove_if_expired(e, r.key, n)
            IN  \/ o.entries = g /\ o.reply = OutOfMemory
                \/ o.entries = [g EXCEPT ![r.key] = new]
        BY <1>1, <2>7, <4>1, SetDoes
      <4> QED BY <2>4, <2>7, <4>2
    <3> HIDE DEF new, f, w
    <3> QED BY <2>6, <3>1, <3>3 DEF Left, w
  <2>8. CASE r.op = "DEL"
    <3>1. o.entries = Without(e, ToSet(r.keys)) /\ k \in ToSet(r.keys)
      BY <1>3, <2>3, <2>8, SentIs DEF Runs, del, Quiet, Outcome
    <3> QED BY <1>3, <2>8, <3>1 DEF Without, Left, After
  <2>9. CASE r.op = "EXPIREAT"
    <3>1. r \in DatedBy(k) /\ Instant(r) \in Nat /\ MaxInstant \in Nat
      BY <1>1, <2>4, <2>9, CommandFields, StoreAssumption DEF DatedBy, Instant
    <3>2. d = IF Instant(r) <= MaxInstant THEN Instant(r) ELSE n
      BY <2>9, <3>1 DEF ResolvedDeadline, expire_at_unix_deadline, CheckedAddOr, Instant
    <3>3. w = IF v = None \/ Instant(r) > MaxInstant THEN None ELSE [v EXCEPT !.expires_at = Instant(r)]
      BY <1>3, <2>9 DEF After
    <3>4. o.entries[k] = IF x = None \/ d <= n THEN None ELSE [x EXCEPT !.expires_at = d]
      <4>0. o = expire_at(e, k, d, n)
        BY <2>3, <2>4, <2>9 DEF Runs
      <4>1. o.entries = IF x = None THEN f ELSE IF d <= n THEN Without(f, {k})
                        ELSE [f EXCEPT ![k].expires_at = d]
        BY <4>0 DEF expire_at, Quiet, Outcome
      <4>2. Without(f, {k})[k] = None /\ [f EXCEPT ![k].expires_at = d][k] = [x EXCEPT !.expires_at = d]
        BY <2>1 DEF Without, EntriesType
      <4> HIDE DEF d, f, x
      <4> QED BY <4>1, <4>2 DEF x
    <3> DEFINE dated == [v EXCEPT !.expires_at = Instant(r)]
    <3>5. ASSUME v # None, Instant(r) <= MaxInstant
          PROVE  dated.expires_at = Instant(r) /\ dated # None
      <4>1. v \in Entry /\ Instant(r) \in Time
        BY <3>1, <3>5, PossibleIs DEF Time
      <4>2. dated \in Entry /\ dated.expires_at = Instant(r)
        BY <4>1 DEF Entry
      <4> QED BY <4>2, NoneAssumption
    <3>6. CASE v = None \/ Instant(r) > MaxInstant
      <4>1. w = None
        BY <3>3, <3>6
      <4>2. x = None \/ d <= n
        BY <2>2, <3>1, <3>2, <3>6 DEF Left
      <4> QED BY <3>4, <4>1, <4>2 DEF Left
    <3>7. CASE v # None /\ ~(Instant(r) > MaxInstant)
      <4>1. d = Instant(r) /\ w = dated /\ dated.expires_at = Instant(r) /\ dated # None
            /\ Instant(r) # None
        BY <3>1, <3>2, <3>3, <3>5, <3>7, StoreAssumption
      <4>2. CASE x # v
        <5>1. x = None /\ v.expires_at # None /\ v.expires_at <= t
          BY <2>2, <4>2 DEF Left, is_expired
        <5>2. v.expires_at = Instant(r)
          BY <3>1, <3>7, <5>1, OneDeadline
        <5>3. o.entries[k] = None
          BY <3>4, <5>1
        <5> QED BY <4>1, <5>1, <5>2, <5>3 DEF Left, is_expired
      <4>3. CASE x = v /\ d <= n
        <5>1. o.entries[k] = None
          BY <3>4, <4>3
        <5>2. Instant(r) <= t
          BY <3>1, <4>1, <4>3
        <5> HIDE DEF dated, d, w, x
        <5> QED BY <4>1, <5>1, <5>2 DEF Left, is_expired, w
      <4>4. CASE x = v /\ ~(d <= n)
        <5>1. o.entries[k] = dated
          BY <3>4, <3>7, <4>1, <4>4
        <5> HIDE DEF dated, d, w, x
        <5> QED BY <4>1, <5>1 DEF Left, w
      <4> QED BY <4>2, <4>3, <4>4
    <3> QED BY <3>6, <3>7
  <2>10. CASE r.op \in {"LPUSH", "RPUSH"}
    <3>1. x = v
      BY <1>3, <2>5, <2>10, Undated
    <3>2. w = PushedOn(v, r.values, SideOf(r))
      BY <1>3, <2>10 DEF After
    <3>3. o \in push(e, k, r.values, SideOf(r), n)
      BY <2>3, <2>4, <2>10 DEF Runs
    <3>4. o.entries = [f EXCEPT ![k] = PushedOn(x, r.values, SideOf(r))]
      BY <1>1, <2>4, <2>10, <3>3, PushDoes
    <3> HIDE DEF x, f, w
    <3> QED BY <2>6, <3>1, <3>2, <3>4 DEF Left, w
  <2>11. CASE r.op \in {"LPOP", "RPOP"}
    <3>1. w = PoppedOff(v, SideOf(r))
      BY <1>3, <2>11 DEF After
    <3>2. o.entries = [f EXCEPT ![k] = PoppedOff(x, SideOf(r))]
      BY <2>3, <2>4, <2>11, PopDoes DEF Runs
    <3>3. o.entries[k] = PoppedOff(x, SideOf(r))
      BY <2>6, <3>2
    <3>4. CASE x = v
      BY <3>1, <3>3, <3>4 DEF Left
    <3>5. CASE x # v
      <4>1. x = None /\ v # None /\ DatedBy(k) # {}
        BY <2>2, <2>5, <3>5 DEF Left
      <4>2. v.type # "list"
        BY <4>1, PossibleIs
      <4>3. o.entries[k] = x /\ w = v
        BY <3>1, <3>3, <4>1, <4>2 DEF PoppedOff
      <4> QED BY <2>2, <4>3
    <3> QED BY <3>4, <3>5
  <2>12. CASE r.op = "PERSIST"
    <3>1. x = v /\ DatedBy(k) = {}
      BY <1>3, <2>5, <2>12, Undated
    <3>2. w = v
      BY <1>3, <2>12 DEF After
    <3>3. v # None => v.expires_at = None
      BY <3>1, PossibleIs
    <3>4. o.entries = f
      BY <2>3, <2>4, <2>12, <3>1, <3>3 DEF Runs, persist, Quiet, Outcome
    <3> QED BY <3>1, <3>2, <3>4 DEF Left
  <2> QED BY <1>1, <2>7, <2>8, <2>9, <2>10, <2>11, <2>12 DEF DurableOps
<1> QED BY <1>2, <1>3

----------------------------------------------------------------------------
(* RestartInv is an invariant.                                             *)

\* A frame under way is the command its connection was sent.
LEMMA FrameIsCommand ==
  ASSUME Inv, Requested, NEW c \in Conns, phase[c] # "idle", frame[c] # None
  PROVE  frame[c] = cmd[c] /\ cmd[c] \in Commands[c] /\ frame[c] \in Sent
BY DEF Inv, TypeOK, Requested, Sent

LEMMA BehindIs ==
  ASSUME Inv, Requested, NEW c \in Conns, NEW k \in Keys, Behind(c, k)
  PROVE  /\ phase[c] = "appending" /\ frame[c] = cmd[c] /\ cmd[c] \in Commands[c]
         /\ frame[c] \in Sent /\ mode = "serving"
<1>1. phase[c] = "appending" /\ frame[c] # None
  BY DEF Behind, Unlogged, Inv, Requests
<1> QED BY <1>1, FrameIsCommand DEF Requested

LEMMA OneBehind ==
  ASSUME Independent, Inv, Requested, NEW c \in Conns, NEW k \in Keys,
         phase[c] # "idle", frame[c] # None, k \in NamedKeys(frame[c]),
         NEW d \in Conns, Behind(d, k)
  PROVE  d = c
<1>1. frame[c] = cmd[c] /\ cmd[c] \in Commands[c] /\ frame[c] \in Sent
  BY FrameIsCommand
<1>2. frame[d] = cmd[d] /\ cmd[d] \in Commands[d] /\ frame[d] \in Sent /\ k \in NamedKeys(frame[d])
  BY BehindIs DEF Behind
<1>3. cmd[c].op \in DurableOps /\ cmd[d].op \in DurableOps
  BY <1>1, <1>2, SentIs
<1> QED BY <1>1, <1>2, <1>3 DEF Independent

\* The values of a history are values a key may have.
LEMMA Typed ==
  ASSUME Independent, Inv, Requested, NEW past, Traces(past), NEW k \in Keys
  PROVE  /\ Logged(past, k) \in Possible(k)
         /\ \A c \in Conns : Behind(c, k) => LoggedBy(past, k, c) \in Possible(k)
<1>1. Len(log) \in 0..Len(log)
  BY DEF Inv, LogOK
<1>2. Logged(past, k) \in Possible(k)
  BY <1>1 DEF Traces, Logged
<1>3. ASSUME NEW c \in Conns, Behind(c, k) PROVE LoggedBy(past, k, c) \in Possible(k)
  BY <1>2, <1>3, BehindIs, AfterPossible DEF LoggedBy
<1> QED BY <1>2, <1>3

LEMMA KnownLater ==
  ASSUME NEW k \in Keys, NEW v \in Possible(k), clock \in Nat, clock' \in Nat, clock <= clock',
         versions[k] \subseteq versions'[k], Known(v, k)
  PROVE  Known(v, k)'
<1>1. PICK w \in versions[k] : Left(w, v, clock)
  BY DEF Known
<1>2. Left(w, v, clock')
  BY <1>1, PossibleIs, LeftLater
<1> QED BY <1>1, <1>2 DEF Known

\* Time passes and keys expire; no connection falls behind, none catches up.
LEMMA ServesKept ==
  ASSUME Independent, Inv, Requested, NEW past, Traces(past), Serves(past),
         clock' \in Nat, clock <= clock', UNCHANGED <<log, versions>>,
         \A c \in Conns, k \in Keys : Behind(c, k)' => Behind(c, k) /\ frame'[c] = frame[c],
         mode' = "serving" =>
           /\ mode = "serving"
           /\ \A c \in Conns, k \in Keys : Behind(c, k) => Behind(c, k)'
           /\ \A k \in Keys : Left(entries'[k], entries[k], clock'),
         mode' # "serving" => \A c \in Conns, k \in Keys : ~Behind(c, k)'
  PROVE  Serves(past)'
<1>1. clock \in Nat
  BY Times DEF Inv
<1>2. SUFFICES ASSUME NEW k \in Keys
               PROVE  /\ Known(Logged(past, k), k)'
                      /\ \A c \in Conns : Behind(c, k)' =>
                           /\ Known(LoggedBy(past, k, c), k)'
                           /\ Left(entries[k], LoggedBy(past, k, c), clock)'
                      /\ mode' = "serving" /\ (\A c \in Conns : ~Behind(c, k)')
                           => Left(entries[k], Logged(past, k), clock)'
  BY DEF Serves
<1> PICK last : last = Logged(past, k)
  OBVIOUS
<1>3. Logged(past, k)' = last /\ last \in Possible(k) /\ versions[k] \subseteq versions'[k]
  BY Typed DEF Logged
<1>4. Known(last, k)'
  BY <1>1, <1>3, KnownLater DEF Serves
<1>5. ASSUME NEW c \in Conns, Behind(c, k)'
      PROVE  /\ Known(LoggedBy(past, k, c), k)'
             /\ Left(entries[k], LoggedBy(past, k, c), clock)'
  <2>1. Behind(c, k) /\ frame'[c] = frame[c] /\ mode' = "serving"
    BY <1>5
  <2> PICK next : next = LoggedBy(past, k, c)
    OBVIOUS
  <2>2. LoggedBy(past, k, c)' = next /\ next \in Possible(k)
    BY <1>3, <2>1, Typed DEF LoggedBy, Logged
  <2>3. Known(next, k) /\ Left(entries[k], next, clock)
    BY <2>1 DEF Serves
  <2>4. Known(next, k)'
    BY <1>1, <1>3, <2>2, <2>3, KnownLater
  <2>5. Left(entries[k], next, clock')
    BY <1>1, <2>2, <2>3, PossibleIs, LeftLater
  <2>6. Left(entries'[k], next, clock')
    BY <2>1, <2>5, LeftOfLeft
  <2> QED BY <2>2, <2>4, <2>6
<1>6. ASSUME mode' = "serving", \A c \in Conns : ~Behind(c, k)'
      PROVE  Left(entries[k], Logged(past, k), clock)'
  <2>1. Left(entries[k], last, clock)
    BY <1>6 DEF Serves
  <2>2. Left(entries[k], last, clock')
    BY <1>1, <1>3, <2>1, PossibleIs, LeftLater
  <2>3. Left(entries'[k], last, clock')
    BY <1>6, <2>2, LeftOfLeft
  <2> QED BY <1>3, <2>3
<1>7. Known(Logged(past, k), k)'
  BY <1>3, <1>4 DEF Known
<1> QED BY <1>5, <1>6, <1>7

LEMMA ReplaysKept ==
  ASSUME Independent, Inv, Requested, NEW past, Traces(past), Replays(past),
         clock' \in Nat, clock <= clock', UNCHANGED <<log, replayed>>,
         mode' \in {"replaying", "replayed"} =>
           /\ mode \in {"replaying", "replayed"}
           /\ \A k \in Keys : Left(entries'[k], entries[k], clock')
  PROVE  Replays(past)'
<1>1. clock \in Nat
  BY Times DEF Inv
<1>2. SUFFICES ASSUME mode' \in {"replaying", "replayed"}, NEW k \in Keys
               PROVE  Left(entries[k], past[replayed][k], clock)'
  BY DEF Replays
<1> PICK v : v = past[replayed][k]
  OBVIOUS
<1>3. (past[replayed][k])' = v
  OBVIOUS
<1>4. v \in Possible(k)
  BY DEF Traces, Inv, TypeOK
<1>5. Left(entries[k], v, clock)
  BY <1>2 DEF Replays
<1>6. Left(entries[k], v, clock')
  BY <1>1, <1>4, <1>5, PossibleIs, LeftLater
<1>7. Left(entries'[k], v, clock')
  BY <1>2, <1>6, LeftOfLeft
<1> QED BY <1>3, <1>7

\* What is left to show of a step that writes nothing to the log.
LEMMA HistoryKept ==
  ASSUME RestartInv, Requested', UNCHANGED log, mode' = "replayed" => replayed' = Len(log),
         \A past : Traces(past) /\ Serves(past) /\ Replays(past) => Serves(past)' /\ Replays(past)'
  PROVE  RestartInv'
<1>1. PICK past : Traces(past) /\ Serves(past) /\ Replays(past)
  BY DEF RestartInv
<1>2. Traces(past)' /\ Serves(past)' /\ Replays(past)'
  BY <1>1 DEF Traces
<1> QED BY <1>2 DEF RestartInv

\* Steps of the clock, the sweep and of connections that execute and log nothing,
\* and the end of a replay.
LEMMA QuietRestart ==
  ASSUME Independent, Inv, RestartInv, Requested', UNCHANGED <<log, replayed, versions>>,
         clock' \in Nat, clock <= clock',
         \A c \in Conns, k \in Keys : Behind(c, k)' <=> Behind(c, k),
         \A c \in Conns, k \in Keys : Behind(c, k) => frame'[c] = frame[c],
         mode' = mode \/ (mode = "replaying" /\ mode' = "failed")
           \/ (mode = "replaying" /\ mode' = "replayed" /\ replayed = Len(log)),
         \A k \in Keys : Left(entries'[k], entries[k], clock')
  PROVE  RestartInv'
<1>2. Requested
  BY DEF RestartInv
<1>3. \A c \in Conns, k \in Keys : mode' # "serving" => ~Behind(c, k)'
  BY <1>2, BehindIs
<1>4. ASSUME NEW past, Traces(past), Serves(past), Replays(past) PROVE Serves(past)' /\ Replays(past)'
  <2>1. Serves(past)'
    BY <1>2, <1>3, <1>4, ServesKept
  <2>2. Replays(past)'
    BY <1>2, <1>4, ReplaysKept
  <2> QED BY <2>1, <2>2
<1> QED BY <1>4, HistoryKept DEF RestartInv

LEMMA SelfLeft == \A v, t : Left(v, v, t)
BY DEF Left

LEMMA TickRestart ==
  ASSUME Independent, Inv, RestartInv, Tick
  PROVE  RestartInv'
<1>1. clock \in Nat /\ clock' = clock + 1
  BY Times DEF Inv, Tick
<1>2. Requested'
  <2>1. \A c \in Conns : phase[c] = "waiting" => now[c] \in Nat
    BY Times DEF Inv, TypeOK
  <2> QED BY <1>1, <2>1 DEF RestartInv, Requested, Tick, connVars
<1> QED BY <1>1, <1>2, SelfLeft, QuietRestart DEF Tick, connVars, Behind, Unlogged

LEMMA ReceiveRestart ==
  ASSUME Independent, Inv, RestartInv, NEW c \in Conns, NEW r \in Commands[c], Receive(c, r)
  PROVE  RestartInv'
<1>1. clock \in Nat
  BY Times DEF Inv
<1>2. to_aof_frame(r, clock) = IF r.op \in DurableOps THEN r ELSE None
  <2>1. r.op # "EXPIRE"
    BY DEF Independent
  <2> QED BY <2>1 DEF to_aof_frame, DurableOps
<1>3. Requested'
  BY <1>2 DEF RestartInv, Requested, Receive, Inv, TypeOK, Requests
<1>4. \A d \in Conns : (Unlogged(d)' <=> Unlogged(d)) /\ (Unlogged(d) => frame'[d] = frame[d])
  BY DEF Unlogged, Receive, Inv, TypeOK, Requests
<1>5. \A d \in Conns, k \in Keys : (Behind(d, k)' <=> Behind(d, k)) /\ (Behind(d, k) => frame'[d] = frame[d])
  BY <1>4 DEF Behind
<1> QED BY <1>1, <1>3, <1>5, SelfLeft, QuietRestart DEF Receive

LEMMA EnterRestart ==
  ASSUME Independent, Inv, RestartInv, NEW c \in Conns, Enter(c)
  PROVE  RestartInv'
<1>1. clock \in Nat
  BY Times DEF Inv
<1>2. Requested'
  BY <1>1 DEF RestartInv, Requested, Enter, Inv, TypeOK
<1>3. \A d \in Conns : (Unlogged(d)' <=> Unlogged(d)) /\ (Unlogged(d) => frame'[d] = frame[d])
  BY DEF Unlogged, Enter, Inv, TypeOK
<1>5. \A d \in Conns, k \in Keys : (Behind(d, k)' <=> Behind(d, k)) /\ (Behind(d, k) => frame'[d] = frame[d])
  BY <1>3 DEF Behind
<1> QED BY <1>1, <1>2, <1>5, SelfLeft, QuietRestart DEF Enter

LEMMA ReplyRestart ==
  ASSUME Independent, Inv, RestartInv, NEW c \in Conns, Reply(c)
  PROVE  RestartInv'
<1>1. clock \in Nat
  BY Times DEF Inv
<1>2. Requested'
  BY DEF RestartInv, Requested, Reply, Inv, TypeOK, Requests
<1>3. \A d \in Conns : (Unlogged(d)' <=> Unlogged(d)) /\ (Unlogged(d) => frame'[d] = frame[d])
  BY DEF Unlogged, Reply, Inv, TypeOK, Requests
<1>5. \A d \in Conns, k \in Keys : (Behind(d, k)' <=> Behind(d, k)) /\ (Behind(d, k) => frame'[d] = frame[d])
  BY <1>3 DEF Behind
<1> QED BY <1>1, <1>2, <1>5, SelfLeft, QuietRestart DEF Reply

LEMMA SweepRestart ==
  ASSUME Independent, Inv, RestartInv, Sweep
  PROVE  RestartInv'
<1>1. clock \in Nat
  BY Times DEF Inv
<1>2. entries' = Without(entries, ExpiredKeys(entries, clock))
  BY DEF Sweep, cleanup_expired, Outcome, retain_unexpired
<1>3. Requested'
  BY DEF RestartInv, Requested, Sweep, connVars
<1>4. \A k \in Keys : Left(entries'[k], entries[k], clock')
  BY <1>2, LeftWithout DEF Sweep
<1> QED BY <1>1, <1>3, <1>4, QuietRestart DEF Sweep, connVars, Behind, Unlogged

LEMMA ReplayEndRestart ==
  ASSUME Independent, Inv, RestartInv, ReplayTorn \/ ReplayDone
  PROVE  RestartInv'
<1>1. clock \in Nat
  BY Times DEF Inv
<1>2. Requested'
  BY DEF RestartInv, Requested, ReplayTorn, ReplayDone, connVars
<1> QED BY <1>1, <1>2, SelfLeft, QuietRestart
        DEF ReplayTorn, ReplayDone, connVars, Behind, Unlogged

LEMMA CrashRestart ==
  ASSUME Independent, Inv, RestartInv, Crash
  PROVE  RestartInv'
<1>1. clock' = clock /\ clock \in Nat /\ mode' = "down"
  BY Times DEF Inv, Crash
<1>2. \A c \in Conns : phase'[c] = "idle"
  BY DEF Crash, NoRequest
<1>3. Requested'
  BY <1>2 DEF Requested
<1>4. \A c \in Conns, k \in Keys : ~Behind(c, k)'
  BY <1>2 DEF Behind, Unlogged
<1>5. ASSUME NEW past, Traces(past), Serves(past), Replays(past) PROVE Serves(past)' /\ Replays(past)'
  <2>1. Serves(past)'
    BY <1>1, <1>4, <1>5, ServesKept DEF RestartInv, Crash
  <2> QED BY <1>1, <2>1 DEF Replays
<1> QED BY <1>1, <1>3, <1>5, HistoryKept DEF Crash

LEMMA StartRestart ==
  ASSUME Independent, Inv, RestartInv, Start
  PROVE  RestartInv'
<1>1. clock' = clock /\ clock \in Nat /\ mode' = "replaying"
  BY Times DEF Inv, Start
<1>2. Requested' /\ Requested
  BY DEF RestartInv, Requested, Start, connVars
<1>3. \A c \in Conns, k \in Keys : ~Behind(c, k)'
  BY <1>2, BehindIs DEF Start, Behind, Unlogged, connVars
<1>4. ASSUME NEW past, Traces(past), Serves(past), Replays(past) PROVE Serves(past)' /\ Replays(past)'
  <2>1. Serves(past)'
    BY <1>1, <1>2, <1>3, <1>4, ServesKept DEF Start
  <2>2. \A k \in Keys : entries'[k] = None /\ past[replayed'][k] = None
    BY <1>4 DEF Start, Empty, Traces
  <2> QED BY <2>1, <2>2 DEF Replays, Left
<1> QED BY <1>1, <1>2, <1>4, HistoryKept DEF Start

LEMMA ReplayFrameRestart ==
  ASSUME Independent, Inv, RestartInv, ReplayHasRoom, ReplayFrame
  PROVE  RestartInv'
<1>1. clock' = clock /\ clock \in Nat /\ mode' = "replaying" /\ mode = "replaying"
  BY Times DEF Inv, ReplayFrame
<1>2. Requested' /\ Requested
  BY DEF RestartInv, Requested, ReplayFrame, connVars
<1>3. \A c \in Conns, k \in Keys : ~Behind(c, k)'
  BY <1>1, <1>2, BehindIs DEF ReplayFrame, Behind, Unlogged, connVars
<1>4. /\ replayed' = replayed + 1 /\ replayed \in 0..Len(log) /\ replayed + 1 \in 1..Len(log)
      /\ log[replayed + 1] \in Sent
  BY DEF Inv, TypeOK, LogOK, RestartInv, ReplayFrame
<1> DEFINE r == log[replayed + 1]
<1>5. PICK o \in Execute(entries, r, ResolvedDeadline(r, clock), clock) : entries' = o.entries
  BY DEF ReplayFrame
<1>6. o.reply # OutOfMemory
  BY <1>1, <1>5 DEF ReplayHasRoom, ReplayFrame
<1>7. ASSUME NEW past, Traces(past), Serves(past), Replays(past) PROVE Serves(past)' /\ Replays(past)'
  <2>1. Serves(past)'
    BY <1>1, <1>2, <1>3, <1>7, ServesKept DEF ReplayFrame
  <2>2. ASSUME NEW k \in Keys PROVE Left(entries'[k], past[replayed'][k], clock)
    <3>1. past[replayed][k] \in Possible(k) /\ past[replayed + 1][k] = After(past[replayed][k], k, r)
      BY <1>4, <1>7 DEF Traces
    <3>2. Left(entries[k], past[replayed][k], clock)
      BY <1>1, <1>7 DEF Replays
    <3>3. entries \in EntriesType
      BY DEF Inv, TypeOK
    <3>4. Left(o.entries[k], After(past[replayed][k], k, r), clock)
      BY <1>1, <1>4, <1>5, <1>6, <3>1, <3>2, <3>3, EffectLeft
    <3> QED BY <1>4, <1>5, <3>1, <3>4
  <2> QED BY <1>1, <2>1, <2>2 DEF Replays
<1> QED BY <1>1, <1>2, <1>7, HistoryKept DEF ReplayFrame

LEMMA ListenRestart ==
  ASSUME Independent, Inv, RestartInv, Listen
  PROVE  RestartInv'
<1>1. Requested' /\ Requested
  BY DEF RestartInv, Requested, Listen, connVars
<1>2. \A c \in Conns, k \in Keys : ~Behind(c, k)'
  BY <1>1, BehindIs DEF Listen, Behind, Unlogged, connVars
<1>3. replayed = Len(log) /\ mode = "replayed" /\ mode' = "serving"
  BY DEF RestartInv, Listen
<1>4. ASSUME NEW past, Traces(past), Serves(past), Replays(past) PROVE Serves(past)' /\ Replays(past)'
  <2>1. ASSUME NEW k \in Keys PROVE Left(entries[k], Logged(past, k), clock)
    BY <1>3, <1>4 DEF Replays, Logged
  <2>2. \A k \in Keys : Logged(past, k)' = Logged(past, k) /\ versions'[k] = {entries[k]}
    BY DEF Logged, Listen
  <2>3. \A k \in Keys : Known(Logged(past, k), k)' /\ Left(entries[k], Logged(past, k), clock)'
    BY <2>1, <2>2 DEF Known, Listen
  <2> QED BY <1>2, <1>3, <2>3 DEF Serves, Replays
<1> QED BY <1>1, <1>3, <1>4, HistoryKept DEF Listen

LEMMA RunRestart ==
  ASSUME Independent, Inv, RestartInv, NEW c \in Conns, Run(c)
  PROVE  RestartInv'
<1>1. clock' = clock /\ clock \in Nat /\ mode = "serving" /\ mode' = "serving" /\ log' = log
      /\ phase[c] = "waiting" /\ UNCHANGED frame
  BY Times DEF Inv, Run
<1>2. PICK o \in Execute(entries, cmd[c], deadline[c], now[c]) :
        /\ entries' = o.entries
        /\ phase' = [phase EXCEPT ![c] = IF Logs(c, o) THEN "appending" ELSE "replying"]
        /\ versions' = IF Logs(c, o) \/ \E d \in Conns : Unlogged(d)
                       THEN [k \in Keys |-> versions[k] \cup {o.entries[k]}]
                       ELSE [k \in Keys |-> {o.entries[k]}]
  BY DEF Run
<1>3. Requested
  BY DEF RestartInv
<1>4. /\ now[c] \in Nat /\ now[c] <= clock /\ deadline[c] = ResolvedDeadline(cmd[c], now[c])
      /\ cmd[c] \in CommandSpace /\ cmd[c] \in Commands[c] /\ entries \in EntriesType
      /\ cmd[c].op # "EXPIRE" /\ Policy = "noeviction"
  BY <1>1, <1>3, Times DEF Requested, Inv, TypeOK, Requests, Independent
<1>5. Requested'
  BY <1>1, <1>2, <1>3 DEF Requested, Run, Inv, TypeOK
<1>6. \A d \in Conns : Unlogged(d)' <=> IF d = c THEN Logs(c, o) ELSE Unlogged(d)
  BY <1>2 DEF Unlogged, Inv, TypeOK
<1>7. ~Unlogged(c)
  BY <1>1 DEF Unlogged
<1>8. ASSUME NEW past, Traces(past), Serves(past), Replays(past) PROVE Serves(past)' /\ Replays(past)'
  <2>1. SUFFICES ASSUME NEW k \in Keys
                 PROVE  /\ Known(Logged(past, k), k)'
                        /\ \A d \in Conns : Behind(d, k)' =>
                             /\ Known(LoggedBy(past, k, d), k)'
                             /\ Left(entries[k], LoggedBy(past, k, d), clock)'
                        /\ (\A d \in Conns : ~Behind(d, k)') => Left(entries[k], Logged(past, k), clock)'
    BY <1>1 DEF Serves, Replays
  <2> PICK last : last = Logged(past, k)
    OBVIOUS
  <2>2. /\ last \in Possible(k) /\ Known(last, k) /\ Logged(past, k)' = last
        /\ entries[k] \in Entry \cup {None}
    BY <1>1, <1>3, <1>4, <1>8, Typed, EntryAt DEF Serves, Logged
  <2>3. \A d \in Conns : LoggedBy(past, k, d) = After(last, k, frame[d])
                         /\ LoggedBy(past, k, d)' = After(last, k, frame[d])
    BY <1>1, <2>2 DEF LoggedBy
  <2>4. \A d \in Conns : Behind(d, k) => Known(After(last, k, frame[d]), k)
                                         /\ Left(entries[k], After(last, k, frame[d]), clock)
    BY <1>8, <2>3 DEF Serves
  <2>5. (\A d \in Conns : ~Behind(d, k)) => Left(entries[k], last, clock)
    BY <1>1, <1>8, <2>2 DEF Serves
  <2>6. \A v : versions[k] \subseteq versions'[k] /\ Known(v, k) => Known(v, k)'
    BY <1>1 DEF Known
  <2>7. \A v : Left(o.entries[k], v, clock) => Known(v, k)'
    <3>1. o.entries[k] \in versions'[k]
      BY <1>2
    <3> QED BY <1>1, <3>1 DEF Known
  <2>8. CASE Logs(c, o) /\ k \in NamedKeys(frame[c])
    <3>1. frame[c] # None /\ frame[c] = cmd[c] /\ frame[c] \in Sent /\ o.reply # OutOfMemory
      BY <1>1, <1>3, <2>8, FrameIsCommand DEF Logs
    <3>2. \A d \in Conns : Behind(d, k) => d = c
      BY <1>1, <1>3, <2>8, <3>1, OneBehind
    <3>3. \A d \in Conns : ~Behind(d, k)
      BY <1>7, <3>2 DEF Behind
    <3>4. Left(entries[k], last, clock)
      BY <2>5, <3>3
    <3>5. Left(o.entries[k], After(last, k, frame[c]), clock)
      BY <1>1, <1>2, <1>4, <2>2, <3>1, <3>4, EffectLeft
    <3>6. versions[k] \subseteq versions'[k]
      BY <1>2, <2>8
    <3>7. \A d \in Conns : Behind(d, k)' <=> d = c
      BY <1>1, <1>6, <2>8, <3>3 DEF Behind
    <3> PICK next : next = After(last, k, frame[c])
      OBVIOUS
    <3>8. Known(last, k)' /\ Known(next, k)' /\ After(last, k, frame[c])' = next
      BY <1>1, <2>2, <2>6, <2>7, <3>5, <3>6
    <3> QED BY <1>1, <1>2, <2>2, <2>3, <3>5, <3>7, <3>8 DEF Known
  <2>9. CASE ~(Logs(c, o) /\ k \in NamedKeys(frame[c]))
    <3>1. \/ k \notin NamedKeys(cmd[c])
          \/ cmd[c].op \notin DurableOps \cup {"EXPIRE"}
          \/ o.reply \in {WrongType, OutOfMemory}
      <4>1. frame[c] = IF cmd[c].op \in DurableOps THEN cmd[c] ELSE None
        BY <1>1, <1>3 DEF Requested
      <4>2. cmd[c] # None
        BY <1>4, NoneAssumption
      <4> QED BY <1>4, <2>9, <4>1, <4>2 DEF Logs
    <3>2. Left(o.entries[k], entries[k], now[c])
      BY <1>2, <1>4, <3>1, OthersLeft
    <3>3. Left(o.entries[k], entries[k], clock)
      BY <1>1, <1>4, <2>2, <3>2, LeftLater
    <3>4. \A d \in Conns : Behind(d, k)' <=> Behind(d, k)
      BY <1>1, <1>6, <1>7, <2>9 DEF Behind
    <3>5. \A v : Left(entries[k], v, clock) => Left(o.entries[k], v, clock)
      BY <3>3, LeftOfLeft
    <3>6. \A v : Known(v, k) /\ (\E d \in Conns : Behind(d, k)) => Known(v, k)'
      <4>1. (\E d \in Conns : Behind(d, k)) => versions[k] \subseteq versions'[k]
        BY <1>2 DEF Behind
      <4> QED BY <2>6, <4>1
    <3>7. Known(last, k)'
      BY <2>2, <2>5, <2>7, <3>5, <3>6
    <3> QED BY <1>1, <1>2, <2>2, <2>3, <2>4, <2>5, <3>4, <3>5, <3>6, <3>7 DEF Known
  <2> QED BY <2>8, <2>9
<1> QED BY <1>1, <1>5, <1>8, HistoryKept

\* The frame moves from the connection to the end of the log, and the history
\* grows by the values it makes.
LEMMA AppendRestart ==
  ASSUME Independent, Inv, RestartInv, NEW c \in Conns, Append_(c)
  PROVE  RestartInv'
<1>1. /\ clock' = clock /\ mode = "serving" /\ mode' = "serving" /\ frame' = frame /\ entries' = entries
      /\ phase[c] = "appending"
  BY DEF Append_, Unlogged
<1>2. Requested /\ frame[c] # None /\ frame[c] \in Sent
  BY <1>1, FrameIsCommand DEF RestartInv, Inv, Requests
<1>3. Requested'
  BY <1>1, <1>2 DEF Requested, Append_, Inv, TypeOK
<1>4. \A d \in Conns : Unlogged(d)' <=> d # c /\ Unlogged(d)
  BY DEF Append_, Unlogged, Inv, TypeOK
<1>5. /\ Len(log) \in Nat /\ Len(log') = Len(log) + 1 /\ log'[Len(log) + 1] = frame[c]
      /\ \A i \in 1..Len(log) : log'[i] = log[i]
  BY <1>2, SentIs DEF Inv, LogOK, Append_
<1>6. \A i \in 1..Len(log') : log'[i] \in Sent
  <2>1. \A i \in 1..Len(log') : i \in 1..Len(log) \/ i = Len(log) + 1
    BY <1>5
  <2> QED BY <1>2, <1>5, <2>1 DEF RestartInv
<1>7. PICK past : Traces(past) /\ Serves(past) /\ Replays(past)
  BY DEF RestartInv
<1>8. PICK end : end = [k \in Keys |-> LoggedBy(past, k, c)]
  OBVIOUS
<1>9. PICK longer : longer = [i \in 0..(Len(log) + 1) |-> IF i <= Len(log) THEN past[i] ELSE end]
  OBVIOUS
<1>10. /\ \A i \in 0..Len(log) : longer[i] = past[i]
       /\ longer[Len(log) + 1] = end
  BY <1>5, <1>9
<1>11. \A k \in Keys : Logged(past, k) \in Possible(k) /\ end[k] = After(Logged(past, k), k, frame[c])
                       /\ end[k] \in Possible(k)
  BY <1>2, <1>7, <1>8, Typed, AfterPossible DEF LoggedBy
<1>12. Traces(longer)'
  <2>1. \A k \in Keys : longer[0][k] = None
    BY <1>5, <1>7, <1>10 DEF Traces
  <2>2. ASSUME NEW i \in 0..Len(log'), NEW k \in Keys PROVE longer[i][k] \in Possible(k)
    <3>1. i \in 0..Len(log) \/ i = Len(log) + 1
      BY <1>5
    <3> QED BY <1>7, <1>10, <1>11, <3>1 DEF Traces
  <2>3. ASSUME NEW i \in 1..Len(log'), NEW k \in Keys
        PROVE  longer[i][k] = After(longer[i - 1][k], k, log'[i])
    <3>1. CASE i \in 1..Len(log)
      <4>1. i \in 0..Len(log) /\ i - 1 \in 0..Len(log)
        BY <1>5, <3>1
      <4> QED BY <1>5, <1>7, <1>10, <3>1, <4>1 DEF Traces
    <3>2. CASE i = Len(log) + 1
      <4>1. i - 1 = Len(log) /\ Len(log) \in 0..Len(log)
        BY <1>5, <3>2
      <4> QED BY <1>5, <1>10, <1>11, <3>2, <4>1 DEF Logged
    <3> QED BY <1>5, <3>1, <3>2
  <2> QED BY <2>1, <2>2, <2>3 DEF Traces
<1>13. Serves(longer)'
  <2>1. SUFFICES ASSUME NEW k \in Keys
                 PROVE  /\ Known(end[k], k)'
                        /\ \A d \in Conns : Behind(d, k)' =>
                             /\ Known(LoggedBy(longer, k, d), k)'
                             /\ Left(entries[k], LoggedBy(longer, k, d), clock)'
                        /\ (\A d \in Conns : ~Behind(d, k)') => Left(entries[k], end[k], clock)'
    <3>1. \A k \in Keys : Logged(longer, k)' = end[k]
      BY <1>5, <1>10 DEF Logged
    <3> QED BY <1>1, <2>1, <3>1 DEF Serves, Known
  <2> PICK last : last = Logged(past, k)
    OBVIOUS
  <2>2. \A d \in Conns : LoggedBy(longer, k, d)' = After(end[k], k, frame[d])
    BY <1>1, <1>5, <1>10 DEF LoggedBy, Logged
  <2>3. \A d \in Conns : Behind(d, k) => Known(After(last, k, frame[d]), k)
                                         /\ Left(entries[k], After(last, k, frame[d]), clock)
    BY <1>7 DEF Serves, LoggedBy
  <2>4. Known(last, k) /\ ((\A d \in Conns : ~Behind(d, k)) => Left(entries[k], last, clock))
    BY <1>1, <1>7 DEF Serves
  <2>5. versions'[k] = versions[k] \/ (versions'[k] = {entries[k]} /\ \A d \in Conns : Unlogged(d) => d = c)
    BY DEF Append_
  <2>6. \A v : Known(v, k) /\ versions'[k] = versions[k] => Known(v, k)'
    BY <1>1 DEF Known
  <2>7. \A v : Left(entries[k], v, clock) /\ versions'[k] = {entries[k]} => Known(v, k)'
    BY <1>1 DEF Known
  <2>8. CASE k \in NamedKeys(frame[c])
    <3>1. Behind(c, k) /\ end[k] = After(last, k, frame[c])
      BY <1>1, <1>11, <2>8 DEF Behind, Unlogged
    <3>2. Known(end[k], k) /\ Left(entries[k], end[k], clock)
      BY <2>3, <3>1
    <3>3. \A d \in Conns : ~Behind(d, k)'
      <4>1. \A d \in Conns : Behind(d, k) => d = c
        BY <1>1, <1>2, <2>8, OneBehind
      <4> QED BY <1>1, <1>4, <4>1 DEF Behind
    <3>4. Known(end[k], k)'
      BY <2>5, <2>6, <2>7, <3>2
    <3> QED BY <1>1, <3>2, <3>3, <3>4
  <2>9. CASE k \notin NamedKeys(frame[c])
    <3>1. end[k] = last
      BY <1>11, <2>9 DEF After
    <3>2. \A d \in Conns : Behind(d, k)' <=> Behind(d, k)
      BY <1>1, <1>4, <2>9 DEF Behind
    <3>3. versions'[k] = versions[k] \/ (versions'[k] = {entries[k]} /\ \A d \in Conns : ~Behind(d, k))
      BY <2>5, <2>9 DEF Behind
    <3>4. Known(end[k], k)'
      BY <2>4, <2>6, <2>7, <3>1, <3>3
    <3>5. ASSUME NEW d \in Conns, Behind(d, k)'
          PROVE  Known(LoggedBy(longer, k, d), k)' /\ Left(entries[k], LoggedBy(longer, k, d), clock)'
      <4> PICK next : next = After(last, k, frame[d])
        OBVIOUS
      <4>1. LoggedBy(longer, k, d)' = next
        BY <2>2, <3>1
      <4>2. Known(next, k) /\ Left(entries[k], next, clock)
        BY <2>3, <3>2, <3>5
      <4>3. Known(next, k)'
        BY <2>6, <3>2, <3>3, <3>5, <4>2
      <4> QED BY <1>1, <4>1, <4>2, <4>3 DEF Known
    <3>6. (\A d \in Conns : ~Behind(d, k)') => Left(entries[k], end[k], clock)'
      BY <1>1, <2>4, <3>1, <3>2
    <3> QED BY <3>4, <3>5, <3>6
  <2> QED BY <2>8, <2>9
<1>14. Replays(longer)'
  BY <1>1 DEF Replays
<1> QED BY <1>1, <1>3, <1>6, <1>12, <1>13, <1>14 DEF RestartInv

LEMMA InitRestart == Init => RestartInv
<1> SUFFICES ASSUME Init PROVE RestartInv
  OBVIOUS
<1>1. log = <<>> /\ Len(log) = 0 /\ mode = "serving" /\ \A c \in Conns : phase[c] = "idle"
  BY EmptySeq DEF Init
<1> DEFINE past == [i \in {0} |-> [k \in Keys |-> None]]
<1>2. \A k \in Keys : past[0][k] = None /\ None \in Possible(k)
  BY DEF Possible
<1> HIDE DEF past
<1>3. Traces(past)
  <2>1. \A i : i \in 0..Len(log) => i = 0
    BY <1>1
  <2>2. \A i : i \notin 1..Len(log)
    BY <1>1
  <2> QED BY <1>2, <2>1, <2>2 DEF Traces
<1>4. Serves(past)
  <2>1. \A k \in Keys : Logged(past, k) = None /\ entries[k] = None /\ versions[k] = {None}
    BY <1>1, <1>2 DEF Logged, Init, Empty
  <2>2. \A c \in Conns, k \in Keys : ~Behind(c, k)
    BY <1>1 DEF Behind, Unlogged
  <2> QED BY <2>1, <2>2 DEF Serves, Known, Left
<1>5. Requested /\ Replays(past)
  BY <1>1 DEF Requested, Replays
<1> QED BY <1>1, <1>3, <1>4, <1>5 DEF RestartInv

LEMMA NextRestart ==
  ASSUME Independent, Inv, RestartInv, ReplayHasRoom, [Next]_vars
  PROVE  RestartInv'
<1>1. CASE UNCHANGED vars
  <2>1. clock \in Nat /\ Requested'
    BY <1>1, Times DEF Inv, RestartInv, Requested, vars
  <2> QED BY <1>1, <2>1, SelfLeft, QuietRestart DEF vars, Behind, Unlogged
<1> QED BY <1>1, TickRestart, ReceiveRestart, EnterRestart, RunRestart, AppendRestart, ReplyRestart,
           SweepRestart, CrashRestart, StartRestart, ReplayFrameRestart, ReplayEndRestart,
           ListenRestart DEF Next

LEMMA Restarts == ASSUME Independent PROVE Spec /\ []ReplayHasRoom => [](Inv /\ RestartInv)
<1>1. Inv /\ RestartInv /\ ReplayHasRoom /\ [Next]_vars => Inv' /\ RestartInv'
  BY NextInv, NextRestart
<1> QED BY InitInv, InitRestart, <1>1, PTL DEF Spec

\* What RestartInv says when the replay is over.
LEMMA Replayed ==
  ASSUME Inv, RestartInv, mode = "replayed", NEW k \in Keys
  PROVE  \E v : Known(v, k) /\ Left(entries[k], v, clock)
<1>1. PICK past : Traces(past) /\ Serves(past) /\ Replays(past)
  BY DEF RestartInv
<1>2. replayed = Len(log)
  BY DEF RestartInv
<1>3. Known(Logged(past, k), k) /\ Left(entries[k], Logged(past, k), clock)
  BY <1>1, <1>2 DEF Serves, Replays, Logged
<1> QED BY <1>3

----------------------------------------------------------------------------
(* Without a limit there is always room.                                   *)

LEMMA UnlimitedCommits ==
  ASSUME MaxMemory = None, NEW e, NEW key, NEW old, NEW reply, NEW o \in commit_write(e, key, old, reply)
  PROVE  o.reply = reply
<1>1. enforce_memory_limit(e, key) = {{}}
  BY DEF enforce_memory_limit, WithinLimit
<1> QED BY <1>1 DEF commit_write, Outcome

LEMMA UnlimitedWrites ==
  ASSUME MaxMemory = None, NEW e, NEW r \in Sent, NEW d, NEW n, NEW o \in Execute(e, r, d, n)
  PROVE  o.reply # OutOfMemory
<1>1. r \in CommandSpace /\ r.op \in DurableOps
  BY SentIs
<1>2. Runs(e, r, d, n, o)
  BY <1>1, ExecuteCases
<1>3. \A x : Integer(x) # OutOfMemory /\ Bulk(x) # OutOfMemory /\ Null # OutOfMemory
             /\ WrongType # OutOfMemory /\ Ok # OutOfMemory
  BY DEF Integer, Bulk, Null, Ok, WrongType, OutOfMemory
<1>4. CASE r.op = "SET"
  <2>1. o.reply = Ok
    BY <1>2, <1>4, UnlimitedCommits DEF Runs, set
  <2> QED BY <1>3, <2>1
<1>5. CASE r.op \in {"LPUSH", "RPUSH"}
  <2> DEFINE f == remove_if_expired(e, r.key, n)
             old == f[r.key]
             list == IF old = None THEN [type |-> "list", items |-> <<>>, expires_at |-> None] ELSE old
             pushed == IF SideOf(r) = "left" THEN Reverse(r.values) \o list.items
                       ELSE list.items \o r.values
             new == [f EXCEPT ![r.key] = [list EXCEPT !.items = pushed]]
  <2>1. \/ o = Quiet(f, WrongType)
        \/ o \in commit_write(new, r.key, old, Integer(Len(pushed)))
    BY <1>2, <1>5 DEF Runs, push
  <2> HIDE DEF new, pushed, list, old, f
  <2>2. o.reply = WrongType \/ o.reply = Integer(Len(pushed))
    BY <2>1, UnlimitedCommits DEF Quiet, Outcome
  <2> QED BY <1>3, <2>2
<1>6. CASE r.op \in {"LPOP", "RPOP"}
  <2>1. o.reply \in {Null, WrongType} \/ \E x : o.reply = Bulk(x)
    BY <1>2, <1>6 DEF Runs, pop, Quiet, Outcome
  <2> QED BY <1>3, <2>1
<1>7. CASE r.op \in {"DEL", "EXPIREAT", "PERSIST"}
  <2>1. \E x : o.reply = Integer(x)
    BY <1>2, <1>7 DEF Runs, del, expire_at, persist, Quiet, Outcome
  <2> QED BY <1>3, <2>1
<1> QED BY <1>1, <1>4, <1>5, <1>6, <1>7 DEF DurableOps

LEMMA UnlimitedHasRoom ==
  ASSUME Independent, MaxMemory = None, Inv, RestartInv
  PROVE  ReplayHasRoom
<1> SUFFICES ASSUME mode = "replaying" /\ replayed < Len(log),
                    NEW o \in Execute(entries, log[replayed + 1],
                                      ResolvedDeadline(log[replayed + 1], clock), clock)
             PROVE  o.reply # OutOfMemory
  BY DEF ReplayHasRoom
<1>1. replayed + 1 \in 1..Len(log)
  BY DEF Inv, TypeOK, LogOK
<1>2. log[replayed + 1] \in Sent
  BY <1>1 DEF RestartInv
<1> QED BY <1>2, UnlimitedWrites

----------------------------------------------------------------------------
(* The theorems about the restart.                                         *)

LEMMA LiveKeysAgree == ASSUME Inv, RestartInv PROVE ReplayKeepsLiveKeys
<1> SUFFICES ASSUME mode = "replayed", NEW k \in Keys, \A v \in versions[k] : Alive(v, clock)
             PROVE  /\ Alive(entries[k], clock)
                    /\ Content(entries[k]) \in {Content(v) : v \in versions[k]}
  BY DEF ReplayKeepsLiveKeys
<1>1. PICK v : Known(v, k) /\ Left(entries[k], v, clock)
  BY Replayed
<1>2. PICK w \in versions[k] : Left(w, v, clock)
  BY <1>1 DEF Known
<1>3. entries[k] = w
  BY <1>1, <1>2 DEF Left, Alive
<1> QED BY <1>3

LEMMA NothingRevives == ASSUME Inv, RestartInv PROVE ReplayRevivesNothing
<1> SUFFICES ASSUME mode = "replayed", NEW k \in Keys, Alive(entries[k], clock)
             PROVE  \E v \in versions[k] : Alive(v, clock)
  BY DEF ReplayRevivesNothing
<1>1. PICK v : Known(v, k) /\ Left(entries[k], v, clock)
  BY Replayed
<1>2. PICK w \in versions[k] : Left(w, v, clock)
  BY <1>1 DEF Known
<1>3. entries[k] = w
  BY <1>1, <1>2 DEF Left, Alive
<1> QED BY <1>3

\* After a crash at any moment, and any number of them, the replay brings back
\* every key that was alive with the value it had, as long as connections keep to
\* their own keys and no refused write stops the replay (section 6 of the README
\* shows why each condition is needed).  A key whose write had been executed but
\* not logged comes back as it was before or after that write.
THEOREM LiveKeysComeBack ==
  ASSUME Independent
  PROVE  Spec /\ []ReplayHasRoom => []ReplayKeepsLiveKeys
BY Restarts, LiveKeysAgree, PTL

\* Under the same conditions the replay brings back no key that had been deleted
\* or had expired before the crash, however often the server crashed.
THEOREM NoKeyComesBackToLife ==
  ASSUME Independent
  PROVE  Spec /\ []ReplayHasRoom => []ReplayRevivesNothing
BY Restarts, NothingRevives, PTL

\* A server that is given no memory limit, the default, needs no condition on the
\* replay: nothing it had accepted is refused when the file is read.
THEOREM RestartWithoutLimit ==
  ASSUME Independent, MaxMemory = None
  PROVE  Spec => [](ReplayKeepsLiveKeys /\ ReplayRevivesNothing)
<1>1. Inv /\ RestartInv /\ [Next]_vars => Inv' /\ RestartInv'
  BY UnlimitedHasRoom, NextInv, NextRestart
<1>2. Inv /\ RestartInv => ReplayKeepsLiveKeys /\ ReplayRevivesNothing
  BY LiveKeysAgree, NothingRevives
<1> QED BY InitInv, InitRestart, <1>1, <1>2, PTL DEF Spec

=============================================================================
