# A verification project for aerugo-cache

aerugo-cache is a Redis-compatible in-memory cache in Rust (Tokio): strings and
lists with expiration, a memory limit with an eviction policy, and an
append-only file that is replayed on start-up. This directory holds TLA+ models
of it, TLC configurations that check them on small instances, and TLAPS proofs
for every instance: of the store and the cache it implements, its counters and
its eviction loop, of the append-only file and the log it implements, of the
protocol and a connection from end to end, and of the server and the dashboard.
Paths below are relative to
the repository; line numbers are in `PROJECT.json` (`map`).

## 1. Inventory

| Part | State | Operations | Talks to |
|---|---|---|---|
| Storage engine, `src/storage.rs` (`MemoryStore`) | `entries: RwLock<HashMap<String, Entry>>`, `counters: RwLock<StoreCounters>`, a constant `StoreConfig` | `set get del exists expire expire_at_unix ttl persist cleanup_expired lpush rpush lpop rpop lrange stats inspect_keys` | shared by all connection tasks and the sweep through an `Arc` |
| Eviction loop, `src/storage.rs` (`enforce_memory_limit` ... `restore_evicted`) | the `evicted` vector of one run | pick, remove, restore | called by `set` and `push` under the entries lock |
| Commands, `src/command.rs` | none | `from_frame`, `execute`, `to_aof_frame`, `error_frame` | turns frames into store calls and into log frames |
| Server, `src/server.rs` | the store and the file, one task per connection, one task for the sweep | `run`, `handle_connection`, `append_command`, `spawn_expiration_cleanup` | everything above |
| Append-only file, `src/persistence/aof.rs` | a buffered writer behind a mutex, the bytes on disk | `open`, `append`, `replay` | commands, protocol |
| RESP protocol, `src/protocol/` | none | `read_frame`, `write_frame` | sockets and the file |
| RESP client, `src/client.rs` | a connection | `connect`, `command` | protocol |
| Dashboard, `src/tui.rs` | last snapshot, time of the last refresh, last error | refresh, draw, quit | client (two requests per refresh) |
| Command line, `src/main.rs` | none | argument parsing, start | server, dashboard |
| Benchmarks, CI, crate modules | none | | |

What is hard about it:

* **Concurrency.** Every store method reads `SystemTime::now()` *before* it
  awaits the entries lock, and updates the counters *after* it has dropped it.
  Expiration is therefore judged by a past clock, and STATS is put together
  from two moments. Execution and logging are two critical sections with
  nothing that orders them alike.
* **Failure inside an operation.** The memory limit is enforced after the
  write: expired key dropped, value replaced or extended, other keys evicted,
  and then all of it may have to be undone.
* **Time.** Deadlines may be out of `SystemTime`'s range; the log keeps whole
  seconds, rounded up; replay executes old commands at a new clock.
* **Crashes and failed writes.** A frame is flushed item by item, so the file
  may end in a part of one, or hold such a part under the frames of others.
* **The wire.** Requests are pipelined, both sides stop reading while they
  write, and either may be gone at any token.

What makes each part correct:

* storage: memory stays within the limit; a refused write leaves no trace; an
  acknowledged one is there; a live key goes only by a command naming it or by
  eviction; deadlines change only by the commands meant to change them; an
  expired key is as good as missing; no empty lists; exact counters; expired
  keys are collected in the end;
* eviction loop: terminates, with exactly its victims gone or nothing changed;
* server and file: what was alive when the process died is back after the
  restart, what was gone stays gone, and the restart succeeds;
* file: a frame that is not complete is never executed, and an acknowledged
  command comes back;
* protocol, client, connection: only what was sent in full runs, the n-th call
  returns the answer to the n-th request, every call returns, a task ends when
  its client is gone;
* dashboard: what is shown without an error is what the last refresh brought;
  its two halves agree unless something came between them; it ends when told
  to, recovers when the server does, and gives the terminal back.

`PROJECT.json` lists the hazards one by one with the lines where they bite and
the properties that would catch them.

## 2. Modules

| Module | Models | Kind |
|---|---|---|
| `StoreOps` | the critical sections of `storage.rs` as operators on a key space | operators, no variables |
| `MemoryStore` | the store under concurrent tasks: clock reading, lock, critical section, counters, reply | state machine over `StoreOps` |
| `AbstractCache` | what the store promises: atomic calls on a map, no locks, bytes, counters or rollback | abstract specification |
| `StoreRefinement` | the mapping from `MemoryStore` to `AbstractCache` | refinement |
| `EvictionLoop` | the eviction loop, iteration by iteration | state machine over `StoreOps` |
| `Resp` | frames, `write_frame`, the incremental `read_frame` | operators, no variables |
| `Commands` | `from_frame`, the log frame, responses | operators over `Resp` |
| `Server` | connections, the log as a list of commands, time, crash, replay | state machine over `StoreOps` |
| `AbstractLog` | what the file amounts to: commands and a hole | abstract specification |
| `AppendOnlyFile` | the file token by token: appends, failed writes, crash, replay; its mapping to `AbstractLog` | state machine over `Commands` |
| `Session` | one client, one socket, one connection task, end to end | state machine over `StoreOps` and `Commands` |
| `Dashboard` | the dashboard and the server it watches | state machine over `StoreOps` and `Commands` |
| `MCMemoryStore`, `MCEvictionLoop`, `MCServer`, `MCAppendOnlyFile`, `MCSession`, `MCDashboard` | instances for TLC | |
| `StoreOps_proofs` | lemmas on the operators | proofs of lemmas |
| `MemoryStore_proofs` | invariants and action properties of the store, its counters, and that it implements `AbstractCache`, over `StoreOps_proofs` | proofs |
| `EvictionLoop_proofs` | the loop and its one-expression form agree, over `StoreOps_proofs` | proofs |
| `Server_proofs` | types, the limit and what comes back, through crash and replay, over `StoreOps_proofs` | proofs |
| `Resp_proofs` | the reader, and that it reads what `write_frame` writes | proofs |
| `AppendOnlyFile_proofs` | the file, and that it implements `AbstractLog`, over `Resp_proofs` | proofs |
| `Session_proofs` | the connection: what runs and which call gets which answer, over `StoreOps_proofs` and `Resp_proofs` | proofs |
| `Dashboard_proofs` | what is shown and how it ends, over `StoreOps_proofs` | proofs |

How they compose: the critical sections of the store are written once
(`StoreOps`) and executed by five state machines; the protocol is written once
(`Resp`, `Commands`) and carries the file, the connections and the dashboard.
The server is split by what is hard about it. `Server` is about commands and
time and takes appends as atomic; `AppendOnlyFile` is about how a command gets
into the file and out again, and takes no interest in what it does; `Session`
is about one connection and its socket.

### StoreOps

A key space is a function from `Keys` to an entry or `None`. An operator takes
the key space, the arguments and `now`, and gives an *outcome*: the new key
space, the reply, and what the task still has to add to the counters.
`Execute(e, c, deadline, now)` is the set of outcomes of a command; it has more
than one element only when eviction chooses. Names are those of the code.

* A string entry holds its payload as its only item, so that strings and lists
  share a shape. Payloads are abstract values with a length (`ValueLen`).
* The memory estimate is the *number of charged bytes*: `Footprint(e)` has one
  element per byte the code adds up (overhead, key, payload, per-item
  overhead), and `estimated_memory_bytes` is its cardinality. The sum of the
  code and this count are the same number; the set form makes "removing
  something never costs memory" a fact about subsets, which is what the proofs
  use.
* `evict_until_within_limit` is the set of victim sets the loop can end with.
  `EvictionLoop` checks it against the loop, both ways.
* The match at the end of `set` and `push` on `enforce_memory_limit` is one
  operator, `commit_write`.
* `normalize_range` is translated step by step, its signed arithmetic and
  clamping included. `AbstractCache!Slice` defines the same range by positions.
* Time is counted in ticks, `TicksPerSecond` to the second; `MaxInstant` is the
  last instant `SystemTime` can represent, `CheckedAddOr` its `checked_add`.

### MemoryStore, AbstractCache and StoreRefinement

One action per step between two awaits. `Call` samples the clock and queues;
`EXPIRE`/`EXPIREAT` resolve their deadline first (`CallExpire`) and sample the
clock a second time (`EnterExpireAt`), as `expire` and `expire_at` do; `Set`,
`Get`, ... are the critical sections; `Record` adds to the counters;
`ReadCounters` is the second half of STATS; `Return` hands the reply back.
`Tick` may come between any two. The sweep is one more task, `Cleaner`.
`INFO`, `DBSIZE` and `AERUGO.STATS` all call `stats` and are one command
`STATS`. `happened` is a history variable: it counts, from the key spaces alone,
the events that the counters stand for.

`AbstractCache` has four kinds of step: a call, its effect, its return, and
`Forget`, the disappearance of any expired keys. Its operations are written
without looking at the code's: an accepted write may cost other keys where the
cache evicts, a write may be refused and then changes nothing, a range is a set
of positions. `StoreRefinement` maps the critical section to `Perform`, the
sweep's to `Forget`, the second clock reading to `Look`, and the counters to
nothing. So a rollback that restored too little, an expiration judged by a
clock reading older than the call, a count of deleted keys that counts one
twice, or an LRANGE off by one at either end is a step `AbstractCache` does not
have.

### EvictionLoop

Starts in every key space over a set of entry shapes, with any key as the one
just written, and runs `enforce_memory_limit` to its result. The victim is an
arbitrary candidate: in the code it depends on the sub-second part of the clock
and on the iteration order of the HashMap.

### Resp and Commands

The wire is a sequence of tokens, one per line; the length line of a bulk
string and its payload are one token. `write_frame` gives the tokens of a
frame. `read_frame(open, token)` is the reader one token at a time: `open` holds
the arrays that the nested `read_array` calls are in the middle of, outermost
first, and the result is what is open afterwards and the frame, if this token
completed one. A frame that arrives completes the innermost array perhaps, that
one the next, and so on: `StillOpen` is how many arrays stay open, `Nested` the
item that reaches the innermost of these. The lines `read_frame` of `parser.rs`
treats by their first byte are the cases of `FrameOf`; a line that starts with
`-` is among the inline commands, as there. `Reading` is the reader after each
token of a message. `Cut` is what is left of a line whose writer died inside it
and which `read_until` still returns: fewer words of an inline command or an
error, the first digits of an integer (`Leading`). `CutShort` is what the reader
makes of a frame whose last line is cut; if the frame is a row of
AERUGO.INSPECT, this is a whole response with a wrong last number.

`Commands` gives each command a signature, the fields it takes and how each is
parsed, from which come arity, the order of the errors, and the fields.
Numbers, UTF-8 and upper case are constants on payloads (`Numeral`, `NotUtf8`,
`Uppercase`). `response` goes from the store's reply to the frame: an
`error_frame`, or the `success_frame` of the command.

### Server

A connection's request is `Receive` (decode; build the log frame, which turns
EXPIRE into an absolute deadline at *this* clock), `Enter` (the store samples
the clock), `Run` (the critical section), `Append_` (unless the command failed
or is not durable), `Reply`. `Sweep` is the expiration task. `Crash` may come at
any moment; it takes the memory and the tasks and, if a frame was being
appended, may leave a part of it (`torn`). `Start`, `ReplayFrame`, `ReplayTorn`,
`ReplayDone`, `Listen` are start-up. `versions[k]` is a history variable: what
key `k` has held since the file last had every executed write. It has one
element while nothing is unlogged and more only while an executed write waits
for its append, so the properties allow no more than what the writes in flight
make possible.

### AppendOnlyFile and AbstractLog

A connection asks for the writer's mutex (`Ask`; `queue` is the mutex, granted
in order), writes its frame in as many writes as `write_frame` flushes
(`Write`), and returns (`AppendOk`). A write may fail (`AppendErr`): what was
written before it stays, the guard is dropped, the client is told `ERR`.
`Crash` may come between any two writes. `Start` and `ReplayToken` read the file
with `read_frame`; at its end it is either `ReplayEnd` or, inside an array,
`ReplayFails`.

`AbstractLog` says what this amounts to. A frame that lacks *m* items is a hole
of depth *m*: the next frames are read as its items, one each, and only when the
hole is filled does replay see commands again. The commands that fell into it
were acknowledged and are never executed. What is promised even so: the frame
itself never becomes a command, whatever follows it, because an item that is an
array is not a bulk string; and commands appended while there is no hole are
replayed as they are, in order.

The fault model, named: a write puts its tokens into the file or none of them
(a line longer than the 8 KiB of the `BufWriter`, or cut off by a full disk, is
not modelled), and the tokens of a failed write are gone: tokio's `File` takes
them from the `BufWriter` and drops them. What was flushed survives the process. The code calls `flush`, not `sync_all`, so a crash of the machine
may take more than the model lets it.

### Session

The client writes the tokens of a request (`ClientWrite`) and reads the answer
(`ClientRead`); `window` 1 is `RespClient`, which does one after the other, and
`window` 2 is a client that pipelines. `up` and `down` are the socket's two
directions, `Capacity` tokens each. The server's task reads a token
(`ServerRead`), which on the last one of a frame also parses, executes and
builds the response; it writes it token by token (`ServerWrite`) and goes back
to reading. The client may be dropped and the process may die at any token and
in the middle of one (`ClientDrops`, `ServerDies`). A request is a frame and the
tokens a client sends for it, in any of the forms `read_frame` takes: an array,
an inline command, an empty line, or lines of which the last does not parse
(`Complete`). The append that happens
between execution and response is `Server`'s and `AppendOnlyFile`'s concern.

### Dashboard

`phase` is the place in `run`: set-up, the top of the loop, the three awaits of
a refresh (connect, AERUGO.STATS, AERUGO.INSPECT), drawing, polling, restoring.
`Top` and `Poll` decide on a refresh as `run_loop` does; `elapsed` is the time
since `last_refresh`, saturated at the interval. The responses are built by
`stats`, `inspect_keys` and `response`, and parsed by `parse_stats` and
`parse_key_row`, so that the numbers make the whole trip. `Fail` is the `Err` arm
of `refresh_snapshot`. `snapshot` is an `Option`, here a set of at most one
element. During a refresh the store is one of `Stores`, and the
server's other clients (`OtherClient`) and its clock change it between the two
requests. The server stops and starts at any time; as `"foreign"` it is another
program that answers both requests with an error line. History variables:
`fresh`, `summarised`, `io_failed` and the snapshot's field `unchanged`.

## 3. Runs

All constants are small: entries cost 2 bytes of overhead instead of 64, list
items 1 instead of 24, the store's limit is 8, and payloads are 1, 3 or 6
bytes, so that one small string fits with another, a big one forces a choice,
and a huge one never fits. `session`, where memory is not the question, has room
for a list of ten items.

| Run | Question | Bounds |
|---|---|---|
| `store_strings` | SET, DEL, EXPIRE (also out of range), PERSIST under `noeviction`: types, rollback, survival of live keys, expired as missing, refinement of `AbstractCache` | 2 clients (symmetric) and the sweep, 2 keys, 3 instants |
| `store_lists` | pushes, pops, SET and EXPIREAT under `allkeys-random`: limit, empty lists, refusals, acknowledged writes, deadlines, counters, refinement | same, 2 instants, counters wrap at 2 |
| `store_reads` | all reading commands, STATS and INSPECT against expiring strings and lists, refinement; what STATS misses; expired keys are collected | 1 client and the sweep, 3 instants, 2 per second, fairness |
| `eviction_loop` | the loop and its specification agree; it ends | 3 keys, 4 shapes, every start |
| `server_restart` | two concurrent clients on their own keys and one log, an EXPIRE whose deadline is rounded up among what they send: what was alive is back, what was gone stays gone | 2 clients, log of 4, 3 instants, 2 per second, any number of restarts |
| `append_only_file` | appends of two connections with failed writes, crashes and replays: refinement of `AbstractLog`, acknowledged commands come back, appends return | 3 appends of frames of 2, 3 and 4 items, 2 failures, any number of crashes and restarts, fairness |
| `session` | requests of every outcome over a bounded socket: what runs, which call gets which answer, every call returns, the task ends | 3 of 10 requests, 2 tokens per direction, windows 1 and 2, either side gone at any token and inside one, fairness |
| `dashboard` | refreshes against a store that changes, a server that stops, starts and changes kind, a terminal that fails | 3 keys of which 2 are shown, 2 waiting key presses, interval 1, fairness |
| `server_same_key`, `server_extend_life`, `aof_torn`, `session_errors` | the disagreements of section 6 | see the cfg files |

Why the bounds are enough to be of use. A conflict over an entry needs two
callers and the sweep; a stale clock reading needs a deadline that passes
between reading and lock, so two instants at least; eviction with a choice
needs three keys, which `eviction_loop` has; a rollback that lost something
would show with one other key. The counters wrap within a run. In the file, a
hole needs a failed or cut append, a second append to fall into it and a third
to come after it; frames of different lengths leave holes that one frame fills
and holes that need two. In a session, a lost or surplus response shows at the
next request, and a third one is there while two are under way; a direction of
two tokens is shorter than every array, so both sides block in the middle of
frames; a list of ten items gives AERUGO.INSPECT a last line of two digits, of
which one may arrive. In the dashboard, a quit key may wait behind a refresh key, there are
more keys than the limit shows and also fewer, and one of them expires or is
overwritten between the two requests. The horizon, the length of the log and
the numbers of appends, requests and waiting keys are bounds of the models and
not of the code; the theorems of section 5 hold for all of them.

`EvictionLoop`, `Session` and `Dashboard` have `CHECK_DEADLOCK FALSE`: the loop
returns, both ends may be closed, the dashboard quits. Symmetry is used on
clients in the runs without liveness only.

## 4. Fairness

* `MemoryStore!Fairness` is weak fairness of each task's `Progress` and of the
  sweep's next call. The first is the Tokio runtime polling every task that can
  run, with `RwLock`s that are granted in the order they were asked for and
  critical sections that do not await; the second is `time::interval` in
  `spawn_expiration_cleanup`. Nothing is assumed of clients or of the clock.
* `EvictionLoop!Spec` has weak fairness of `Next`: the loop runs under the lock
  without awaiting and can only stop by returning.
* `AppendOnlyFile!FairSpec`: an append whose connection holds the mutex goes on
  (it is polled, and a write succeeds or fails), and so does a replay. Nothing
  is assumed of whoever starts the process again.
* `Session!FairSpec`: the connection task goes on whenever it can read or write,
  and so do the client's writing and its reading. Separate conditions for
  the two let a pipelining client do both, which is what `CallsReturn` needs:
  one that writes without ever reading can block the server, and through it
  itself. Nothing is assumed of drops, deaths and new requests.
* `Dashboard!FairSpec`: the loop goes on, and time passes. Fairness of the loop
  includes that a server which took the connection answers or closes it. The
  dashboard has no timeout: a server that does neither freezes it, and with it
  the quit key. `RecoversByItself` starts from a server that stays up.

`Server` has no liveness: that every request is answered is `Session`'s.

## 5. Proofs

TLC checks the instances of section 3; TLAPS proves the following for every
value of the constants that satisfies the assumptions below.

| Module | Theorem | Property |
|---|---|---|
| `MemoryStore_proofs` | `TypeCorrect` | `TypeOK` |
| | `MemoryStaysBounded` | `MemoryBounded` |
| | `NoListIsEmpty` | `NoEmptyList` |
| | `ExpiredCountsAsMissing` | `ExpiredIsMissing` |
| | `WritesRollBack` | `RejectedWriteRollsBack` |
| | `AcknowledgedWritesAreStored` | `AcknowledgedWriteIsStored` |
| | `LiveKeysAreKept` | `LiveKeysSurvive` |
| | `DeadlinesHaveProvenance` | `DeadlineProvenance` |
| | `OnlyHopelessWritesAreRejected` | `RejectedOnlyWhenHopeless` |
| | `CountersAreExact` | `CountersExact` |
| | `StatsMissOnlyWhatOthersCarry` | `StatsMissOnlyOthers` |
| | `StoreImplementsCache` | `ImplementsCache` |
| `EvictionLoop_proofs` | `EvictionSucceedsAsSpecified` | `SuccessAsSpecified` |
| | `EvictionFailureRestores` | `FailureRestoresEverything` |
| | `EveryAllowedSetIsReached` | `EveryVictimSetIsPossible` |
| `Server_proofs` | `ServerTypeCorrect` | `TypeOK` |
| | `MemoryStaysBoundedInReplay` | the limit, in replay as well |
| | `LiveKeysComeBack` | `ReplayKeepsLiveKeys`, if `Independent` and while `ReplayHasRoom` |
| | `NoKeyComesBackToLife` | `ReplayRevivesNothing`, likewise |
| | `RestartWithoutLimit` | both, if `Independent` and there is no memory limit |
| `Resp_proofs` | `WrittenFramesAreRead` | the protocol's two halves are inverse |
| `AppendOnlyFile_proofs` | `LogTypeCorrect` | `TypeOK` |
| | `AcknowledgedComeBack` | `AcknowledgedIsRestored` |
| | `FileImplementsLog` | `ImplementsLog` |
| `Session_proofs` | `SessionTypeCorrect` | `TypeOK` |
| | `OnlyWholeRequestsAreRun` | `OnlyWholeRequestsRun` |
| | `EveryAnswerMatches` | `AnswersMatch` |
| `Dashboard_proofs` | `DashboardTypeCorrect` | `TypeOK` |
| | `StaleSnapshotsAreFlagged` | `StaleIsFlagged` |
| | `TerminalIsGivenBack` | `TerminalRestored` |

### Assumptions

All are named, and TLC evaluates them in the runs. Keys, clients and connections
are finite sets of any size: a HashMap and a process hold finitely many, and
footprints, victim sets and counts are cardinalities. `None` is none of the
values it stands beside (`NoneAssumption`). `StoreAssumption` says that lengths
and overheads are natural numbers. `DashboardAssumption` asks of the stores a
dashboard may find what the theorems of `MemoryStore_proofs` say of every store:
typed, within the limit, without empty lists. `FileAssumption` says of the
logged commands that they are commands: the frame of each parses back to it,
and the arguments of DEL and pushes are sequences of strings. `SessionAssumption`
says what a request is: tokens that are one frame with the last of them and none
before (`Complete`), which makes no client well-behaved, since a client that
sends something else sends another sequence of such requests or part of one; and
that the commands among them, and among what is left of one that is cut, name
keys and values of the model (`Understood`). The clock does not
go back during the life of a process, an assumption about the host, as
`SystemTime` is not monotonic. None of the bounds (`Horizon`, `MaxLog`,
`MaxAppends`, `MaxTyped`, ...) is restricted, but for being a number.

### The store

The inductive invariant is `Inv == TypeOK /\ MemoryBounded /\ NoEmptyList`. Its
parts need each other. The head or tail a pop takes is in the type only if the
list is not empty. And the limit holds after a step because each step either
passed `enforce_memory_limit`, restored a key space that was within it, or
removed charged bytes; that last argument compares footprints, and these are
finite only for entries of their type. `StoreOps_proofs` states for every
operator that it keeps types (`ExecuteType`) and keeps `Sound`, the limit and
non-empty lists (`ExecuteSound`); `MemoryStore_proofs` shows that every
critical section is a step of `Execute` (`CriticalSectionExecutes`), so one
lemma covers all thirteen.

The action properties follow from `Inv` and two descriptions of what a command
may do to a key: `WritesEnd` (a write is undone, or done at the cost of other
keys) and `OthersKeepOrDrop` (any other command keeps an entry with its
deadline, or drops it because it had expired or was named). Those about live
keys and deadlines also need `ReadingsArePast` (`now[t] <= clock`): what a
critical section takes for expired by its own reading has expired.
`ExpiredIsMissing` is a lemma on the operators, `StaleIsMissing`, which compares
a command on a key space with the same command on what the sweep leaves of it.
`RejectedOnlyWhenHopeless` needs a victim set wherever the written entry alone
fits: evicting everything else is enough, so there are sets that are enough,
and a smallest of these, which exists because the keys are finite, is one that
`evict_until_within_limit` allows.

### The counters

`CountersExact` adds up what all tasks still carry. It is inductive only with
`IdleCountsNothing`: a task that is not recording carries nothing, so a critical
section adds what it brings about, `Record` moves it, and neither overwrites
anything. Sums over the set of tasks are cardinalities of sets of (task, unit)
pairs, so that one task's change is a union or a difference and no induction is
needed; wrapping is `%` by any modulus. `StatsMissOnlyOthers` reads off from it
what a STATS reply lacks.

### The store implements the cache

`EffectSimulated` is the heart: whatever `Execute` computes for a command at a
reading, the cache allows as the effect of that command on the same keys. It is
shown one command at a time, from both definitions: a commit is an accepted or
refused write at some victims' cost, `normalize_range` cuts out the positions
of `AbstractCache!Slice`, a count of deleted or existing keys is the
cardinality of a set of positions. Then `MapInv == Inv /\ ReadingsArePast /\
CallsOK` (a call keeps the command its own task issued, EXPIRE's deadline is
gone when it returns, only STATS reads counters) is invariant, and under it each
step is a step of the cache or a stutter: the critical section is the
linearisation point, `Record` and `ReadCounters` are stutters, the sweep is
`Forget`.

### The eviction loop

`LoopInv` says that the vector of evicted pairs describes, in the loop as in the
rollback, the difference between the key space the loop was given and what it
has made of it, and what is known of the limit at each point: after an eviction,
that without the last victim the rest did not fit; in the rollback, that no
choice would have been enough. With the two theorems about the loop's results,
`EveryAllowedSetIsReached` makes the single expression in `StoreOps`, on which all
other proofs rest, exactly the set of results of the loop. It gives the
recursion a form without recursion (`EndingsFrom`), shows that this satisfies
the recursion's equation (`OneVictimMore`), and that nothing else does: where a
solution differed, it would differ for one victim more as well, and keys are
finite.

### The server

`Inv` is `TypeOK`, what requests carry (a durable frame while one is being
appended), what the log holds (durable commands only, and room for every frame
under way) and `Sound(entries)`: replay executes what it reads without a check,
so the types of the key space depend on the log's, and those on the frames'.

`ReplayKeepsLiveKeys` and `ReplayRevivesNothing` do not hold for every value of the
constants; section 6 shows what breaks them. The theorems state what is left.
`Independent` is about the constants: nothing is evicted, no EXPIRE is sent, no two
connections send durable commands that name a common key, and a key that is given a
deadline is always given the same one and otherwise only set, deleted and popped.
`ReplayHasRoom` is about the behaviour: the replay refuses no write for lack of
memory. `server_restart` has the first but for its `EXPIRE a 0`, and TLC finds the
second to hold throughout that run; `UnlimitedHasRoom` proves it for a server without a limit, which is
the default.

`RestartInv` is the invariant. `After(v, k, r)` is the value of key `k` after frame
`r` when nothing expires, and `Left(w, v, t)` says that `w` is what is left of `v`
at time `t`: `v`, or nothing if it has expired. The invariant says that there is a
history of the values the log stands for, one for each of its lengths, of which
each is `After` the one before; that what the history variable `versions` knows of a
key is left of the last of them; that the entry of a key is left of the last of
them too, or of what the unlogged command of one connection will make of it; and
that in a replay it is left of the one at the place the replay has reached. The
heart is `EffectLeft`: a command executed on what is left of a value leaves what is
left of the value after it, at any later time, although it runs at different times
on the connection and in the replay. This is where one deadline per key is needed:
with two, the first may take away in the replay what the second had kept alive.
That no two connections share keys gives `OneBehind`: what a connection has
executed and not logged is the only thing that the log lacks of a key.

### The file

The argument has four layers.

1. *The reader* (`Resp_proofs`). `Nested` is a recursive function;
   `NestedUnrolls` gives its equation, `StillOpenIs` what is left open. `Delivered`: a frame that arrives
   while arrays are open makes the hole one smaller, and what it completes is no
   command, since it has an array for an item (`NoCommand`).
2. *A frame.* Reading the header and the first items of a logged command opens
   one array and no more (`HeaderRead`, `ItemRead`); the last item delivers the
   command (`LastRead`). This is where `from_frame(aof_frame(c)) = c` is used.
3. *The file.* The invariant says that there is a trace of the reader over the
   file, one state per token, which ends in `seen` and has the replay somewhere
   on it (`FileReads`); that while a frame is being written `seen` is the state
   before it with one array more, which holds the items so far; and that
   without failed writes (`Durable`) a running server's file has no hole and
   lacks no acknowledged command. The trace is what replaces induction on the
   file: an append makes it one longer, a replay moves along it.
4. *The mapping.* A last write is the abstract append, or fills a hole by one; a
   failed write or a crash in mid-frame is the abstract torn append, with the
   hole the missing items leave; a replay that ends is the restart, with the
   commands of the trace.

### The connection

A connection is two streams of messages, each message a sequence of tokens with
no mark where one ends. The properties follow from one predicate for both
directions. `Flow(stream, msgs, done, arrays, writer, rest)` says, of the tokens
under way, which message each is part of and at which place; that the reader is
done with `done` messages and holds the arrays that the tokens before the first
one under way leave open; and that what the writer has yet to write goes on where
the tokens end. Only the last token may be a cut one, and only once its writer is
gone. `FlowBegin`, `FlowWrite`, `FlowBreaks`, `FlowEnds` and `FlowRead` say that
beginning a message, writing a token, dying inside one, ending and reading a token
keep it, whoever does it. `FlowRead` is where a response could go to the wrong
call: a token completes a frame for the reader exactly if it is the last one of
its message, and then the frame is the message's, so the number of messages done
is the number of answers.

The invariant is `Flow` upward, of the requests, with the requests served as
those done, and downward, of the responses to them, with the calls returned; that
the arrays of either reader lack items (`ArraysOpen`); that the window is kept
(`Room`), which is why a response belongs to a request already asked; and
`StoreSound`. Upward the messages are frames by assumption. Downward they are
frames because of what the program sends: `ResponseShaped` goes through every
command and every reply of the store (`StoreReplies`) and finds a line, a list of
lines or a list of rows, and for these `ShapedIsWhole` says what
`WrittenFramesAreRead` says, error lines included, which arrive as the inline
command they are taken for. That an array within an array is delivered with its
last line and not earlier rests on a trace of the reader over the rows, which
again replaces an induction.

### The dashboard

`StaleIsFlagged` is about what is drawn. `ErrorsTell` follows it round the loop:
a round may skip the refresh only when there has been one, and that one gave
the snapshot or left its error. `TerminalRestored` is inductive by itself with
the types.

### Left to TLC, and why

* Liveness and fairness: the prover does not reach them.
* `Dashboard!SnapshotAgrees`: sums of columns over a sequence of rows. What a fold
  over a sequence adds up to is an induction over data.
* `Server!ReplayKeepsLiveKeys` and `ReplayRevivesNothing` where `Independent` does
  not hold and they do nevertheless, such as an EXPIRE with 0 seconds, a key with several deadlines none of
  which passes before the restart, or connections that share keys and happen to
  log in the order they executed.


## 6. Where code and documentation disagree

Each of these has a run whose counterexample shows it.

1. `server_same_key`: two connections write one key, the log gets the frames in
   the other order, replay restores the overwritten value. The order of
   execution is that of the entries lock, the order of the file that of the
   writer's mutex (`server.rs:69-70`).
2. `server_extend_life`: `SET a; EXPIREAT a 1; PERSIST a`, restart after
   second 1: replay applies EXPIREAT at the new clock, which deletes the key,
   and PERSIST finds nothing. A key that lived on is lost.
3. `aof_torn`: a process killed while appending leaves a partial frame; the
   next start returns the error and the server does not come up.
4. `session_errors`: `read_frame` has no case for `-`, so an error response is
   read as an inline command and `RespClient::command` returns it as a result.

Four more ways in which a restart differs are variants of the first two. The first
three are `ServerExtendLife.cfg` with the constants below and `ReplayRevivesNothing`
as its invariant, the last is `ServerRestart.cfg` with `ReplayKeepsLiveKeys`:

* `Commands <- PushDated`: `RPUSH a x; EXPIREAT a 1; RPUSH a x`, restart after
  second 1. The second push creates a new list without a deadline.
* `Commands <- PersistLate`, `TicksPerSecond = 2`, `Horizon = 6`: PERSIST on an
  expired key answers 0 but is logged; the deadline in the log is rounded up,
  so that a restart within that second makes the key permanent.
* `Commands <- TooMuch`, `MaxMemory = 8`, `Policy = "allkeys-random"`,
  `Horizon = 0`, `MaxLog = 4`: evictions are not logged; after the restart an
  evicted key is back and another one may be gone.
* `Commands <- TightLimit`, `MaxMemory = 5`: `RPUSH b x; LPOP b` on one connection
  makes room for `SET a x` on the other, which is logged before the LPOP. The
  replay refuses the SET and skips it with a warning (`aof.rs:66-68`); the key is
  lost although the connections share none.

`server_restart` delimits them. What was alive is back and what was gone stays gone
if nothing is evicted, no two clients send durable commands for a common key, a key
that is given a deadline is always given the same one by EXPIREAT and is otherwise
only set, deleted and popped, no EXPIRE is sent, and the replay has room for every
write; section 5 proves it under these conditions. Beyond them the run has one
EXPIRE, with 0 seconds: it deletes the key in the store, the log has the instant
rounded up to the second, and `ReplayRevivesNothing` allows the key to be back for
the rest of that second and no longer. An EXPIRE that leaves a deadline is in no
passing run: the deadline in the log differs from the one in the store by the
rounding and by the delay between two readings of the clock (`server.rs:67`).

Some of what the properties say is weaker than one might wish, because the code
is: `ImplementsLog` lets acknowledged commands fall into a hole
(`AcknowledgedIsRestored` therefore speaks of files without failed writes);
`OnlyWholeRequestsRun` exempts the last line of the last request of a client that
is gone and `AnswersMatch` the last line of the last answer of a server that died,
both of which may be cut short and still be read (an inline command with fewer
words, an integer with fewer digits, the last number of AERUGO.INSPECT among
them); `CutShort` names what may come of it, and nothing else does;
`TerminalRestored` exempts a failing `setup_terminal`, which leaves raw mode on.

## 7. Not modelled, and why

* Bytes: CRLF, the decimal digits of lengths, a payload in part. A token stands
  for a line; what a part of a line can be taken for is `Cut`. The socket's and
  the writer's buffers are counted in tokens.
* `render` and the functions it calls, `format_ttl`, `format_bytes`: layout of a
  terminal, no state.
* A connection that hangs: no module lets a peer stay connected and silent for
  ever, except that clients need not ask.
* Execution under concurrent connections within `Session` (one connection), and
  the append between execution and response there.
* Overflow of `usize` sums of lengths, which memory rules out. The counters do
  wrap, at `CounterModulus`.
* The two locks of the store as such: a critical section is one step, so no
  property speaks of a deadlock between them. There is none to find: every method
  drops the entries before it asks for the counters (`storage.rs:168`, `359`).
* A clock that goes back; sub-tick differences between the clock readings within
  one critical section.
* Command line, crate modules, benchmarks, CI: no behaviour of the cache.

## 8. Plan

Done: all modules of section 2, and the theorems of section 5.

What could follow:

1. `Server`: the theorems about a restart with EXPIRE, for which the deadline in
   the log is up to a second later than the one in the store, so that `Left` would
   have to compare two deadlines.
2. `Session` over `Server`: the append between execution and response, and with it
   what a client may conclude from a response when the server crashes.
3. `StoreOps_proofs`: shorter proofs of the commands' cases, of which many differ
   by the command only.
