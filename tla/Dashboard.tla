------------------------------- MODULE Dashboard -------------------------------
(***************************************************************************)
(* The terminal dashboard (src/src/tui.rs) and the server it watches: one  *)
(* loop that refreshes a snapshot when it is due, draws it and polls for   *)
(* one event.  A refresh takes a connection and two requests, AERUGO.STATS *)
(* and AERUGO.INSPECT, between which the store goes on changing; the       *)
(* server may be down, may die in between, or be a program of another kind.*)
(*                                                                         *)
(* What a frame goes through on the wire is Session.tla's concern: here a  *)
(* response arrives whole, an error response as the array it is read as.   *)
(***************************************************************************)
EXTENDS StoreOps, Commands

CONSTANTS
  KeyLimits,   \* the values of key_limit
  Interval,    \* refresh_interval
  Stores,      \* what a refresh may find in the store
  Workload,    \* what the server's other clients send while it is under way
  Horizon,     \* bound: the server's clock stops here
  MaxTyped     \* bound: no more events wait than this

ASSUME DashboardAssumption ==
  /\ KeyLimits \subseteq Nat
  /\ Interval \in Nat \ {0}
  /\ Stores \subseteq EntriesType
  /\ \A e \in Stores : WithinLimit(e) /\ \A k \in Present(e) : e[k].items # <<>>
  /\ Workload \subseteq CommandSpace
  /\ Horizon \in Time
  /\ MaxTyped \in Nat

VARIABLES
  phase,         \* where run is
  after,         \* where refresh_snapshot returns to
  key_limit,     \* DashboardConfig::key_limit
  snapshot,      \* DashboardApp::snapshot, an Option: at most one
  elapsed,       \* time since last_refresh, up to Interval; None before the first
  error,         \* DashboardApp::error, "none" when there is none
  fetched,       \* the response to AERUGO.STATS, while AERUGO.INSPECT is under way
  raw, screen,   \* the terminal is in raw mode, shows the alternate screen
  typed,         \* the events that wait to be read
  server,        \* "up", "down", or "foreign": it knows neither command
  connected,     \* the connection of the refresh is intact
  entries,       \* the server's store during a refresh, which alone looks at it
  clock,         \* the server's clock
  fresh,         \* history: the snapshot is that of the last refresh
  summarised,    \* history: the store as AERUGO.STATS left it
  io_failed      \* history: an operation that sets up or restores the terminal failed

appVars == <<snapshot, error, fetched, fresh, summarised>>
terminalVars == <<raw, screen, io_failed>>
serverVars == <<server, connected, entries, clock>>
vars == <<phase, after, key_limit, elapsed, typed, appVars, terminalVars, serverVars>>

Empty == [k \in Keys |-> None]

Init ==
  /\ phase = "setup" /\ after = "drawing"
  /\ key_limit \in KeyLimits
  /\ snapshot = {} /\ elapsed = None /\ error = "none" /\ fetched = NoFrame
  /\ raw = FALSE /\ screen = FALSE
  /\ typed = <<>>
  /\ server \in {"up", "down", "foreign"} /\ connected = FALSE
  /\ entries = Empty /\ clock = 0
  /\ fresh = FALSE /\ summarised = None /\ io_failed = FALSE

----------------------------------------------------------------------------
(* Responses.                                                              *)

StatNumbers ==
  {"total_keys", "string_keys", "list_keys", "expiring_keys", "list_items", "key_bytes",
   "payload_bytes", "estimated_memory_bytes", "expired_keys_cleaned", "evicted_keys",
   "rejected_writes"}
StatTexts == {"max_memory_bytes", "eviction_policy"}

IsSize(text) == text \in DOMAIN Numeral /\ Numeral[text] >= 0

parse_stats(frame) ==
  IF frame[1] # "bulk" THEN Failure("InvalidStats")
  ELSE LET fields == frame[2]
       IN  IF /\ StatNumbers \cup StatTexts \subseteq DOMAIN fields
              /\ \A f \in StatNumbers : IsSize(fields[f])
              /\ fields["max_memory_bytes"] = "none" \/ IsSize(fields["max_memory_bytes"])
           THEN [f \in StatNumbers \cup StatTexts |->
                   IF f = "eviction_policy" THEN fields[f]
                   ELSE IF fields[f] = "none" THEN None ELSE Numeral[fields[f]]]
           ELSE Failure("InvalidStats")

Columns == <<"bulk", "bulk", "integer", "integer", "integer", "integer">>

\* Mutant: two columns change places.
parse_key_row_swapped(frame) ==
  IF frame[1] # "array" THEN Failure("InvalidInspect")
  ELSE LET column(i) == frame[2][i][2]
       IN  [key |-> column(1), value_type |-> column(2), ttl_seconds |-> column(3),
            payload_bytes |-> column(5), estimated_memory_bytes |-> column(4),
            list_items |-> column(6)]

parse_key_row(frame) ==
  IF \/ frame[1] # "array"
     \/ [i \in DOMAIN frame[2] |-> frame[2][i][1]] # Columns
     \/ \E i \in 1..2 : frame[2][i][2] \in NotUtf8
     \/ \E i \in 4..6 : frame[2][i][2] < 0
  THEN Failure("InvalidInspect")
  ELSE LET column(i) == frame[2][i][2]
       IN  [key |-> column(1), value_type |-> column(2), ttl_seconds |-> column(3),
            payload_bytes |-> column(4), estimated_memory_bytes |-> column(5),
            list_items |-> column(6)]

parse_keys(frame) ==
  IF frame[1] # "array" THEN Failure("InvalidInspect")
  ELSE LET rows == [i \in DOMAIN frame[2] |-> parse_key_row(frame[2][i])]
       IN  IF \E i \in DOMAIN rows : Failed(rows[i]) THEN Failure("InvalidInspect")
           ELSE [rows |-> rows]

\* A server that does not know the command answers with an error line.
UnknownCommand == parse_inline_command(MinusWords(<<"ERR", "unknown command">>))

\* The counters are what the server's other tasks have made them; no property
\* looks at them.
SomeCounters == [expired_keys_cleaned |-> 0, evicted_keys |-> 0, rejected_writes |-> 0]

----------------------------------------------------------------------------
(* A refresh.                                                              *)

refresh_snapshot(return) ==
  /\ elapsed' = 0
  /\ after' = return
  /\ phase' = "connecting"
  /\ fresh' = FALSE

Connect ==
  /\ phase = "connecting" /\ server # "down"
  /\ connected' = TRUE
  /\ phase' = "stats"
  /\ entries' \in IF server = "up" THEN Stores ELSE {Empty}
  /\ UNCHANGED <<after, key_limit, elapsed, typed, appVars, terminalVars, server, clock>>

\* The server executes AERUGO.STATS and the response arrives.
AnswerStats ==
  /\ phase = "stats" /\ connected
  /\ phase' = "inspect"
  /\ IF server = "foreign"
     THEN /\ fetched' = UnknownCommand
          /\ UNCHANGED <<entries, summarised>>
     ELSE \E o \in {stats(entries, clock)} :
            /\ fetched' = response([op |-> "AERUGO.STATS"], Append(o.reply, SomeCounters), None)
            /\ entries' = o.entries
            /\ summarised' = o.entries
  /\ UNCHANGED <<after, key_limit, elapsed, typed, snapshot, error, fresh, terminalVars,
                 server, connected, clock>>

\* Mutants: the snapshot of a failed refresh stays without a word; what was
\* fetched stays with the client.
Fail_silent(kind) ==
  /\ fetched' = NoFrame /\ summarised' = None
  /\ UNCHANGED <<snapshot, fresh, error>>
Fail_keeps_response(kind) ==
  /\ error' = kind
  /\ UNCHANGED <<snapshot, fresh, fetched, summarised>>

\* The refresh fails and keeps the snapshot it had.
Fail(kind) ==
  /\ error' = kind
  /\ fetched' = NoFrame /\ summarised' = None
  /\ UNCHANGED <<snapshot, fresh>>

\* Both responses are parsed when the second has arrived.  The field `unchanged`
\* is history: no command and no expiration came between the two.
Conclude(keys, store) ==
  \E totals \in {parse_stats(fetched)}, parsed \in {parse_keys(keys)} :
    IF Failed(totals) \/ Failed(parsed)
    THEN Fail(IF Failed(totals) THEN totals.error ELSE parsed.error)
    ELSE /\ snapshot' = {[stats |-> totals, keys |-> parsed.rows, unchanged |-> summarised = store]}
         /\ error' = "none" /\ fresh' = TRUE
         /\ fetched' = NoFrame /\ summarised' = None

AnswerInspect ==
  /\ phase = "inspect" /\ connected
  /\ phase' = after
  /\ connected' = FALSE /\ entries' = Empty
  /\ IF server = "foreign" THEN Conclude(UnknownCommand, entries)
     ELSE \E o \in {inspect_keys(entries, key_limit, clock)} :
          \E keys \in {response([op |-> "AERUGO.INSPECT"], o.reply, None)} :
            Conclude(keys, o.entries)
  /\ UNCHANGED <<after, key_limit, elapsed, typed, terminalVars, server, clock>>

\* Mutant: a connection that is gone is read again.
FetchFails_retries ==
  /\ phase = "connecting" /\ server = "down"
  /\ phase' = after
  /\ Fail("Client")
  /\ UNCHANGED <<after, key_limit, elapsed, typed, terminalVars, serverVars>>

\* Nobody listens, or the connection is closed before the answer.
FetchFails ==
  /\ \/ phase = "connecting" /\ server = "down"
     \/ phase \in {"stats", "inspect"} /\ ~connected
  /\ phase' = after
  /\ Fail("Client")
  /\ UNCHANGED <<after, key_limit, elapsed, typed, terminalVars, serverVars>>

----------------------------------------------------------------------------
(* The loop.                                                               *)

\* setup_terminal gives up at the first operation that fails: raw mode, the
\* alternate screen, the terminal.
Setup ==
  /\ phase = "setup"
  /\ \E done \in 0..3 :
       /\ raw' = (done >= 1)
       /\ screen' = (done >= 2)
       /\ io_failed' = (done < 3)
       /\ phase' = IF done < 3 THEN "ended" ELSE "top"
  /\ UNCHANGED <<after, key_limit, elapsed, typed, appVars, serverVars>>

\* Mutant: the snapshot is refreshed by itself only until there is one.
Top_until_loaded ==
  /\ phase = "top"
  /\ IF snapshot = {} /\ (elapsed = None \/ elapsed = Interval) THEN refresh_snapshot("drawing")
     ELSE phase' = "drawing" /\ UNCHANGED <<elapsed, after, fresh>>
  /\ UNCHANGED <<key_limit, typed, snapshot, error, fetched, summarised, terminalVars, serverVars>>

Top ==
  /\ phase = "top"
  /\ IF elapsed = None \/ elapsed = Interval THEN refresh_snapshot("drawing")
     ELSE phase' = "drawing" /\ UNCHANGED <<elapsed, after, fresh>>
  /\ UNCHANGED <<key_limit, typed, snapshot, error, fetched, summarised, terminalVars, serverVars>>

Draw ==
  /\ phase = "drawing"
  /\ phase' = "polling"
  /\ UNCHANGED <<after, key_limit, elapsed, typed, appVars, terminalVars, serverVars>>

\* One event at most is read in a round; without one the poll times out.
Poll ==
  /\ phase = "polling"
  /\ typed' = IF typed = <<>> THEN typed ELSE Tail(typed)
  /\ IF typed # <<>> /\ Head(typed) = "r" THEN refresh_snapshot("top")
     ELSE /\ phase' = IF typed # <<>> /\ Head(typed) = "q" THEN "restoring" ELSE "top"
          /\ UNCHANGED <<elapsed, after, fresh>>
  /\ UNCHANGED <<key_limit, snapshot, error, fetched, summarised, terminalVars, serverVars>>

\* Mutant: an error leaves run at once.
TerminalFails_returns ==
  /\ phase \in {"drawing", "polling"}
  /\ phase' = "ended"
  /\ UNCHANGED <<after, key_limit, elapsed, typed, appVars, terminalVars, serverVars>>

\* Drawing, polling or reading the event fails: run_loop returns the error.
TerminalFails ==
  /\ phase \in {"drawing", "polling"}
  /\ phase' = "restoring"
  /\ UNCHANGED <<after, key_limit, elapsed, typed, appVars, terminalVars, serverVars>>

\* restore_terminal gives up at the first operation that fails.
Restore ==
  /\ phase = "restoring"
  /\ phase' = "ended"
  /\ \E done \in 0..3 :
       /\ raw' = (done < 1)
       /\ screen' = (done < 2)
       /\ io_failed' = (done < 3)
  /\ UNCHANGED <<after, key_limit, elapsed, typed, appVars, serverVars>>

----------------------------------------------------------------------------
(* The environment.                                                        *)

Type(event) ==
  /\ Len(typed) < MaxTyped
  /\ typed' = Append(typed, event)
  /\ UNCHANGED <<phase, after, key_limit, elapsed, appVars, terminalVars, serverVars>>

Tick ==
  /\ clock < Horizon \/ elapsed \notin {None, Interval}
  /\ clock' = IF clock < Horizon THEN clock + 1 ELSE clock
  /\ elapsed' = IF elapsed \in {None, Interval} THEN elapsed ELSE elapsed + 1
  /\ UNCHANGED <<phase, after, key_limit, typed, appVars, terminalVars, server, connected, entries>>

OtherClient(c) ==
  /\ server = "up" /\ connected
  /\ \E o \in Execute(entries, c, expire_at_unix_deadline(1, clock), clock) : entries' = o.entries
  /\ UNCHANGED <<phase, after, key_limit, elapsed, typed, appVars, terminalVars, server,
                 connected, clock>>

ServerStops ==
  /\ server # "down"
  /\ server' = "down"
  /\ connected' = FALSE /\ entries' = Empty
  /\ UNCHANGED <<phase, after, key_limit, elapsed, typed, appVars, terminalVars, clock>>

ServerStarts ==
  /\ server = "down"
  /\ server' \in {"up", "foreign"}
  /\ UNCHANGED <<phase, after, key_limit, elapsed, typed, appVars, terminalVars, connected,
                 entries, clock>>

Refresh == Connect \/ AnswerStats \/ AnswerInspect \/ FetchFails
run == Setup \/ Top \/ Refresh \/ Draw \/ Poll \/ TerminalFails \/ Restore

Next ==
  \/ run
  \/ \E event \in {"q", "r", "other"} : Type(event)
  \/ Tick
  \/ \E c \in Workload : OtherClient(c)
  \/ ServerStops \/ ServerStarts

Spec == Init /\ [][Next]_vars

\* The loop never waits for anything but the server, and a server that took the
\* connection answers or closes it; the dashboard has no timeout of its own.
FairSpec == Spec /\ WF_vars(run) /\ WF_vars(Tick)

----------------------------------------------------------------------------
(* Properties.                                                             *)

Refreshing == phase \in {"connecting", "stats", "inspect"}

\* Type correctness of the dashboard; a response is held only during a refresh.
TypeOK ==
  /\ phase \in {"setup", "top", "connecting", "stats", "inspect", "drawing", "polling",
                "restoring", "ended"}
  /\ after \in {"top", "drawing"}
  /\ elapsed \in 0..Interval \cup {None}
  /\ error \in {"none", "Client", "InvalidStats", "InvalidInspect"}
  /\ fetched = NoFrame <=> phase # "inspect"
  /\ connected => phase \in {"stats", "inspect"}
  /\ ~connected => entries = Empty
  /\ raw \in BOOLEAN /\ screen \in BOOLEAN
  /\ Len(typed) <= MaxTyped
  /\ entries \in EntriesType
  /\ \A s \in snapshot : Len(s.keys) <= key_limit

\* What is drawn without an error is the result of the last refresh: an older
\* snapshot stays on the screen only with the error that made it stay.
StaleIsFlagged ==
  phase \in {"drawing", "polling"} /\ error = "none" => snapshot # {} /\ fresh

SumOf(rows, column) == FoldLeft(LAMBDA n, row : n + row[column], 0, rows)

\* The two halves of a snapshot come from two requests; unless a command or an
\* expiration came between them they agree in every column, after both trips
\* over the wire: as many rows as keys, up to the limit, and when all are there
\* the columns add up to the totals.
SnapshotAgrees ==
  \A s \in snapshot : s.unchanged =>
    LET rows == s.keys
        totals == s.stats
        Count(P(_)) == Len(SelectSeq(rows, P))
    IN  /\ Len(rows) = IF key_limit < totals.total_keys THEN key_limit ELSE totals.total_keys
        /\ Len(rows) = totals.total_keys =>
             /\ SumOf(rows, "payload_bytes") = totals.payload_bytes
             /\ SumOf(rows, "estimated_memory_bytes") = totals.estimated_memory_bytes
             /\ SumOf(rows, "list_items") = totals.list_items
             /\ Count(LAMBDA row : row.value_type = "list") = totals.list_keys
             /\ Count(LAMBDA row : row.value_type = "string") = totals.string_keys
             /\ Count(LAMBDA row : row.ttl_seconds >= 0) = totals.expiring_keys

\* However the loop ends, the terminal is given back as it was, unless setting it
\* up or giving it back failed.
TerminalRestored == phase = "ended" /\ ~io_failed => ~raw /\ ~screen

\* The quit key ends the dashboard, whatever refresh is under way or waits before it.
QuitIsHeard == (phase # "setup" /\ "q" \in ToSet(typed)) ~> phase = "ended"

\* Once the server is up for good the error goes away without a key being pressed.
RecoversByItself == <>[](server = "up") => <>[](error = "none" \/ phase = "ended")

=============================================================================
