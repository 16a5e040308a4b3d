-------------------------- MODULE Dashboard_proofs --------------------------
(***************************************************************************)
(* What the dashboard shows and how it leaves the terminal, for any store  *)
(* it may find, any other clients and any number of waiting events.        *)
(*                                                                         *)
(* StaleIsFlagged is about what is drawn; it is inductive only together    *)
(* with ErrorsTell, which follows the claim through the rest of the loop:  *)
(* a round may skip the refresh only when there has been one before, and   *)
(* that one either gave the snapshot or left its error behind.             *)
(***************************************************************************)
EXTENDS Dashboard, StoreOps_proofs

Around ==
  /\ server \in {"up", "down", "foreign"}
  /\ clock \in 0..Horizon
  /\ key_limit \in KeyLimits
  /\ typed \in Seq({"q", "r", "other"})
  /\ Sound(entries)

ErrorsTell ==
  /\ phase = "setup" => elapsed = None
  /\ fresh => snapshot # {}
  /\ phase \in {"drawing", "polling"} => error # "none" \/ fresh
  /\ phase = "top" /\ elapsed # None => error # "none" \/ fresh

Inv == TypeOK /\ Around /\ ErrorsTell /\ TerminalRestored

----------------------------------------------------------------------------
(* Responses.                                                              *)

LEMMA ParseErrors ==
  ASSUME NEW frame
  PROVE  /\ Failed(parse_stats(frame)) => parse_stats(frame).error = "InvalidStats"
         /\ Failed(parse_keys(frame)) => parse_keys(frame).error = "InvalidInspect"
<1>1. Failed(parse_keys(frame)) => parse_keys(frame).error = "InvalidInspect"
  BY DEF parse_keys, Failed, Failure
<1>2. Failed(parse_stats(frame)) => parse_stats(frame).error = "InvalidStats"
  BY DEF parse_stats, Failed, Failure, StatNumbers, StatTexts
<1> QED BY <1>1, <1>2

\* As many rows are shown as the response has items.
LEMMA ParsedRows ==
  ASSUME NEW frame, frame[1] = "array", NEW m \in Nat, DOMAIN frame[2] = 1..m,
         ~Failed(parse_keys(frame))
  PROVE  Len(parse_keys(frame).rows) = m
<1> DEFINE rows == [i \in 1..m |-> parse_key_row(frame[2][i])]
<1>1. parse_keys(frame).rows = rows
  BY DEF parse_keys, Failed, Failure
<1>2. rows \in Seq({rows[i] : i \in 1..m}) /\ DOMAIN rows = 1..m
  OBVIOUS
<1> HIDE DEF rows
<1>3. Len(rows) = m
  BY <1>2, LenProperties
<1> QED BY <1>1, <1>3

\* An error line is an array to the client, but no array of rows.
LEMMA UnknownIsNoTable == Failed(parse_keys(UnknownCommand)) /\ UnknownCommand # NoFrame
<1> DEFINE words == MinusWords(<<"ERR", "unknown command">>)
           items == [i \in DOMAIN words |-> BulkFrame(words[i])]
<1>1. 1 \in DOMAIN words
  BY DEF MinusWords
<1>2. UnknownCommand = ArrayFrame(items)
  BY DEF UnknownCommand, parse_inline_command, Bulks
<1> HIDE DEF words
<1>3. 1 \in DOMAIN items /\ items[1] = <<"bulk", words[1]>>
  BY <1>1 DEF BulkFrame
<1> HIDE DEF items
<1>4. UnknownCommand[1] = "array" /\ UnknownCommand[2] = items /\ UnknownCommand # NoFrame
  BY <1>2 DEF ArrayFrame, NoFrame
<1>5. Failed(parse_key_row(items[1]))
  BY <1>3 DEF parse_key_row, Failed, Failure
<1>6. Failed(parse_keys(UnknownCommand))
  BY <1>3, <1>4, <1>5 DEF parse_keys, Failed, Failure
<1> QED BY <1>4, <1>6

LEMMA StatsResponse ==
  ASSUME NEW b
  PROVE  response([op |-> "AERUGO.STATS"], Append(<<"stats", b>>, SomeCounters), None) # NoFrame
<1> DEFINE reply == Append(<<"stats", b>>, SomeCounters)
<1>1. reply[1] = "stats"
  OBVIOUS
<1> HIDE DEF reply
<1> DEFINE f == success_frame([op |-> "AERUGO.STATS"], reply, None)
<1>2. f = BulkFrame(format_stats(reply[2] @@ reply[3], None))
  BY <1>1 DEF success_frame
<1> HIDE DEF f
<1>3. response([op |-> "AERUGO.STATS"], reply, None) = f
  BY <1>1 DEF response, f
<1> QED BY <1>2, <1>3 DEF BulkFrame, NoFrame, reply

LEMMA InspectResponse ==
  ASSUME NEW reply, reply[1] = "array"
  PROVE  LET keys == response([op |-> "AERUGO.INSPECT"], reply, None)
         IN  keys[1] = "array" /\ DOMAIN keys[2] = DOMAIN reply[2]
<1> DEFINE f == success_frame([op |-> "AERUGO.INSPECT"], reply, None)
<1>1. f = ArrayFrame([i \in DOMAIN reply[2] |-> inspection_to_frame(reply[2][i])])
  BY DEF success_frame
<1> HIDE DEF f
<1>2. response([op |-> "AERUGO.INSPECT"], reply, None) = f
  BY DEF response, f
<1> QED BY <1>1, <1>2 DEF ArrayFrame

\* A refresh ends with a snapshot of both responses or with the error that says
\* why the old one stays.
LEMMA Concluded ==
  ASSUME NEW keys, NEW store, Conclude(keys, store)
  PROVE  /\ fetched' = NoFrame
         /\ \/ error' \in {"InvalidStats", "InvalidInspect"} /\ UNCHANGED <<snapshot, fresh>>
            \/ /\ ~Failed(parse_keys(keys))
               /\ error' = "none" /\ fresh' = TRUE
               /\ \E s : snapshot' = {s} /\ s.keys = parse_keys(keys).rows
<1> DEFINE totals == parse_stats(fetched)
           parsed == parse_keys(keys)
<1>1. /\ Failed(totals) => totals.error = "InvalidStats"
      /\ Failed(parsed) => parsed.error = "InvalidInspect"
  BY ParseErrors
<1> HIDE DEF totals, parsed
<1>2. IF Failed(totals) \/ Failed(parsed)
      THEN Fail(IF Failed(totals) THEN totals.error ELSE parsed.error)
      ELSE /\ snapshot' = {[stats |-> totals, keys |-> parsed.rows,
                            unchanged |-> summarised = store]}
           /\ error' = "none" /\ fresh' = TRUE
           /\ fetched' = NoFrame /\ summarised' = None
  BY DEF Conclude, totals, parsed
<1>3. CASE Failed(totals) \/ Failed(parsed)
  BY <1>1, <1>2, <1>3 DEF Fail
<1>4. CASE ~(Failed(totals) \/ Failed(parsed))
  <2> DEFINE s == [stats |-> totals, keys |-> parsed.rows, unchanged |-> summarised = store]
  <2>1. s.keys = parsed.rows
    OBVIOUS
  <2>2. /\ ~Failed(parsed) /\ snapshot' = {s}
        /\ error' = "none" /\ fresh' = TRUE /\ fetched' = NoFrame
    BY <1>2, <1>4
  <2> HIDE DEF s
  <2> QED BY <2>1, <2>2 DEF parsed
<1> QED BY <1>3, <1>4

----------------------------------------------------------------------------
(* Inv is an invariant.                                                    *)

LEMMA ClockIsTime == Around => clock \in Time
BY DashboardAssumption, StoreAssumption DEF Around, Time

LEMMA EmptyStore == Empty \in EntriesType /\ Sound(Empty)
BY NoKeysSound DEF Empty

LEMMA InitInv == Init => Inv
<1> SUFFICES ASSUME Init PROVE Inv
  OBVIOUS
<1>1. TypeOK
  <2>1. typed = <<>> /\ Len(typed) = 0 /\ Len(typed) <= MaxTyped
    BY DashboardAssumption DEF Init
  <2> QED BY <2>1, EmptyStore DEF Init, TypeOK
<1>2. Around
  BY EmptyStore, EmptySeq, DashboardAssumption, StoreAssumption DEF Init, Around, Time
<1>3. ErrorsTell /\ TerminalRestored
  BY DEF Init, ErrorsTell, TerminalRestored
<1> QED BY <1>1, <1>2, <1>3 DEF Inv

LEMMA RefreshStarts ==
  ASSUME Inv, NEW return \in {"top", "drawing"}, refresh_snapshot(return),
         phase # "inspect", ~connected, typed' \in Seq({"q", "r", "other"}), Len(typed') <= MaxTyped,
         UNCHANGED <<key_limit, snapshot, error, fetched, summarised, terminalVars, serverVars>>
  PROVE  Inv'
<1>1. 0 \in 0..Interval
  BY DashboardAssumption
<1>2. TypeOK'
  BY <1>1 DEF Inv, TypeOK, refresh_snapshot, terminalVars, serverVars
<1>3. Around'
  BY DEF Inv, Around, terminalVars, serverVars
<1>4. ErrorsTell' /\ TerminalRestored'
  BY DEF refresh_snapshot, ErrorsTell, TerminalRestored
<1> QED BY <1>2, <1>3, <1>4 DEF Inv

LEMMA SetupInv ==
  ASSUME Inv, Setup
  PROVE  Inv'
<1>1. PICK done \in 0..3 :
        /\ raw' = (done >= 1)
        /\ screen' = (done >= 2)
        /\ io_failed' = (done < 3)
        /\ phase' = IF done < 3 THEN "ended" ELSE "top"
  BY DEF Setup
<1>2. UNCHANGED <<after, key_limit, elapsed, typed, snapshot, error, fetched, fresh, summarised,
                  server, connected, entries, clock>>
  BY DEF Setup, appVars, serverVars
<1>3. phase = "setup" /\ phase' \in {"ended", "top"} /\ raw' \in BOOLEAN /\ screen' \in BOOLEAN
  BY <1>1 DEF Setup
<1>4. TypeOK'
  BY <1>2, <1>3 DEF Inv, TypeOK
<1>5. Around'
  BY <1>2 DEF Inv, Around
<1>6. ErrorsTell'
  BY <1>2, <1>3 DEF Inv, ErrorsTell
<1>7. TerminalRestored'
  BY <1>1 DEF TerminalRestored
<1> QED BY <1>4, <1>5, <1>6, <1>7 DEF Inv

LEMMA RestoreInv ==
  ASSUME Inv, Restore
  PROVE  Inv'
<1>1. PICK done \in 0..3 :
        /\ raw' = (done < 1)
        /\ screen' = (done < 2)
        /\ io_failed' = (done < 3)
  BY DEF Restore
<1>2. UNCHANGED <<after, key_limit, elapsed, typed, snapshot, error, fetched, fresh, summarised,
                  server, connected, entries, clock>>
  BY DEF Restore, appVars, serverVars
<1>3. phase = "restoring" /\ phase' = "ended" /\ raw' \in BOOLEAN /\ screen' \in BOOLEAN
  BY <1>1 DEF Restore
<1>4. TypeOK'
  BY <1>2, <1>3 DEF Inv, TypeOK
<1>5. Around'
  BY <1>2 DEF Inv, Around
<1>6. ErrorsTell'
  BY <1>2, <1>3 DEF Inv, ErrorsTell
<1>7. TerminalRestored'
  <2>1. CASE done = 3
    <3>1. ~(done < 1) /\ ~(done < 2)
      BY <2>1
    <3> QED BY <1>1, <3>1 DEF TerminalRestored
  <2>2. CASE done # 3
    <3>1. done < 3
      BY <2>2
    <3> QED BY <1>1, <3>1 DEF TerminalRestored
  <2> QED BY <2>1, <2>2
<1> QED BY <1>4, <1>5, <1>6, <1>7 DEF Inv

LEMMA TopInv ==
  ASSUME Inv, Top
  PROVE  Inv'
<1>1. typed' = typed /\ typed \in Seq({"q", "r", "other"}) /\ Len(typed) <= MaxTyped
  BY DEF Top, Inv, TypeOK, Around
<1>2. phase = "top" /\ ~connected
  BY DEF Top, Inv, TypeOK
<1>3. CASE elapsed = None \/ elapsed = Interval
  BY <1>1, <1>2, <1>3, RefreshStarts DEF Top
<1>4. CASE ~(elapsed = None \/ elapsed = Interval)
  <2>1. phase' = "drawing" /\ UNCHANGED <<elapsed, after, fresh>>
    BY <1>4 DEF Top
  <2>2. TypeOK'
    BY <1>2, <2>1 DEF Inv, TypeOK, Top, terminalVars, serverVars
  <2>3. Around'
    BY DEF Inv, Around, Top, serverVars
  <2>4. ErrorsTell' /\ TerminalRestored'
    BY <1>2, <1>4, <2>1 DEF Inv, ErrorsTell, TerminalRestored, Top
  <2> QED BY <2>2, <2>3, <2>4 DEF Inv
<1> QED BY <1>3, <1>4

LEMMA PollInv ==
  ASSUME Inv, Poll
  PROVE  Inv'
<1>1. typed' \in Seq({"q", "r", "other"}) /\ Len(typed') <= MaxTyped
  <2>1. typed \in Seq({"q", "r", "other"}) /\ Len(typed) <= MaxTyped /\ MaxTyped \in Nat
    BY DashboardAssumption DEF Inv, TypeOK, Around
  <2>2. CASE typed = <<>>
    BY <2>1, <2>2 DEF Poll
  <2>3. CASE typed # <<>>
    <3>1. /\ Tail(typed) \in Seq({"q", "r", "other"})
          /\ Len(Tail(typed)) = Len(typed) - 1
          /\ Len(typed) \in Nat
      BY <2>1, <2>3, HeadTailProperties, LenProperties
    <3>2. typed' = Tail(typed)
      BY <2>3 DEF Poll
    <3> QED BY <2>1, <3>1, <3>2
  <2> QED BY <2>2, <2>3
<1>2. phase = "polling" /\ ~connected
  BY DEF Poll, Inv, TypeOK
<1>3. CASE typed # <<>> /\ Head(typed) = "r"
  BY <1>1, <1>2, <1>3, RefreshStarts DEF Poll
<1>4. CASE ~(typed # <<>> /\ Head(typed) = "r")
  <2>1. phase' \in {"restoring", "top"} /\ UNCHANGED <<elapsed, after, fresh>>
    BY <1>4 DEF Poll
  <2>2. UNCHANGED <<key_limit, snapshot, error, fetched, summarised, raw, screen, io_failed,
                    server, connected, entries, clock>>
    BY DEF Poll, terminalVars, serverVars
  <2>3. TypeOK'
    BY <1>1, <1>2, <2>1, <2>2 DEF Inv, TypeOK
  <2>4. Around'
    BY <1>1, <2>2 DEF Inv, Around
  <2>5. ErrorsTell' /\ TerminalRestored'
    BY <1>2, <2>1, <2>2 DEF Inv, ErrorsTell, TerminalRestored
  <2> QED BY <2>3, <2>4, <2>5 DEF Inv
<1> QED BY <1>3, <1>4

\* The steps of the loop that only move on.
LEMMA LoopInv ==
  ASSUME Inv, Draw \/ TerminalFails
  PROVE  Inv'
<1>1. phase \in {"drawing", "polling"} /\ phase' \in {"polling", "restoring"}
  BY DEF Draw, TerminalFails
<1>2. UNCHANGED <<after, key_limit, elapsed, typed, snapshot, error, fetched, fresh, summarised,
                  raw, screen, io_failed, server, connected, entries, clock>>
  BY DEF Draw, TerminalFails, appVars, terminalVars, serverVars
<1>3. TypeOK'
  BY <1>1, <1>2 DEF Inv, TypeOK
<1>4. Around'
  BY <1>2 DEF Inv, Around
<1>5. ErrorsTell' /\ TerminalRestored'
  BY <1>1, <1>2 DEF Inv, ErrorsTell, TerminalRestored
<1> QED BY <1>3, <1>4, <1>5 DEF Inv


----------------------------------------------------------------------------
(* The refresh.                                                            *)

LEMMA ConnectInv ==
  ASSUME Inv, Connect
  PROVE  Inv'
<1>1. phase = "connecting" /\ phase' = "stats" /\ connected' = TRUE
  BY DEF Connect
<1>2. UNCHANGED <<after, key_limit, elapsed, typed, snapshot, error, fetched, fresh, summarised,
                  raw, screen, io_failed, server, clock>>
  BY DEF Connect, appVars, terminalVars
<1>3. entries' \in EntriesType /\ Sound(entries')
  <2>1. \A e \in Stores : e \in EntriesType /\ Sound(e)
    <3>1. TAKE e \in Stores
    <3>2. WithinLimit(e) /\ \A k \in Present(e) : e[k].items # <<>>
      BY DashboardAssumption
    <3> QED BY <3>2, DashboardAssumption DEF Sound, NoEmpty, Present
  <2>2. entries' \in Stores \cup {Empty}
    BY DEF Connect
  <2> QED BY <2>1, <2>2, EmptyStore
<1>4. TypeOK'
  BY <1>1, <1>2, <1>3 DEF Inv, TypeOK
<1>5. Around'
  BY <1>2, <1>3 DEF Inv, Around
<1>6. ErrorsTell' /\ TerminalRestored'
  BY <1>1, <1>2 DEF Inv, ErrorsTell, TerminalRestored
<1> QED BY <1>4, <1>5, <1>6 DEF Inv

LEMMA AnswerStatsInv ==
  ASSUME Inv, AnswerStats
  PROVE  Inv'
<1>1. phase = "stats" /\ phase' = "inspect" /\ connected
  BY DEF AnswerStats
<1>2. UNCHANGED <<after, key_limit, elapsed, typed, snapshot, error, fresh, raw, screen, io_failed,
                  server, connected, clock>>
  BY DEF AnswerStats, terminalVars
<1>3. entries \in EntriesType /\ Sound(entries)
  BY DEF Inv, TypeOK, Around
<1>4. fetched' # NoFrame /\ entries' \in EntriesType /\ Sound(entries')
  <2>1. CASE server = "foreign"
    BY <1>3, <2>1, UnknownIsNoTable DEF AnswerStats
  <2>2. CASE server # "foreign"
    <3> DEFINE e == retain_unexpired(entries, clock)
               o == stats(entries, clock)
    <3>1. e \in EntriesType /\ Sound(e)
      BY <1>3, WithoutType, WithoutSound DEF retain_unexpired
    <3>2. o.reply = <<"stats", build_stats(e)>> /\ o.entries = e
      BY DEF stats, Outcome
    <3>3. /\ fetched' = response([op |-> "AERUGO.STATS"], Append(o.reply, SomeCounters), None)
          /\ entries' = o.entries
      BY <2>2 DEF AnswerStats
    <3> HIDE DEF e, o
    <3> QED BY <3>1, <3>2, <3>3, StatsResponse
  <2> QED BY <2>1, <2>2
<1>5. TypeOK'
  BY <1>1, <1>2, <1>4 DEF Inv, TypeOK
<1>6. Around'
  BY <1>2, <1>4 DEF Inv, Around
<1>7. ErrorsTell' /\ TerminalRestored'
  BY <1>1, <1>2 DEF Inv, ErrorsTell, TerminalRestored
<1> QED BY <1>5, <1>6, <1>7 DEF Inv

LEMMA AnswerInspectInv ==
  ASSUME Inv, AnswerInspect
  PROVE  Inv'
<1>1. phase = "inspect" /\ phase' = after /\ ~connected' /\ entries' = Empty
  BY DEF AnswerInspect
<1>2. UNCHANGED <<after, key_limit, elapsed, typed, raw, screen, io_failed, server, clock>>
  BY DEF AnswerInspect, terminalVars
<1>3. /\ after \in {"top", "drawing"} /\ key_limit \in Nat
      /\ entries \in EntriesType
  BY DashboardAssumption DEF Inv, TypeOK, Around
<1>4. /\ fetched' = NoFrame
      /\ \/ error' \in {"InvalidStats", "InvalidInspect"} /\ UNCHANGED <<snapshot, fresh>>
         \/ /\ error' = "none" /\ fresh' = TRUE
            /\ \E s : snapshot' = {s} /\ Len(s.keys) <= key_limit
  <2>1. CASE server = "foreign"
    <3>1. Conclude(UnknownCommand, entries)
      BY <2>1 DEF AnswerInspect
    <3> QED BY <3>1, Concluded, UnknownIsNoTable
  <2>2. CASE server # "foreign"
    <3> DEFINE o == inspect_keys(entries, key_limit, clock)
               keys == response([op |-> "AERUGO.INSPECT"], o.reply, None)
    <3>1. Conclude(keys, o.entries)
      BY <2>2 DEF AnswerInspect
    <3>2. PICK m \in 0..key_limit : o.reply[1] = "array" /\ DOMAIN o.reply[2] = 1..m
      BY <1>3, InspectedRows
    <3>3. keys[1] = "array" /\ DOMAIN keys[2] = 1..m
      <4> DEFINE reply == o.reply
      <4>1. reply[1] = "array" /\ DOMAIN reply[2] = 1..m
        BY <3>2
      <4> HIDE DEF reply
      <4>2. /\ response([op |-> "AERUGO.INSPECT"], reply, None)[1] = "array"
            /\ DOMAIN response([op |-> "AERUGO.INSPECT"], reply, None)[2] = 1..m
        BY <4>1, InspectResponse
      <4> QED BY <4>2 DEF reply
    <3>4. m \in Nat /\ m <= key_limit
      BY <1>3
    <3> HIDE DEF o, keys
    <3>5. ~Failed(parse_keys(keys)) => Len(parse_keys(keys).rows) <= key_limit
      BY <3>3, <3>4, ParsedRows
    <3> QED BY <3>1, <3>5, Concluded
  <2> QED BY <2>1, <2>2
<1>5. \A s \in snapshot' : Len(s.keys) <= key_limit'
  BY <1>2, <1>4 DEF Inv, TypeOK
<1>6. TypeOK'
  BY <1>1, <1>2, <1>3, <1>4, <1>5, EmptyStore DEF Inv, TypeOK
<1>7. Around'
  BY <1>1, <1>2, EmptyStore DEF Inv, Around
<1>8. ErrorsTell' /\ TerminalRestored'
  BY <1>1, <1>2, <1>3, <1>4 DEF Inv, ErrorsTell, TerminalRestored
<1> QED BY <1>6, <1>7, <1>8 DEF Inv

LEMMA FetchFailsInv ==
  ASSUME Inv, FetchFails
  PROVE  Inv'
<1>1. phase \in {"connecting", "stats", "inspect"} /\ phase' = after /\ ~connected
  BY DEF FetchFails, Inv, TypeOK
<1>2. UNCHANGED <<after, key_limit, elapsed, typed, snapshot, fresh, raw, screen, io_failed,
                  server, connected, entries, clock>>
  BY DEF FetchFails, Fail, terminalVars, serverVars
<1>3. error' = "Client" /\ fetched' = NoFrame /\ after \in {"top", "drawing"}
  BY DEF FetchFails, Fail, Inv, TypeOK
<1>4. TypeOK'
  BY <1>1, <1>2, <1>3 DEF Inv, TypeOK
<1>5. Around'
  BY <1>2 DEF Inv, Around
<1>6. ErrorsTell' /\ TerminalRestored'
  BY <1>1, <1>2, <1>3 DEF Inv, ErrorsTell, TerminalRestored
<1> QED BY <1>4, <1>5, <1>6 DEF Inv

----------------------------------------------------------------------------
(* The environment.                                                        *)

LEMMA TypeInv ==
  ASSUME Inv, NEW event \in {"q", "r", "other"}, Type(event)
  PROVE  Inv'
<1>1. /\ typed \in Seq({"q", "r", "other"}) /\ typed' = Append(typed, event)
      /\ Len(typed) < MaxTyped /\ MaxTyped \in Nat
  BY DashboardAssumption DEF Type, Inv, Around
<1>2. typed' \in Seq({"q", "r", "other"}) /\ Len(typed') <= MaxTyped
  BY <1>1
<1>3. UNCHANGED <<phase, after, key_limit, elapsed, snapshot, error, fetched, fresh, summarised,
                  raw, screen, io_failed, server, connected, entries, clock>>
  BY DEF Type, appVars, terminalVars, serverVars
<1>4. TypeOK'
  BY <1>2, <1>3 DEF Inv, TypeOK
<1>5. Around'
  BY <1>2, <1>3 DEF Inv, Around
<1>6. ErrorsTell' /\ TerminalRestored'
  BY <1>3 DEF Inv, ErrorsTell, TerminalRestored
<1> QED BY <1>4, <1>5, <1>6 DEF Inv

LEMMA TickInv ==
  ASSUME Inv, Tick
  PROVE  Inv'
<1>1. UNCHANGED <<phase, after, key_limit, typed, snapshot, error, fetched, fresh, summarised,
                  raw, screen, io_failed, server, connected, entries>>
  BY DEF Tick, appVars, terminalVars
<1>2. clock' \in 0..Horizon
  BY DashboardAssumption, StoreAssumption DEF Tick, Inv, Around, Time
<1>3. elapsed' \in 0..Interval \cup {None} /\ (elapsed = None <=> elapsed' = None)
  <2>1. CASE elapsed \in {None, Interval}
    BY <2>1 DEF Tick, Inv, TypeOK
  <2>2. CASE elapsed \notin {None, Interval}
    <3>1. elapsed' = elapsed + 1 /\ elapsed \in 0..Interval
      BY <2>2 DEF Tick, Inv, TypeOK
    <3>2. elapsed' \in 0..Interval
      BY <2>2, <3>1, DashboardAssumption
    <3> QED BY <2>2, <3>2, StoreAssumption
  <2> QED BY <2>1, <2>2
<1>4. TypeOK'
  BY <1>1, <1>3 DEF Inv, TypeOK
<1>5. Around'
  BY <1>1, <1>2 DEF Inv, Around
<1>6. ErrorsTell' /\ TerminalRestored'
  BY <1>1, <1>3 DEF Inv, ErrorsTell, TerminalRestored
<1> QED BY <1>4, <1>5, <1>6 DEF Inv

\* The server and its other clients touch nothing of the dashboard's own.
LEMMA ServerInv ==
  ASSUME Inv,
         UNCHANGED <<phase, after, key_limit, elapsed, typed, appVars, terminalVars, clock>>,
         server' \in {"up", "down", "foreign"},
         connected' => connected, ~connected' => entries' = Empty,
         entries' \in EntriesType, Sound(entries')
  PROVE  Inv'
<1>1. UNCHANGED <<snapshot, error, fetched, fresh, summarised, raw, screen, io_failed>>
  BY DEF appVars, terminalVars
<1>2. TypeOK'
  BY <1>1 DEF Inv, TypeOK
<1>3. Around'
  BY DEF Inv, Around
<1>4. ErrorsTell' /\ TerminalRestored'
  BY <1>1 DEF Inv, ErrorsTell, TerminalRestored
<1> QED BY <1>2, <1>3, <1>4 DEF Inv

LEMMA OtherClientInv ==
  ASSUME Inv, NEW c \in Workload, OtherClient(c)
  PROVE  Inv'
<1> DEFINE d == expire_at_unix_deadline(1, clock)
<1>1. d \in Time
  BY ClockIsTime, ZeroIsTime, ResolvedType DEF Inv, expire_at_unix_deadline
<1>2. PICK o \in Execute(entries, c, d, clock) : entries' = o.entries
  BY DEF OtherClient
<1> HIDE DEF d
<1>3. entries' \in EntriesType /\ Sound(entries')
  BY <1>1, <1>2, DashboardAssumption, ExecutedOK DEF Inv, TypeOK, Around
<1> QED BY <1>3, ServerInv DEF OtherClient, Inv, Around

----------------------------------------------------------------------------
(* The theorems.                                                           *)

LEMMA NextInv ==
  ASSUME Inv, [Next]_vars
  PROVE  Inv'
<1>1. CASE run
  BY <1>1, SetupInv, TopInv, ConnectInv, AnswerStatsInv, AnswerInspectInv, FetchFailsInv, LoopInv,
     PollInv, RestoreInv DEF run, Refresh
<1>2. CASE \E event \in {"q", "r", "other"} : Type(event)
  BY <1>2, TypeInv
<1>3. CASE Tick
  BY <1>3, TickInv
<1>4. CASE \E c \in Workload : OtherClient(c)
  BY <1>4, OtherClientInv
<1>5. CASE ServerStops
  BY <1>5, EmptyStore, ServerInv DEF ServerStops
<1>6. CASE ServerStarts
  BY <1>6, ServerInv DEF ServerStarts, Inv, TypeOK, Around
<1>7. CASE UNCHANGED vars
  BY <1>7, ServerInv DEF vars, serverVars, Inv, TypeOK, Around
<1> QED BY <1>1, <1>2, <1>3, <1>4, <1>5, <1>6, <1>7 DEF Next

LEMMA Invariance == Spec => []Inv
BY InitInv, NextInv, PTL DEF Spec

\* The dashboard's state has its types: a response is held only during a refresh,
\* and no frame shows more rows than run was started with.
THEOREM DashboardTypeCorrect == Spec => []TypeOK
<1>1. Inv => TypeOK
  BY DEF Inv
<1> QED BY <1>1, Invariance, PTL

\* An old snapshot is never drawn without the error that made it stay.
THEOREM StaleSnapshotsAreFlagged == Spec => []StaleIsFlagged
<1>1. Inv => StaleIsFlagged
  BY DEF Inv, ErrorsTell, StaleIsFlagged
<1> QED BY <1>1, Invariance, PTL

\* Whichever way the loop ends, run gives the terminal back.
THEOREM TerminalIsGivenBack == Spec => []TerminalRestored
<1>1. Inv => TerminalRestored
  BY DEF Inv
<1> QED BY <1>1, Invariance, PTL

=============================================================================
