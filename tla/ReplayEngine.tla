---------------------------- MODULE ReplayEngine ----------------------------
(***************************************************************************)
(* ReplayEngine of replay/replay_engine.{hpp,cpp}: parser, book and, if    *)
(* asked for, monitor composed by replay_file().  One engine replays one   *)
(* file after another with the same book.  An iteration of the loop is one *)
(* step: all of it runs on one thread and nobody looks in between.         *)
(***************************************************************************)
EXTENDS AnomalyMonitor

CONSTANTS
  File, Numeral, MinusSign,   \* as for CsvParser
  Options,      \* the ReplayOptions callers pass
  Again,        \* files that may be replayed after another one
  MaxReplays    \* bound on the replays of an engine

VARIABLES
  disk, is_open, lines, position, line_number, header_checked, header_valid,
  parsed, calls,   \* the parser's
  phase,           \* "idle" before the first call, "reading" in it, "done" after
  options,         \* options of the current call
  replay,          \* ReplayResult result
  finished         \* history: file, options and result of each call

Parser == INSTANCE CsvParser WITH Update <- {}

ASSUME ReplayAssumption ==
  /\ MaxReplays \in Nat
  /\ File \subseteq Seq(Parser!Line) /\ Again \subseteq File
  /\ MinusSign \subseteq DOMAIN Numeral
  /\ Options \subseteq [allow_crossed_book : BOOLEAN, validate_after_apply : BOOLEAN,
                        enable_anomaly_detection : BOOLEAN]

monitored == <<windows, features, observed, states, anomalies>>
engine    == <<phase, options, replay, finished>>
parser    == <<disk, is_open, lines, position, line_number, header_checked,
               header_valid, parsed, calls>>
replayVars == <<vars, monitored, parser, engine>>

-----------------------------------------------------------------------------
(* The checksum, as the sequence of words and tag bytes that is hashed: the  *)
(* FNV-1a fold over it is left out, and with it accidental collisions.  A    *)
(* signed number and its 64-bit pattern determine each other.                *)

Byte(b)     == <<"byte", b>>
hash_u64(n) == <<"u64", n>>

\* Mutant of hash_price_level: the orders of the level are only counted.
hash_price_level_LevelOnly(level) ==
  <<hash_u64(level.price), hash_u64(level.quantity), hash_u64(Len(level.orders))>>

hash_price_level(level) ==
  <<hash_u64(level.price), hash_u64(level.quantity), hash_u64(Len(level.orders))>>
  \o FlattenSeq([i \in DOMAIN level.orders |->
       <<hash_u64(level.orders[i].order_id), hash_u64(level.orders[i].timestamp),
         hash_u64(level.orders[i].quantity)>>])

HashedSide(snaps, tag) ==
  <<hash_u64(Len(snaps))>>
  \o FlattenSeq([i \in DOMAIN snaps |-> <<Byte(tag)>> \o hash_price_level(snaps[i])])

checksum_snapshot(snap) ==
  <<Byte("D"), Byte("G")>> \o HashedSide(snap["Buy"], "B")
                           \o HashedSide(snap["Sell"], "A")

-----------------------------------------------------------------------------
(* replay_file *)

NoResult == [events_processed |-> 0, rejected_events |-> 0,
             file_open_failed |-> FALSE, invariant_failed |-> FALSE,
             errors |-> << >>, anomalies |-> << >>, anomaly_reason_counts |-> NoEntries,
             final_top |-> << >>, final_snapshot |-> << >>, final_checksum |-> << >>]

\* ReplayOptions{}.
DefaultOptions == [allow_crossed_book |-> FALSE, validate_after_apply |-> TRUE,
                   enable_anomaly_detection |-> FALSE]

ReplayInit ==
  /\ Init /\ MonitorInit /\ Parser!Init /\ disk = << >>
  /\ phase = "idle" /\ options = DefaultOptions
  /\ replay = NoResult /\ finished = << >>

WithError(res, type, number) ==
  [res EXCEPT !.errors = Append(@, [type |-> type, line_number |-> number])]

Processed(res) == [res EXCEPT !.events_processed = @ + 1]
Refused(res)   == [res EXCEPT !.rejected_events = @ + 1]
NotOpened(res) == [res EXCEPT !.file_open_failed = TRUE]
Invalid(res)   == [res EXCEPT !.invariant_failed = TRUE]

\* The result with the book it ended with.
EndingWith(res, top, snap) ==
  [res EXCEPT !.final_top = top, !.final_snapshot = snap,
              !.final_checksum = checksum_snapshot(snap)]

\* Leave the loop: describe the book as it stands now and return.
Return(res) ==
  /\ phase' = "done"
  /\ replay' = EndingWith(res, top_of_book', snapshot')
  /\ finished' = Append(finished, [file |-> disk', options |-> options', replay |-> replay'])

Continue(res) == replay' = res /\ UNCHANGED <<phase, finished>>

\* Mutant of ClearBook: the book of the last replay is kept.
ClearBook_Not == UNCHANGED vars

ClearBook == clear

\* The call, up to the loop.  The monitor is a local of the call.
replay_file(file, opts) ==
  /\ phase \in {"idle", "done"} /\ Len(finished) < MaxReplays
  /\ ClearBook
  /\ MonitorReset
  /\ Parser!construct(file)
  /\ options' = opts
  /\ \/ /\ ~is_open'
        /\ Return(WithError(NotOpened(NoResult), "FileOpenFailure", 0))
     \/ /\ is_open'
        /\ phase' = "reading" /\ replay' = NoResult
        /\ UNCHANGED finished

\* Mutant of Rejected: a rejected row is counted and not reported.
Rejected_Silent(type) == Continue(Refused(replay))

Rejected(type) == Continue(WithError(Refused(replay), type, parsed'.line_number))

\* ++anomaly_reason_counts[reason] for one anomaly after another.
CountReasons(counts, events) ==
  LET after[k \in 0 .. Len(events)] ==
        IF k = 0 THEN counts
        ELSE Put(after[k - 1], events[k].reason,
                 IF events[k].reason \in DOMAIN after[k - 1]
                 THEN after[k - 1][events[k].reason] + 1 ELSE 1)
  IN  after[Len(events)]

\* Take the anomalies of an observed event into the result.
Reported(res, events) ==
  [res EXCEPT !.anomalies = @ \o events,
              !.anomaly_reason_counts = CountReasons(@, events)]

\* Count an applied event and let the monitor, if there is one, observe it.
AfterEvent ==
  IF options.enable_anomaly_detection
  THEN Reported(Processed(replay), anomalies') ELSE Processed(replay)

Observed(event) ==
  \/ options.enable_anomaly_detection /\ observe(event)
  \/ ~options.enable_anomaly_detection /\ UNCHANGED monitored

\* Mutant of Accepted: an invalid book does not stop the loop.
Accepted_NoStop(event) == Observed(event) /\ Continue(AfterEvent)

\* An applied event: count it, let the monitor observe it, validate the book
\* and stop if it is not valid.
Accepted(event) ==
  /\ Observed(event)
  /\ IF options.validate_after_apply /\ ~validate_invariants(options.allow_crossed_book)'
     THEN Return(WithError(Invalid(AfterEvent), "InvariantFailure", parsed'.line_number))
     ELSE Continue(AfterEvent)

\* Mutant of AtEnd: the loop is not left.
AtEnd_Continue == UNCHANGED <<vars, monitored>> /\ Continue(replay)

AtEnd == UNCHANGED <<vars, monitored>> /\ Return(replay)

\* One iteration of the loop.
ReadNext ==
  /\ phase = "reading"
  /\ Parser!next
  /\ UNCHANGED options
  /\ \/ parsed'.status = "EndOfFile" /\ AtEnd
     \/ /\ parsed'.status = "MalformedRow"
        /\ UNCHANGED <<vars, monitored>>
        /\ Rejected("ParseError")
     \/ /\ parsed'.status = "Event"
        /\ \E event \in Range(parsed'.event) :
             /\ apply(event)
             /\ \/ result' # "Applied" /\ UNCHANGED monitored /\ Rejected("ApplyRejected")
                \/ result' = "Applied" /\ Accepted(event)

\* The engine's owner has had enough.
Retired == phase = "done" /\ Len(finished) = MaxReplays /\ UNCHANGED replayVars

ReplayNext ==
  \/ \E file \in {<< >>} \cup {<<f>> : f \in IF finished = << >> THEN File
                                              ELSE Again \cup Range(finished[1].file)},
        opts \in Options : replay_file(file, opts)
  \/ ReadNext
  \/ Retired

\* The loop runs on one thread and never waits.
ReplaySpec == ReplayInit /\ [][ReplayNext]_replayVars /\ WF_replayVars(ReadNext)

-----------------------------------------------------------------------------
(* tools/datagine_replay.cpp: the options it passes and what it returns. *)

CliOptions(anomaly_report) ==
  [DefaultOptions EXCEPT !.enable_anomaly_detection = anomaly_report]

\* Mutant of exit_code: an invariant failure is not an error.
exit_code_OpenOnly(res) == IF res.file_open_failed THEN 1 ELSE 0

exit_code(res) == IF res.file_open_failed \/ res.invariant_failed THEN 1 ELSE 0

summarize_anomaly_reasons(events) ==
  [r \in {events[i].reason : i \in DOMAIN events} |->
     Cardinality({i \in DOMAIN events : events[i].reason = r})]

-----------------------------------------------------------------------------
(* Properties *)

\* Between two iterations every line the parser has consumed is accounted for
\* once: as the header, as a processed event, which the book has counted too,
\* or as a rejected one, which has its error, in line order.  Every anomaly is
\* in the counts per reason.
EveryLineCountedOnce ==
  phase # "idle" /\ is_open =>
    /\ line_number = replay.events_processed + replay.rejected_events
                       + (IF header_valid THEN 1 ELSE 0)
    /\ events_applied = replay.events_processed % Word
    /\ Len(replay.errors) = replay.rejected_events
                              + (IF replay.invariant_failed THEN 1 ELSE 0)
    /\ \A i, j \in DOMAIN replay.errors : i < j =>
         replay.errors[i].line_number < replay.errors[j].line_number
    /\ replay.anomaly_reason_counts = summarize_anomaly_reasons(replay.anomalies)

\* What a replay reports apart from anomalies.
Outcome(res) == [res EXCEPT !.anomalies = << >>, !.anomaly_reason_counts = NoEntries]

\* Replay is deterministic: of two replays of a file by one engine, whatever
\* was replayed before them, equal options give equal results, monitoring
\* changes nothing but the anomalies, and validation nothing unless it stops
\* one of them, which then has reported the beginning of what the other did.
ReplaysAgree ==
  \A i, j \in DOMAIN finished : finished[i].file = finished[j].file =>
    LET a == finished[i].replay
        b == finished[j].replay
    IN  /\ finished[i].options = finished[j].options => a = b
        /\ a.invariant_failed = b.invariant_failed => Outcome(a) = Outcome(b)
        /\ a.invariant_failed /\ ~b.invariant_failed =>
             /\ a.events_processed <= b.events_processed
             /\ IsPrefix(Front(a.errors), b.errors)

\* Two replays end with the same checksum exactly if they end with the same
\* book: what is hashed separates levels, sides and orders from one another.
ChecksumsSeparateBooks ==
  \A i, j \in DOMAIN finished :
    LET a == finished[i].replay
        b == finished[j].replay
    IN  (a.final_checksum = b.final_checksum) = (a.final_snapshot = b.final_snapshot)

\* A validating replay that does not allow crossed books stops at the event
\* that crosses the book, with that book in its result, and no replay stops
\* for any other reason.
StopsWhenCrossed ==
  /\ replay.invariant_failed =>
       /\ Crossed /\ options.validate_after_apply /\ ~options.allow_crossed_book
       /\ Last(replay.errors).line_number = line_number
       /\ replay.final_top["Buy"][1].price > replay.final_top["Sell"][1].price
  /\ Crossed /\ ~replay.invariant_failed =>
       options.allow_crossed_book \/ ~options.validate_after_apply

\* The tool exits with 0 exactly if the file was there and was read to its end,
\* or to its wrong header; rejected rows alone do not make it fail.
ExitZeroMeansRead ==
  phase = "done" =>
    /\ (exit_code(replay) = 0) = (is_open /\ parsed.status = "EndOfFile")
    /\ exit_code(replay) = 0 /\ header_valid =>
         /\ position = Len(lines)
         /\ replay.events_processed + replay.rejected_events = Len(lines) - 1

\* Every call of replay_file on a readable file returns.
ReplayEnds == (phase = "reading") ~> (phase = "done")
=============================================================================
