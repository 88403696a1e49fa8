------------------------- MODULE ReplayEngineProofs -------------------------
(***************************************************************************)
(* Proofs about ReplayEngine: what a replay reports accounts for every     *)
(* line read, it stops exactly at a crossed book, and its exit code says   *)
(* whether the file was read to its end.  The facts about observe() come   *)
(* from MonitoredFeedProofs, whose Feed and MaxEvents play no part here.   *)
(***************************************************************************)
EXTENDS ReplayEngine, MonitoredFeedProofs

-----------------------------------------------------------------------------
(* Result records *)

IsResult(r) ==
  DOMAIN r = {"events_processed", "rejected_events", "file_open_failed",
              "invariant_failed", "errors", "anomalies", "anomaly_reason_counts",
              "final_top", "final_snapshot", "final_checksum"}

\* Two results that agree on everything but the counters, errors and flags.
SameAnomalies(q, r) ==
  q.anomalies = r.anomalies /\ q.anomaly_reason_counts = r.anomaly_reason_counts

LEMMA NoResultFields ==
  /\ IsResult(NoResult)
  /\ NoResult.events_processed = 0 /\ NoResult.rejected_events = 0
  /\ NoResult.file_open_failed = FALSE /\ NoResult.invariant_failed = FALSE
  /\ NoResult.errors = << >> /\ NoResult.anomalies = << >>
  /\ NoResult.anomaly_reason_counts = NoEntries
BY Zenon DEF IsResult, NoResult

\* q is r but for the counters, flags and errors given.
Amends(q, r, processed, rejected, opened, failed, errors) ==
  /\ IsResult(q) /\ SameAnomalies(q, r)
  /\ q.events_processed = processed /\ q.rejected_events = rejected
  /\ q.file_open_failed = opened /\ q.invariant_failed = failed
  /\ q.errors = errors

LEMMA WithErrorFields ==
  ASSUME NEW r, NEW type, NEW n, IsResult(r), NEW q, q = WithError(r, type, n)
  PROVE  Amends(q, r, r.events_processed, r.rejected_events, r.file_open_failed,
                r.invariant_failed, Append(r.errors, [type |-> type, line_number |-> n]))
BY Zenon DEF IsResult, WithError, SameAnomalies, Amends

LEMMA RefusedFields ==
  ASSUME NEW r, IsResult(r), NEW q, q = Refused(r)
  PROVE  Amends(q, r, r.events_processed, r.rejected_events + 1, r.file_open_failed,
                r.invariant_failed, r.errors)
BY Zenon DEF IsResult, Refused, SameAnomalies, Amends

LEMMA ProcessedFields ==
  ASSUME NEW r, IsResult(r), NEW q, q = Processed(r)
  PROVE  Amends(q, r, r.events_processed + 1, r.rejected_events, r.file_open_failed,
                r.invariant_failed, r.errors)
BY Zenon DEF IsResult, Processed, SameAnomalies, Amends

LEMMA NotOpenedFields ==
  ASSUME NEW r, IsResult(r), NEW q, q = NotOpened(r)
  PROVE  Amends(q, r, r.events_processed, r.rejected_events, TRUE,
                r.invariant_failed, r.errors)
BY Zenon DEF IsResult, NotOpened, SameAnomalies, Amends

LEMMA InvalidFields ==
  ASSUME NEW r, IsResult(r), NEW q, q = Invalid(r)
  PROVE  Amends(q, r, r.events_processed, r.rejected_events, r.file_open_failed,
                TRUE, r.errors)
BY Zenon DEF IsResult, Invalid, SameAnomalies, Amends

LEMMA EndingWithFields ==
  ASSUME NEW r, NEW top, NEW snap, IsResult(r), NEW q, q = EndingWith(r, top, snap)
  PROVE  /\ Amends(q, r, r.events_processed, r.rejected_events, r.file_open_failed,
                   r.invariant_failed, r.errors)
         /\ q.final_top = top
BY Zenon DEF IsResult, EndingWith, SameAnomalies, Amends

LEMMA ReportedFields ==
  ASSUME NEW r, NEW events, IsResult(r), NEW q, q = Reported(r, events)
  PROVE  /\ IsResult(q)
         /\ q.anomalies = r.anomalies \o events
         /\ q.anomaly_reason_counts = CountReasons(r.anomaly_reason_counts, events)
         /\ q.events_processed = r.events_processed
         /\ q.rejected_events = r.rejected_events
         /\ q.file_open_failed = r.file_open_failed
         /\ q.invariant_failed = r.invariant_failed /\ q.errors = r.errors
BY Zenon DEF IsResult, Reported


-----------------------------------------------------------------------------
(* The parser, as the loop uses it *)

ParserOK ==
  /\ lines \in Seq(Parser!Line)
  /\ position \in 0 .. Len(lines) /\ line_number = position
  /\ is_open \in BOOLEAN /\ header_checked \in BOOLEAN /\ header_valid \in BOOLEAN
  /\ header_valid => header_checked
  /\ ~header_checked => position = 0
  /\ parsed.status = "EndOfFile" /\ header_valid => position = Len(lines)

\* Lines that are neither event nor error.
HeaderLines == IF header_valid THEN 1 ELSE 0

LEMMA EventBuilt ==
  ASSUME NEW type \in EventType, NEW timestamp \in Timestamp, NEW id \in OrderId,
         NEW side \in Side, NEW price \in Price \cup {0}, NEW quantity \in Quantity,
         type = "Add" => price \in Price
  PROVE  [type |-> type, timestamp |-> timestamp, order_id |-> id, side |-> side,
          price |-> price, quantity |-> quantity] \in BookEvent
BY DEF MarketEvent, BookEvent

LEMMA TypeNames ==
  /\ DOMAIN Parser!parse_event_type = {"ADD", "CANCEL", "MODIFY", "EXECUTE"}
  /\ Parser!parse_event_type["ADD"] = "Add"
  /\ Parser!parse_event_type["CANCEL"] = "Cancel"
  /\ Parser!parse_event_type["MODIFY"] = "Modify"
  /\ Parser!parse_event_type["EXECUTE"] = "Execute"
  /\ DOMAIN Parser!parse_side = {"B", "S"}
  /\ Parser!parse_side["B"] = "Buy" /\ Parser!parse_side["S"] = "Sell"
BY DEF Parser!parse_event_type, Parser!parse_side

\* A row without objection is an event the book may be given.
LEMMA RowGivesEvent ==
  ASSUME NEW c, Parser!Objection(c) = "none"
  PROVE  Parser!EventOf(c) \in BookEvent
<1>1. /\ c[2] \in {"ADD", "CANCEL", "MODIFY", "EXECUTE"}
      /\ Numeral[c[1]] \in Timestamp /\ Numeral[c[3]] \in OrderId
  BY TypeNames DEF Parser!Objection, Parser!parse_integral
<1>2. CASE c[2] = "CANCEL"
  <2>1. Parser!EventOf(c) =
          [type |-> "Cancel", timestamp |-> Numeral[c[1]], order_id |-> Numeral[c[3]],
           side |-> "Buy", price |-> 0, quantity |-> 0]
    BY <1>2, TypeNames DEF Parser!EventOf
  <2>2. /\ "Cancel" \in EventType /\ "Buy" \in Side /\ 0 \in Price \cup {0}
        /\ 0 \in Quantity /\ "Cancel" # "Add"
    BY WordAssumption DEF Quantity, EventType, Side
  <2> QED
    BY <1>1, <2>1, <2>2, EventBuilt
<1>3. CASE c[2] # "CANCEL"
  <2> DEFINE type == Parser!parse_event_type[c[2]]
             side == IF c[2] = "ADD" THEN Parser!parse_side[c[4]] ELSE "Buy"
  <2>1. type \in {"Add", "Modify", "Execute"} /\ (type = "Add" <=> c[2] = "ADD")
    BY <1>1, <1>3, TypeNames
  <2>2. Parser!EventOf(c) =
          [type |-> type, timestamp |-> Numeral[c[1]], order_id |-> Numeral[c[3]],
           side |-> side, price |-> Numeral[c[5]], quantity |-> Numeral[c[6]]]
    BY <2>1 DEF Parser!EventOf
  <2>3. Numeral[c[5]] \in Price /\ Numeral[c[6]] \in Quantity
    BY <1>1, <1>3, TypeNames
       DEF Parser!Objection, Parser!parse_integral, Quantity, Parser!Quantity
  <2>4. c[2] = "ADD" => c[4] \in {"B", "S"}
    BY <1>3, TypeNames DEF Parser!Objection
  <2>5. type \in EventType /\ side \in Side
    BY <2>1, <2>4, TypeNames DEF EventType, Side
  <2> HIDE DEF type, side
  <2> QED
    BY <1>1, <2>2, <2>3, <2>5, EventBuilt
<1> QED
  BY <1>2, <1>3

\* What next() may answer for a row that is line n of the file.
Answers(answer, n) ==
  /\ answer.status \in {"MalformedRow", "Event"} /\ answer.line_number = n
  /\ answer.status = "Event" => Range(answer.event) \subseteq BookEvent

LEMMA RowAnswer ==
  ASSUME NEW row, NEW n
  PROVE  Answers(Parser!parse_row(row, n), n)
<1> DEFINE c == Parser!split_csv_columns(row)
<1>1. CASE Parser!Objection(c) # "none"
  BY <1>1 DEF Answers, Parser!parse_row, Parser!malformed
<1>2. CASE Parser!Objection(c) = "none"
  <2>1. Parser!EventOf(c) \in BookEvent
    BY <1>2, RowGivesEvent
  <2>2. PICK e : e = Parser!EventOf(c)
    OBVIOUS
  <2>3. Parser!parse_row(row, n) =
          [status |-> "Event", event |-> <<e>>, line_number |-> n,
           message |-> "none", raw_row |-> row]
    BY <1>2, <2>2 DEF Parser!parse_row
  <2>4. Range(<<e>>) = {e}
    BY DEF Range
  <2> QED
    BY <2>1, <2>2, <2>3, <2>4 DEF Answers
<1> QED
  BY <1>1, <1>2

\* What one iteration of the loop gets from next().
ReadsLine ==
  /\ parsed'.status = "EndOfFile" =>
       /\ line_number' - HeaderLines' = line_number - HeaderLines
       /\ line_number' >= line_number
  /\ parsed'.status # "EndOfFile" =>
       /\ line_number' - HeaderLines' = line_number - HeaderLines + 1
       /\ line_number' > line_number
       /\ Answers(parsed', line_number')

LEMMA RowRead ==
  ASSUME ParserOK, NEW at \in 0 .. Len(lines), Parser!ReadRow(at, at)
  PROVE  /\ line_number' = position'
         /\ \/ position' = at /\ at = Len(lines) /\ parsed'.status = "EndOfFile"
            \/ /\ position' = at + 1 /\ at + 1 <= Len(lines)
               /\ Answers(parsed', at + 1)
<1>1. Len(lines) \in Nat
  BY LenProperties DEF ParserOK
<1>2. CASE at = Len(lines) /\ position' = at /\ line_number' = at
           /\ parsed' = Parser!EndOfFile
  BY <1>2 DEF Parser!EndOfFile
<1>3. CASE at < Len(lines) /\ position' = at + 1 /\ line_number' = at + 1
           /\ parsed' = Parser!parse_row(lines[at + 1], at + 1)
  BY <1>1, <1>3, RowAnswer
<1> QED
  BY <1>2, <1>3 DEF Parser!ReadRow

LEMMA NextReads ==
  ASSUME ParserOK, is_open, Parser!next
  PROVE  ParserOK' /\ is_open' /\ ReadsLine
<1>1. Len(lines) \in Nat /\ position \in 0 .. Len(lines) /\ line_number = position
  BY LenProperties DEF ParserOK
<1>2. is_open' = is_open /\ lines' = lines
  BY DEF Parser!next
<1>3. CASE Parser!FirstNext /\ position = Len(lines)
  <2>1. /\ header_checked' = TRUE /\ header_valid' = header_valid
        /\ position' = position /\ line_number' = line_number
        /\ parsed'.status = "EndOfFile" /\ ~header_checked
    BY <1>1, <1>3 DEF Parser!FirstNext, Parser!EndOfFile
  <2>2. ~header_valid
    BY <2>1 DEF ParserOK
  <2> QED
    BY <1>1, <1>2, <2>1, <2>2 DEF ParserOK, ReadsLine, HeaderLines
<1>4. CASE Parser!FirstNext /\ position < Len(lines)
  <2>1. header_checked' = TRUE /\ ~header_checked /\ position = 0 /\ ~header_valid
    BY <1>4 DEF Parser!FirstNext, ParserOK
  <2>2. CASE /\ ~header_valid' /\ header_valid' \in BOOLEAN
             /\ position' = position + 1 /\ line_number' = line_number + 1
             /\ parsed' = Parser!malformed(line_number + 1, "header", lines[position + 1])
    BY <1>1, <1>2, <1>4, <2>1, <2>2
       DEF ParserOK, ReadsLine, HeaderLines, Answers, Parser!malformed
  <2>3. CASE /\ header_valid' /\ header_valid' \in BOOLEAN
             /\ Parser!ReadRow(position + 1, line_number + 1)
    <3>1. position + 1 \in 0 .. Len(lines) /\ line_number + 1 = position + 1
      BY <1>1, <1>4
    <3>2. Parser!ReadRow(position + 1, position + 1)
      BY <2>3, <3>1, Zenon
    <3>3. /\ line_number' = position'
          /\ \/ /\ position' = position + 1 /\ position + 1 = Len(lines)
                /\ parsed'.status = "EndOfFile"
             \/ /\ position' = position + 1 + 1 /\ position + 1 + 1 <= Len(lines)
                /\ Answers(parsed', position + 1 + 1)
      BY <3>1, <3>2, RowRead
    <3>4. CASE position' = position + 1 /\ position + 1 = Len(lines)
               /\ parsed'.status = "EndOfFile"
      BY <1>1, <1>2, <2>1, <2>3, <3>3, <3>4 DEF ParserOK, ReadsLine, HeaderLines
    <3>5. CASE position' = position + 1 + 1 /\ position + 1 + 1 <= Len(lines)
               /\ Answers(parsed', position + 1 + 1)
      <4>1. Answers(parsed', line_number') /\ parsed'.status # "EndOfFile"
        BY <3>3, <3>5 DEF Answers
      <4> QED
        BY <1>1, <1>2, <2>1, <2>3, <3>3, <3>5, <4>1 DEF ParserOK, ReadsLine, HeaderLines
    <3> QED
      BY <3>3, <3>4, <3>5
  <2>4. /\ header_valid' = (Parser!trim(lines[position + 1]) = Parser!kExpectedHeader)
        /\ \/ /\ ~header_valid'
              /\ position' = position + 1 /\ line_number' = line_number + 1
              /\ parsed' = Parser!malformed(line_number + 1, "header", lines[position + 1])
           \/ header_valid' /\ Parser!ReadRow(position + 1, line_number + 1)
    <3>1. position # Len(lines)
      BY <1>1, <1>4
    <3> QED
      BY <1>4, <3>1, Zenon DEF Parser!FirstNext
  <2>5. header_valid' \in BOOLEAN
    BY <2>4, Zenon
  <2> QED
    BY <2>2, <2>3, <2>4, <2>5
<1>5. CASE Parser!LaterNext /\ ~header_valid
  <2>1. /\ header_checked /\ header_checked' = header_checked
        /\ header_valid' = header_valid
        /\ position' = position /\ line_number' = line_number
        /\ parsed'.status = "EndOfFile"
    BY <1>5 DEF Parser!LaterNext, Parser!EndOfFile
  <2> QED
    BY <1>1, <1>2, <1>5, <2>1 DEF ParserOK, ReadsLine, HeaderLines
<1>6. CASE Parser!LaterNext /\ header_valid
  <2>1. /\ header_checked /\ header_checked' = header_checked
        /\ header_valid' = header_valid /\ Parser!ReadRow(position, line_number)
    BY <1>6 DEF Parser!LaterNext
  <2>2. Parser!ReadRow(position, position)
    BY <1>1, <2>1, Zenon
  <2>3. /\ line_number' = position'
        /\ \/ position' = position /\ position = Len(lines) /\ parsed'.status = "EndOfFile"
           \/ /\ position' = position + 1 /\ position + 1 <= Len(lines)
              /\ Answers(parsed', position + 1)
    BY <1>1, <2>2, RowRead
  <2> QED
    BY <1>1, <1>2, <1>6, <2>1, <2>3 DEF ParserOK, ReadsLine, HeaderLines, Answers
<1> QED
  BY <1>1, <1>3, <1>4, <1>5, <1>6 DEF Parser!next, Parser!ClosedNext, ParserOK

-----------------------------------------------------------------------------
(* Anomalies and their counts per reason *)

\* The places among the first n that have a reason, and how often it occurs.
Places(s, n, r) == {i \in 1 .. n : s[i].reason = r}
Reasons(s, n) == {s[i].reason : i \in 1 .. n}
Tally(s, n) == [r \in Reasons(s, n) |-> Cardinality(Places(s, n, r))]

LEMMA SummaryIsTally ==
  ASSUME NEW s, IsList(s)
  PROVE  summarize_anomaly_reasons(s) = Tally(s, Len(s))
<1>1. DOMAIN s = 1 .. Len(s)
  BY ListFacts
<1> QED
  BY <1>1 DEF summarize_anomaly_reasons, Tally, Places, Reasons

LEMMA TallyNext ==
  ASSUME NEW s, NEW n \in Nat
  PROVE  LET r == s[n + 1].reason
         IN  Tally(s, n + 1) =
               Put(Tally(s, n), r,
                   IF r \in DOMAIN Tally(s, n) THEN Tally(s, n)[r] + 1 ELSE 1)
<1> DEFINE r == s[n + 1].reason
<1>1. DOMAIN Tally(s, n) = Reasons(s, n) /\ DOMAIN Tally(s, n + 1) = Reasons(s, n + 1)
  BY DEF Tally
<1>2. Reasons(s, n + 1) = Reasons(s, n) \cup {r}
  <2>1. 1 .. (n + 1) = (1 .. n) \cup {n + 1}
    OBVIOUS
  <2> QED
    BY <2>1, Zenon DEF Reasons
<1>3. \A q : IsFiniteSet(Places(s, n, q)) /\ Cardinality(Places(s, n, q)) \in Nat
  <2>1. \A q : Places(s, n, q) \subseteq 1 .. n
    BY DEF Places
  <2>2. IsFiniteSet(1 .. n)
    BY FS_Interval
  <2> QED
    BY <2>1, <2>2, FS_Subset, FS_CardinalityType
<1>4. \A q : q # r => Places(s, n + 1, q) = Places(s, n, q)
  BY DEF Places
<1>5. Places(s, n + 1, r) = Places(s, n, r) \cup {n + 1} /\ n + 1 \notin Places(s, n, r)
  BY DEF Places
<1>6. Cardinality(Places(s, n + 1, r)) = Cardinality(Places(s, n, r)) + 1
  BY <1>3, <1>5, FS_AddElement
<1>7. r \notin Reasons(s, n) => Places(s, n, r) = {}
  BY DEF Places, Reasons
<1>8. r \notin Reasons(s, n) => Cardinality(Places(s, n, r)) = 0
  BY <1>7, FS_EmptySet
<1>9. \A q \in Reasons(s, n + 1) :
        Tally(s, n + 1)[q] =
          IF q = r THEN (IF r \in Reasons(s, n) THEN Tally(s, n)[r] + 1 ELSE 1)
          ELSE Tally(s, n)[q]
  <2> TAKE q \in Reasons(s, n + 1)
  <2>1. Tally(s, n + 1)[q] = Cardinality(Places(s, n + 1, q))
    BY DEF Tally
  <2>2. \A p \in Reasons(s, n) : Tally(s, n)[p] = Cardinality(Places(s, n, p))
    BY DEF Tally
  <2>3. CASE q = r
    BY <1>6, <1>8, <2>1, <2>2, <2>3
  <2>4. CASE q # r
    BY <1>2, <1>4, <2>1, <2>2, <2>4
  <2> QED
    BY <2>3, <2>4
<1>10. Tally(s, n + 1) = [q \in Reasons(s, n + 1) |-> Tally(s, n + 1)[q]]
  BY DEF Tally
<1> HIDE DEF r
<1>11. Tally(s, n + 1) = Put(Tally(s, n), r,
                   IF r \in DOMAIN Tally(s, n) THEN Tally(s, n)[r] + 1 ELSE 1)
  BY <1>1, <1>2, <1>9, <1>10 DEF Put
<1> QED
  BY <1>11 DEF r

\* f counts the reasons of events one after another, from counts on.
CountsUp(f, counts, events) ==
  /\ f[0] = counts
  /\ \A k \in 1 .. Len(events) :
       f[k] = Put(f[k - 1], events[k].reason,
                  IF events[k].reason \in DOMAIN f[k - 1]
                  THEN f[k - 1][events[k].reason] + 1 ELSE 1)

LEMMA CountsAreUnique ==
  ASSUME NEW counts, NEW events, IsList(events), NEW f, NEW g,
         CountsUp(f, counts, events), CountsUp(g, counts, events)
  PROVE  \A k \in 0 .. Len(events) : f[k] = g[k]
<1>0. Len(events) \in Nat
  BY ListFacts
<1> DEFINE T == {k \in 0 .. Len(events) : f[k] # g[k]}
<1> SUFFICES ASSUME T # {} PROVE FALSE
  OBVIOUS
<1>1. T \subseteq Nat
  BY <1>0
<1>2. PICK k \in T : \A j \in T : ~(<<j, k>> \in OpToRel(<, Nat))
  BY <1>1, NatLessThanWellFounded, WFMin
<1>3. k \in 0 .. Len(events) /\ f[k] # g[k] /\ k # 0
  BY DEF CountsUp
<1>4. /\ k - 1 \in 0 .. Len(events) /\ k - 1 < k /\ k - 1 \in Nat /\ k \in Nat
      /\ k \in 1 .. Len(events)
  BY <1>0, <1>3
<1>5. <<k - 1, k>> \in OpToRel(<, Nat)
  BY <1>4 DEF OpToRel
<1>6. f[k - 1] = g[k - 1]
  BY <1>2, <1>4, <1>5
<1> QED
  BY <1>3, <1>4, <1>6, Zenon DEF CountsUp

\* Counting on from the summary of what was found before gives the summary.
LEMMA CountsExtendSummary ==
  ASSUME NEW found, NEW events, IsList(found), IsList(events)
  PROVE  CountReasons(summarize_anomaly_reasons(found), events) =
           summarize_anomaly_reasons(found \o events)
<1> DEFINE all    == found \o events
           n      == Len(found)
           m      == Len(events)
           counts == summarize_anomaly_reasons(found)
           f      == [k \in 0 .. m |-> Tally(all, n + k)]
           Solves(g) == g = [k \in 0 .. m |->
                               IF k = 0 THEN counts
                               ELSE Put(g[k - 1], events[k].reason,
                                        IF events[k].reason \in DOMAIN g[k - 1]
                                        THEN g[k - 1][events[k].reason] + 1 ELSE 1)]
<1>1. n \in Nat /\ m \in Nat
  BY ListFacts
<1>2. /\ IsList(all) /\ Len(all) = n + m
      /\ \A i \in 1 .. (n + m) : all[i] = IF i <= n THEN found[i] ELSE events[i - n]
  BY ConcatOfLists
<1> HIDE DEF all, n, m
<1>3. counts = Tally(found, n)
  BY SummaryIsTally DEF n
<1>4. Tally(found, n) = Tally(all, n)
  <2>1. \A i \in 1 .. n : all[i] = found[i]
    BY <1>1, <1>2
  <2> QED
    BY <2>1, Zenon DEF Tally, Places, Reasons
<1> HIDE DEF counts
<1>5. CountsUp(f, counts, events)
  <2>1. f[0] = counts
    BY <1>1, <1>3, <1>4
  <2>2. ASSUME NEW k \in 1 .. m
        PROVE  f[k] = Put(f[k - 1], events[k].reason,
                          IF events[k].reason \in DOMAIN f[k - 1]
                          THEN f[k - 1][events[k].reason] + 1 ELSE 1)
    <3>1. PICK j \in Nat : j = n + (k - 1)
      BY <1>1
    <3>2. /\ f[k] = Tally(all, j + 1) /\ f[k - 1] = Tally(all, j)
          /\ all[j + 1] = events[k]
      BY <1>1, <1>2, <3>1
    <3> HIDE DEF f
    <3>3. LET r == all[j + 1].reason
          IN  Tally(all, j + 1) =
                Put(Tally(all, j), r,
                    IF r \in DOMAIN Tally(all, j) THEN Tally(all, j)[r] + 1 ELSE 1)
      BY TallyNext
    <3> QED
      BY <3>2, <3>3, Zenon
  <2> HIDE DEF f
  <2> QED
    BY <2>1, <2>2, Zenon DEF CountsUp, m
<1>6. Solves(f)
  <2>1. f = [k \in 0 .. m |-> f[k]]
    OBVIOUS
  <2> HIDE DEF f
  <2>2. ASSUME NEW k \in 0 .. m
        PROVE  f[k] = IF k = 0 THEN counts
                      ELSE Put(f[k - 1], events[k].reason,
                               IF events[k].reason \in DOMAIN f[k - 1]
                               THEN f[k - 1][events[k].reason] + 1 ELSE 1)
    <3>1. k = 0 \/ k \in 1 .. m
      BY <1>1
    <3> QED
      BY <1>5, <3>1, Zenon DEF CountsUp, m
  <2> QED
    BY <2>1, <2>2, Zenon
<1>7. PICK g : Solves(g) /\ CountReasons(counts, events) = g[m]
  <2> DEFINE h == CHOOSE g : Solves(g)
  <2>1. Solves(h)
    BY <1>6, Zenon
  <2>2. CountReasons(counts, events) = h[m]
    BY Zenon DEF CountReasons, m
  <2> QED
    BY <2>1, <2>2, Zenon
<1>8. CountsUp(g, counts, events)
  <2>1. g[0] = counts
    BY <1>1, <1>7
  <2>2. ASSUME NEW k \in 1 .. m
        PROVE  g[k] = Put(g[k - 1], events[k].reason,
                          IF events[k].reason \in DOMAIN g[k - 1]
                          THEN g[k - 1][events[k].reason] + 1 ELSE 1)
    <3>1. k \in 0 .. m /\ k # 0
      BY <1>1
    <3> QED
      BY <1>7, <3>1, Zenon
  <2> QED
    BY <2>1, <2>2, Zenon DEF CountsUp, m
<1>9. g[m] = f[m] /\ f[m] = Tally(all, n + m)
  <2>1. m \in 0 .. m
    BY <1>1
  <2>2. f[m] = Tally(all, n + m)
    BY <2>1
  <2> HIDE DEF f
  <2> QED
    BY <1>5, <1>8, <2>1, <2>2, CountsAreUnique DEF m
<1>10. summarize_anomaly_reasons(all) = Tally(all, n + m)
  BY <1>2, SummaryIsTally
<1> QED
  BY <1>7, <1>9, <1>10 DEF all, counts

-----------------------------------------------------------------------------
(* The account of the lines read *)

ErrorType == {"FileOpenFailure", "ParseError", "ApplyRejected", "InvariantFailure"}

ReplayError == [type : ErrorType, line_number : Nat]

\* Errors in line order, none beyond line n.
ErrorsUpTo(errors, n) ==
  /\ errors \in Seq(ReplayError)
  /\ \A i, j \in DOMAIN errors : i < j => errors[i].line_number < errors[j].line_number
  /\ \A i \in DOMAIN errors : errors[i].line_number <= n

LEMMA ErrorAdded ==
  ASSUME NEW errors, NEW n \in Nat, NEW m \in Nat, n < m, NEW type \in ErrorType,
         ErrorsUpTo(errors, n)
  PROVE  LET more == Append(errors, [type |-> type, line_number |-> m])
         IN  /\ ErrorsUpTo(more, m) /\ Len(more) = Len(errors) + 1
             /\ more[Len(more)].line_number = m
<1>1. PICK e \in ReplayError : e = [type |-> type, line_number |-> m]
  BY DEF ReplayError
<1>2. e.line_number = m
  BY <1>1
<1> DEFINE more == Append(errors, e)
<1>3. /\ errors \in Seq(ReplayError) /\ Len(errors) \in Nat
      /\ DOMAIN errors = 1 .. Len(errors)
  BY LenProperties DEF ErrorsUpTo
<1>4. /\ more \in Seq(ReplayError) /\ Len(more) = Len(errors) + 1
      /\ \A i \in 1 .. Len(errors) : more[i] = errors[i]
      /\ more[Len(errors) + 1] = e
  BY <1>3, AppendProperties
<1>5. DOMAIN more = 1 .. (Len(errors) + 1)
  BY <1>4, LenProperties
<1> HIDE DEF more
<1>6. \A i \in 1 .. Len(errors) : errors[i].line_number \in Nat
  <2>1. \A i \in 1 .. Len(errors) : errors[i] \in ReplayError
    BY <1>3, ElementOfSeq
  <2> QED
    BY <2>1 DEF ReplayError
<1>7. \A i \in DOMAIN more :
        \/ i \in 1 .. Len(errors) /\ more[i].line_number = errors[i].line_number
        \/ i = Len(errors) + 1 /\ more[i].line_number = m
  BY <1>2, <1>3, <1>4, <1>5
<1>8. \A i \in 1 .. Len(errors) : errors[i].line_number <= n
  BY <1>3 DEF ErrorsUpTo
<1>9. ErrorsUpTo(more, m)
  <2>1. ASSUME NEW i \in DOMAIN more PROVE more[i].line_number <= m
    BY <1>6, <1>7, <1>8
  <2>2. ASSUME NEW i \in DOMAIN more, NEW j \in DOMAIN more, i < j
        PROVE  more[i].line_number < more[j].line_number
    <3>1. i \in 1 .. Len(errors)
      BY <1>3, <1>5, <2>2
    <3>2. CASE j \in 1 .. Len(errors)
      BY <1>3, <1>4, <2>2, <3>1, <3>2 DEF ErrorsUpTo
    <3>3. CASE j = Len(errors) + 1
      BY <1>2, <1>4, <1>6, <1>8, <3>1, <3>3
    <3> QED
      BY <1>7, <3>2, <3>3
  <2> QED
    BY <1>4, <2>1, <2>2 DEF ErrorsUpTo
<1> QED
  BY <1>1, <1>2, <1>4, <1>9 DEF more

LEMMA ErrorsStayUpTo ==
  ASSUME NEW errors, NEW n \in Nat, NEW m \in Nat, n <= m, ErrorsUpTo(errors, n)
  PROVE  ErrorsUpTo(errors, m)
<1>1. \A i \in DOMAIN errors : errors[i].line_number \in Nat
  <2>1. \A i \in DOMAIN errors : errors[i] \in ReplayError
    BY ElementOfSeq, LenProperties DEF ErrorsUpTo
  <2> QED
    BY <2>1 DEF ReplayError
<1> QED
  BY <1>1 DEF ErrorsUpTo

\* A result that accounts for n lines, header of them the header and stops of
\* its errors a failed validation, for a book that has counted applied calls.
Accounts(r, n, header, applied, stops) ==
  /\ IsResult(r)
  /\ r.events_processed \in Nat /\ r.rejected_events \in Nat
  /\ n = r.events_processed + r.rejected_events + header
  /\ applied = r.events_processed % Word
  /\ r.file_open_failed = FALSE
  /\ ErrorsUpTo(r.errors, n)
  /\ Len(r.errors) = r.rejected_events + stops
  /\ IsList(r.anomalies)
  /\ r.anomaly_reason_counts = summarize_anomaly_reasons(r.anomalies)

LEMMA NothingAccounted ==
  ASSUME NEW r, r = NoResult
  PROVE  Accounts(r, 0, 0, 0, 0) /\ r.invariant_failed = FALSE
<1>1. /\ IsResult(r) /\ r.events_processed = 0 /\ r.rejected_events = 0
      /\ r.file_open_failed = FALSE /\ r.invariant_failed = FALSE
      /\ r.errors = << >> /\ r.anomalies = << >>
      /\ r.anomaly_reason_counts = NoEntries
  BY NoResultFields, Zenon
<1>2. ErrorsUpTo(<< >>, 0) /\ Len(<< >>) = 0
  BY DEF ErrorsUpTo
<1>3. IsList(<< >>)
  BY OptionalIsList DEF IsOptional
<1>4. summarize_anomaly_reasons(<< >>) = NoEntries
  BY DEF summarize_anomaly_reasons, NoEntries
<1>5. 0 % Word = 0 /\ 0 = 0 + 0 + 0 /\ 0 \in Nat /\ 0 = 0 + 0
  BY WordAssumption
<1> QED
  BY <1>1, <1>2, <1>3, <1>4, <1>5, Zenon DEF Accounts

\* A line that was refused.
\* Between n lines, h of them headers, and m lines, k of them headers, one row
\* was read.
OneLine(n, h, m, k) == n < m /\ m - k = n - h + 1

LEMMA RefusedAccounts ==
  ASSUME NEW r, NEW n \in Nat, NEW m \in Nat, NEW h \in Nat, NEW k \in Nat,
         NEW a, NEW type \in ErrorType, NEW q, q = WithError(Refused(r), type, m),
         Accounts(r, n, h, a, 0), OneLine(n, h, m, k)
  PROVE  Accounts(q, m, k, a, 0) /\ q.invariant_failed = r.invariant_failed
<1>1. PICK p : p = Refused(r)
  OBVIOUS
<1>2. Amends(p, r, r.events_processed, r.rejected_events + 1, r.file_open_failed,
             r.invariant_failed, r.errors)
  BY <1>1, RefusedFields DEF Accounts
<1>3. IsResult(p) /\ q = WithError(p, type, m)
  BY <1>1, <1>2, Zenon DEF Amends
<1>4. Amends(q, p, p.events_processed, p.rejected_events, p.file_open_failed,
             p.invariant_failed, Append(p.errors, [type |-> type, line_number |-> m]))
  BY <1>3, WithErrorFields
<1>0. PICK errors : errors = r.errors
  OBVIOUS
<1>5. PICK x \in Nat, y \in Nat : x = r.events_processed /\ y = r.rejected_events
  BY DEF Accounts
<1>6. /\ IsResult(q) /\ SameAnomalies(q, r)
      /\ q.events_processed = x /\ q.rejected_events = y + 1
      /\ q.file_open_failed = r.file_open_failed
      /\ q.invariant_failed = r.invariant_failed
      /\ q.errors = Append(errors, [type |-> type, line_number |-> m])
  BY <1>2, <1>4, <1>0, <1>5, Zenon DEF Amends, SameAnomalies
<1>7. ErrorsUpTo(errors, n) /\ Len(errors) = y + 0 /\ n = x + y + h
  BY <1>0, <1>5, Zenon DEF Accounts
<1>8. ErrorsUpTo(q.errors, m) /\ Len(q.errors) = Len(errors) + 1
  BY <1>6, <1>7, ErrorAdded DEF OneLine
<1>9. /\ m = x + (y + 1) + k /\ Len(q.errors) = (y + 1) + 0
      /\ y + 1 \in Nat
  BY <1>7, <1>8 DEF OneLine
<1> QED
  BY <1>0, <1>5, <1>6, <1>8, <1>9, Zenon DEF Accounts, SameAnomalies

\* A line that was applied, before and after the monitor has looked at it.
LEMMA ProcessedAccounts ==
  ASSUME NEW r, NEW n \in Nat, NEW m \in Nat, NEW h \in Nat, NEW k \in Nat, NEW a,
         NEW q, q = Processed(r),
         Accounts(r, n, h, a, 0), OneLine(n, h, m, k)
  PROVE  /\ Accounts(q, m, k, Plus(a, 1), 0) /\ ErrorsUpTo(q.errors, n)
         /\ q.invariant_failed = r.invariant_failed
<1>1. Amends(q, r, r.events_processed + 1, r.rejected_events, r.file_open_failed,
             r.invariant_failed, r.errors)
  BY ProcessedFields DEF Accounts
<1>2. PICK x \in Nat, y \in Nat : x = r.events_processed /\ y = r.rejected_events
  BY DEF Accounts
<1>3. q.events_processed = x + 1 /\ q.rejected_events = y /\ q.errors = r.errors
  BY <1>1, <1>2, Zenon DEF Amends
<1>4. /\ ErrorsUpTo(q.errors, n) /\ Len(q.errors) = y + 0
      /\ n = x + y + h /\ a = x % Word
  BY <1>2, <1>3, Zenon DEF Accounts
<1>5. ErrorsUpTo(q.errors, m)
  BY <1>4, ErrorsStayUpTo DEF OneLine
<1>6. Plus(a, 1) = (x + 1) % Word
  BY <1>4, NextWord
<1>7. m = (x + 1) + y + k /\ x + 1 \in Nat
  BY <1>4 DEF OneLine
<1> QED
  BY <1>1, <1>3, <1>4, <1>5, <1>6, <1>7, Zenon DEF Accounts, Amends, SameAnomalies

LEMMA ReportedAccounts ==
  ASSUME NEW r, NEW n, NEW m, NEW k, NEW a, NEW events, IsList(events),
         NEW q, q = Reported(r, events),
         Accounts(r, m, k, a, 0), ErrorsUpTo(r.errors, n)
  PROVE  /\ Accounts(q, m, k, a, 0) /\ ErrorsUpTo(q.errors, n)
         /\ q.invariant_failed = r.invariant_failed
<1>0. IsResult(r)
  BY DEF Accounts
<1>1. /\ IsResult(q)
      /\ q.anomalies = r.anomalies \o events
      /\ q.anomaly_reason_counts = CountReasons(r.anomaly_reason_counts, events)
      /\ q.events_processed = r.events_processed
      /\ q.rejected_events = r.rejected_events
      /\ q.file_open_failed = r.file_open_failed
      /\ q.invariant_failed = r.invariant_failed /\ q.errors = r.errors
  BY <1>0, ReportedFields
<1>2. IsList(r.anomalies) /\ r.anomaly_reason_counts = summarize_anomaly_reasons(r.anomalies)
  BY DEF Accounts
<1>3. IsList(q.anomalies)
  BY <1>1, <1>2, ConcatOfLists
<1>4. q.anomaly_reason_counts = summarize_anomaly_reasons(q.anomalies)
  BY <1>1, <1>2, CountsExtendSummary
<1> QED
  BY <1>1, <1>3, <1>4, Zenon DEF Accounts

\* The event after which the book was found invalid.
FailedAt(r, n) ==
  r.invariant_failed = TRUE /\ r.errors[Len(r.errors)].line_number = n

LEMMA InvalidAccounts ==
  ASSUME NEW r, NEW n \in Nat, NEW m \in Nat, NEW k, NEW a, NEW type \in ErrorType, n < m,
         NEW q, q = WithError(Invalid(r), type, m),
         Accounts(r, m, k, a, 0), ErrorsUpTo(r.errors, n)
  PROVE  Accounts(q, m, k, a, 1) /\ FailedAt(q, m)
<1>1. PICK p : p = Invalid(r)
  OBVIOUS
<1>2. Amends(p, r, r.events_processed, r.rejected_events, r.file_open_failed,
             TRUE, r.errors)
  BY <1>1, InvalidFields DEF Accounts
<1>3. IsResult(p) /\ q = WithError(p, type, m)
  BY <1>1, <1>2, Zenon DEF Amends
<1>4. Amends(q, p, p.events_processed, p.rejected_events, p.file_open_failed,
             p.invariant_failed, Append(p.errors, [type |-> type, line_number |-> m]))
  BY <1>3, WithErrorFields
<1>0. PICK errors : errors = r.errors
  OBVIOUS
<1>5. PICK y \in Nat : y = r.rejected_events
  BY DEF Accounts
<1>6. /\ IsResult(q) /\ SameAnomalies(q, r)
      /\ q.events_processed = r.events_processed
      /\ q.rejected_events = y
      /\ q.file_open_failed = r.file_open_failed
      /\ q.invariant_failed = TRUE
      /\ q.errors = Append(errors, [type |-> type, line_number |-> m])
  BY <1>2, <1>4, <1>0, <1>5, Zenon DEF Amends, SameAnomalies
<1>7. Len(errors) = y + 0 /\ ErrorsUpTo(errors, n)
  BY <1>0, <1>5, Zenon DEF Accounts
<1>8. /\ ErrorsUpTo(q.errors, m) /\ Len(q.errors) = Len(errors) + 1
      /\ q.errors[Len(q.errors)].line_number = m
  BY <1>6, <1>7, ErrorAdded
<1>9. Len(q.errors) = y + 1
  BY <1>7, <1>8
<1> QED
  BY <1>0, <1>5, <1>6, <1>8, <1>9, Zenon DEF Accounts, SameAnomalies, FailedAt

\* Describing the book changes nothing of the account.
LEMMA EndingAccounts ==
  ASSUME NEW r, NEW n, NEW k, NEW a, NEW stops, NEW top, NEW snap,
         Accounts(r, n, k, a, stops), NEW q, q = EndingWith(r, top, snap)
  PROVE  /\ Accounts(q, n, k, a, stops) /\ q.invariant_failed = r.invariant_failed
         /\ q.errors = r.errors /\ q.final_top = top
<1>1. /\ Amends(q, r, r.events_processed, r.rejected_events, r.file_open_failed,
                r.invariant_failed, r.errors)
      /\ q.final_top = top
  BY EndingWithFields DEF Accounts
<1> QED
  BY <1>1, Zenon DEF Accounts, Amends, SameAnomalies

-----------------------------------------------------------------------------
(* The book, as the loop uses it *)

\* Of validate_invariants() only the test for crossing can fail.
ValidUnlessCrossed ==
  validate_invariants(options.allow_crossed_book)
    <=> (options.allow_crossed_book \/ ~Crossed)

LEMMA BookIsValid == BookOK => ValidUnlessCrossed
<1> SUFFICES ASSUME BookOK PROVE ValidUnlessCrossed
  OBVIOUS
<1>1. \A s \in Side : (DOMAIN levels[s] = {}) = (top_of_book[s] = << >>)
  BY DEF top_of_book
<1>2. LevelsAgree /\ IdsUnique /\ IndexComplete /\ TotalsAgree
  BY DEF BookOK, IInv, BookInv, IndexConsistent
<1> QED
  BY <1>1, <1>2, Zenon DEF ValidUnlessCrossed, validate_invariants

LEMMA BookIsValidNext == BookOK' => ValidUnlessCrossed'
BY BookIsValid, PTL

\* A crossed book shows it.
CrossedShows ==
  Crossed => top_of_book["Buy"][1].price > top_of_book["Sell"][1].price

LEMMA CrossedIsShown == CrossedShows
<1> SUFFICES ASSUME Crossed
             PROVE  top_of_book["Buy"][1].price > top_of_book["Sell"][1].price
  BY DEF CrossedShows
<1>1. ASSUME NEW s \in Side, DOMAIN levels[s] # {}
      PROVE  top_of_book[s][1].price = PricesOf(s)[1]
  <2>1. PICK best : best = PricesOf(s)[1]
    OBVIOUS
  <2>2. top_of_book[s] = <<make_price_level_view(best, levels[s][best])>>
    BY <1>1, <2>1 DEF top_of_book
  <2> QED
    BY <2>1, <2>2 DEF make_price_level_view
<1> QED
  BY <1>1 DEF Crossed, Side

LEMMA CrossedSame == ASSUME levels' = levels PROVE Crossed' <=> Crossed
BY DEF Crossed, PricesOf

LEMMA EmptyNotCrossed ==
  ASSUME levels = [s \in Side |-> NoEntries] PROVE ~Crossed
BY DEF Crossed, NoEntries, Side

-----------------------------------------------------------------------------
(* The inductive invariant: where a call of replay_file can be *)

Openable == {<< >>} \cup {<<f>> : f \in File}

OptionSet == [allow_crossed_book : BOOLEAN, validate_after_apply : BOOLEAN,
              enable_anomaly_detection : BOOLEAN]

CallsOK ==
  /\ disk \in Openable /\ options \in OptionSet
  /\ IsList(finished) /\ \A i \in 1 .. Len(finished) : finished[i].file \in Openable

\* A crossed book does not stop the call.
Lax == options.allow_crossed_book \/ ~options.validate_after_apply

\* Every line so far is accounted for and nothing has stopped the call.
GoesOn ==
  /\ is_open /\ replay.invariant_failed = FALSE /\ (Crossed => Lax)
  /\ Accounts(replay, line_number, HeaderLines, events_applied, 0)

NotCalled == phase = "idle" /\ replay.invariant_failed = FALSE /\ ~Crossed
NoFile    == /\ phase = "done" /\ ~is_open /\ ~Crossed
             /\ replay.invariant_failed = FALSE /\ replay.file_open_failed = TRUE
InLoop    == phase = "reading" /\ GoesOn
ReadOut   == phase = "done" /\ GoesOn /\ parsed.status = "EndOfFile"
Stopped   ==
  /\ phase = "done" /\ is_open /\ parsed.status # "EndOfFile"
  /\ replay.invariant_failed = TRUE /\ Crossed /\ ~Lax
  /\ Accounts(replay, line_number, HeaderLines, events_applied, 1)
  /\ replay.errors[Len(replay.errors)].line_number = line_number
  /\ replay.final_top = top_of_book

Situation == NotCalled \/ NoFile \/ InLoop \/ ReadOut \/ Stopped

ReplayInv == BookOK /\ ParserOK /\ CallsOK /\ Situation

LEMMA StartHasInv == ReplayInit => ReplayInv
<1> SUFFICES ASSUME ReplayInit PROVE ReplayInv
  OBVIOUS
<1>1. BookOK
  BY InitEstablishesInv DEF ReplayInit, Init, NoEntries, TotalsAgree, BookOK
<1>2. ParserOK
  <2>1. /\ disk = << >> /\ lines = << >> /\ position = 0 /\ line_number = 0
        /\ header_checked = FALSE /\ header_valid = FALSE /\ is_open = FALSE
    BY DEF ReplayInit, Parser!Init
  <2>2. << >> \in Seq(Parser!Line) /\ 0 \in 0 .. Len(<< >>)
    OBVIOUS
  <2> QED
    BY <2>1, <2>2, Zenon DEF ParserOK
<1>3. CallsOK
  <2>1. DefaultOptions \in OptionSet
    BY DEF DefaultOptions, OptionSet
  <2>2. IsList(<< >>) /\ Len(<< >>) = 0
    BY OptionalIsList DEF IsOptional
  <2> QED
    BY <2>1, <2>2 DEF ReplayInit, CallsOK, Openable
<1>4. NotCalled
  BY NoResultFields, EmptyNotCrossed DEF ReplayInit, NotCalled, Init
<1> QED
  BY <1>1, <1>2, <1>3, <1>4 DEF ReplayInv, Situation

LEMMA CallReturns ==
  ASSUME CallsOK, disk' \in Openable, options' \in OptionSet,
         finished' = Append(finished, [file |-> disk', options |-> options', replay |-> replay'])
  PROVE  CallsOK'
<1>1. PICK x : x = [file |-> disk', options |-> options', replay |-> replay']
  OBVIOUS
<1>2. x.file \in Openable
  BY <1>1
<1>3. /\ IsList(finished) /\ Len(finished) \in Nat
      /\ \A i \in 1 .. Len(finished) : finished[i].file \in Openable
  BY ListFacts DEF CallsOK
<1>4. /\ IsList(Append(finished, x)) /\ Len(Append(finished, x)) = Len(finished) + 1
      /\ \A i \in 1 .. Len(finished) : Append(finished, x)[i] = finished[i]
      /\ Append(finished, x)[Len(finished) + 1] = x
  BY <1>3, AppendToList
<1>5. PICK more : more = Append(finished, x)
  OBVIOUS
<1>6. \A i \in 1 .. (Len(finished) + 1) : more[i].file \in Openable
  BY <1>2, <1>3, <1>4, <1>5
<1>7. finished' = more
  BY <1>1, <1>5, Zenon
<1>8. IsList(more) /\ Len(more) = Len(finished) + 1
  BY <1>4, <1>5
<1> QED
  BY <1>6, <1>7, <1>8, Zenon DEF CallsOK

LEMMA CallStarts ==
  ASSUME ReplayInv, NEW file \in Openable, NEW opts \in Options, replay_file(file, opts)
  PROVE  ReplayInv'
<1>1. clear /\ options' = opts /\ opts \in OptionSet
  BY ReplayAssumption DEF replay_file, ClearBook, OptionSet
<1>2. BookOK' /\ events_applied' = 0 /\ ~Crossed'
  <2>1. [Next]_vars
    BY <1>1 DEF Next
  <2>2. DOMAIN levels'["Buy"] = {}
    BY <1>1 DEF clear, NoEntries, Side
  <2> QED
    BY <1>1, <2>1, <2>2, StepKeepsBook DEF ReplayInv, clear, Crossed
<1>3. /\ disk' = file /\ is_open' = (file # << >>)
      /\ lines' = (IF file = << >> THEN << >> ELSE file[1])
      /\ position' = 0 /\ line_number' = 0
      /\ header_checked' = FALSE /\ header_valid' = FALSE
  BY DEF replay_file, Parser!construct, Parser!OpenInput
<1>4. ParserOK' /\ HeaderLines' = 0
  <2>1. lines' \in Seq(Parser!Line)
    <3>1. CASE file = << >>
      BY <1>3, <3>1
    <3>2. CASE file # << >>
      <4>1. PICK f \in File : file = <<f>>
        BY <3>2 DEF Openable
      <4> QED
        BY <1>3, <3>2, <4>1, ReplayAssumption
    <3> QED
      BY <3>1, <3>2
  <2>2. Len(lines') \in Nat
    BY <2>1, LenProperties
  <2>3. /\ is_open' \in BOOLEAN /\ header_checked' \in BOOLEAN /\ header_valid' \in BOOLEAN
        /\ ~header_valid' /\ position' = 0 /\ line_number' = 0
    BY <1>3, Zenon
  <2>4. 0 \in 0 .. Len(lines')
    BY <2>2
  <2> QED
    BY <2>1, <2>3, <2>4, Zenon DEF ParserOK, HeaderLines
<1>5. CASE /\ ~is_open'
           /\ Return(WithError(NotOpened(NoResult), "FileOpenFailure", 0))
  <2>1. PICK r : r = NotOpened(NoResult)
    OBVIOUS
  <2>2. Amends(r, NoResult, NoResult.events_processed, NoResult.rejected_events, TRUE,
               NoResult.invariant_failed, NoResult.errors)
    BY <2>1, NoResultFields, NotOpenedFields
  <2>3. IsResult(r) /\ r.file_open_failed = TRUE /\ r.invariant_failed = FALSE
    BY <2>2, NoResultFields, Zenon DEF Amends
  <2>4. PICK q : q = WithError(r, "FileOpenFailure", 0)
    OBVIOUS
  <2>5. IsResult(q) /\ q.file_open_failed = TRUE /\ q.invariant_failed = FALSE
    <3>1. Amends(q, r, r.events_processed, r.rejected_events, r.file_open_failed,
                 r.invariant_failed,
                 Append(r.errors, [type |-> "FileOpenFailure", line_number |-> 0]))
      BY <2>3, <2>4, WithErrorFields
    <3> QED
      BY <2>3, <3>1, Zenon DEF Amends
  <2>6. /\ phase' = "done" /\ replay' = EndingWith(q, top_of_book', snapshot')
        /\ finished' = Append(finished, [file |-> disk', options |-> options',
                                         replay |-> replay'])
    BY <1>5, <2>1, <2>4, Zenon DEF Return
  <2>7. replay'.file_open_failed = TRUE /\ replay'.invariant_failed = FALSE
    BY <2>5, <2>6, EndingWithFields DEF Amends
  <2>8. CallsOK'
    BY <1>1, <1>3, <2>6, CallReturns DEF ReplayInv
  <2> QED
    BY <1>2, <1>4, <1>5, <2>6, <2>7, <2>8 DEF ReplayInv, Situation, NoFile
<1>6. CASE is_open' /\ phase' = "reading" /\ replay' = NoResult /\ UNCHANGED finished
  <2>1. CallsOK'
    BY <1>1, <1>3, <1>6 DEF ReplayInv, CallsOK
  <2>2. Accounts(replay', 0, 0, 0, 0) /\ replay'.invariant_failed = FALSE
    BY <1>6, NothingAccounted
  <2>3. Accounts(replay', line_number', HeaderLines', events_applied', 0)
    BY <1>2, <1>3, <1>4, <2>2
  <2> QED
    BY <1>2, <1>4, <1>6, <2>1, <2>2, <2>3 DEF ReplayInv, Situation, InLoop, GoesOn
<1> QED
  BY <1>5, <1>6 DEF replay_file

\* At the end of the file only a header may have been read since.
LEMMA EndAccounts ==
  ASSUME NEW r, NEW n \in Nat, NEW m \in Nat, NEW h \in Nat, NEW k \in Nat, NEW a,
         Accounts(r, n, h, a, 0), n <= m, m - k = n - h
  PROVE  Accounts(r, m, k, a, 0)
<1>1. PICK x \in Nat, y \in Nat : x = r.events_processed /\ y = r.rejected_events
  BY DEF Accounts
<1>2. ErrorsUpTo(r.errors, n) /\ n = x + y + h
  BY <1>1, Zenon DEF Accounts
<1>3. ErrorsUpTo(r.errors, m) /\ m = x + y + k
  BY <1>2, ErrorsStayUpTo
<1> QED
  BY <1>1, <1>3, Zenon DEF Accounts

LEMMA LoopKeepsInv == ASSUME ReplayInv, ReadNext PROVE ReplayInv'
<1>1. /\ phase = "reading" /\ Parser!next /\ options' = options
      /\ disk' = disk
  BY DEF ReadNext, Parser!next
<1>2. GoesOn /\ is_open
  BY <1>1 DEF ReplayInv, Situation, NotCalled, NoFile, InLoop, ReadOut, Stopped, GoesOn
<1>3. ParserOK' /\ is_open' /\ ReadsLine
  BY <1>1, <1>2, NextReads DEF ReplayInv
<1>4. CallsOK /\ disk' \in Openable /\ options' \in OptionSet
  BY <1>1 DEF ReplayInv, CallsOK
<1>5. PICK n \in Nat, m \in Nat, h \in Nat, k \in Nat :
        n = line_number /\ m = line_number' /\ h = HeaderLines /\ k = HeaderLines'
  <2>1. line_number \in Nat
    BY LenProperties DEF ReplayInv, ParserOK
  <2>2. line_number' \in Nat
    BY <1>3, LenProperties DEF ParserOK
  <2>3. HeaderLines \in Nat /\ HeaderLines' \in Nat
    BY DEF HeaderLines
  <2> QED
    BY <2>1, <2>2, <2>3
<1>6. PICK a : a = events_applied
  OBVIOUS
<1>7. Accounts(replay, n, h, a, 0) /\ replay.invariant_failed = FALSE /\ (Crossed => Lax)
  BY <1>2, <1>5, <1>6, Zenon DEF GoesOn
<1>8. Lax' <=> Lax
  BY <1>1 DEF Lax
<1>9. ASSUME NEW q, Continue(q), BookOK', (Crossed' => Lax),
             Accounts(q, m, k, events_applied', 0), q.invariant_failed = FALSE
      PROVE  ReplayInv'
  <2>1. phase' = "reading" /\ replay' = q /\ finished' = finished
    BY <1>1, <1>9 DEF Continue
  <2>2. CallsOK'
    BY <1>4, <2>1 DEF CallsOK
  <2>3. GoesOn'
    <3>1. Accounts(replay', line_number', HeaderLines', events_applied', 0)
      BY <1>5, <1>9, <2>1, Zenon
    <3> QED
      BY <1>3, <1>8, <1>9, <2>1, <3>1, Zenon DEF GoesOn
  <2> QED
    BY <1>3, <1>9, <2>1, <2>2, <2>3 DEF ReplayInv, Situation, InLoop
<1>10. ASSUME UNCHANGED vars
       PROVE  /\ BookOK' /\ (Crossed' <=> Crossed) /\ events_applied' = a
  BY <1>6, <1>10, StepKeepsBook, CrossedSame DEF ReplayInv, vars
<1>11. CASE parsed'.status = "EndOfFile" /\ AtEnd
  <2>1. UNCHANGED vars /\ Return(replay)
    BY <1>11 DEF AtEnd
  <2>2. Accounts(replay, m, k, a, 0)
    <3>1. n <= m /\ m - k = n - h
      BY <1>3, <1>5, <1>11 DEF ReadsLine
    <3> QED
      BY <1>7, <3>1, EndAccounts
  <2>3. /\ phase' = "done" /\ replay' = EndingWith(replay, top_of_book', snapshot')
        /\ finished' = Append(finished, [file |-> disk', options |-> options',
                                         replay |-> replay'])
    BY <2>1, Zenon DEF Return
  <2>4. Accounts(replay', m, k, a, 0) /\ replay'.invariant_failed = FALSE
    <3>1. PICK r, q, top, snap : /\ r = replay /\ q = replay'
                                 /\ top = top_of_book' /\ snap = snapshot'
      OBVIOUS
    <3>2. Accounts(r, m, k, a, 0) /\ q = EndingWith(r, top, snap)
      BY <2>2, <2>3, <3>1, Zenon
    <3>3. Accounts(q, m, k, a, 0) /\ q.invariant_failed = r.invariant_failed
      BY <3>2, EndingAccounts
    <3> QED
      BY <1>7, <3>1, <3>3, Zenon
  <2>5. CallsOK'
    BY <1>4, <2>3, CallReturns
  <2>6. GoesOn'
    <3>1. Accounts(replay', line_number', HeaderLines', events_applied', 0)
      BY <1>5, <1>10, <2>1, <2>4, Zenon
    <3> QED
      BY <1>3, <1>7, <1>8, <1>10, <2>1, <2>4, <3>1, Zenon DEF GoesOn
  <2> QED
    BY <1>3, <1>10, <1>11, <2>1, <2>3, <2>5, <2>6 DEF ReplayInv, Situation, ReadOut
<1>12. ASSUME parsed'.status # "EndOfFile"
       PROVE  /\ OneLine(n, h, m, k) /\ parsed'.line_number = m
              /\ parsed'.status = "Event" => Range(parsed'.event) \subseteq BookEvent
  BY <1>3, <1>5, <1>12 DEF ReadsLine, Answers, OneLine
<1>13. ASSUME NEW type \in ErrorType, parsed'.status # "EndOfFile", BookOK',
              replay' = WithError(Refused(replay), type, parsed'.line_number),
              phase' = phase, finished' = finished,
              levels' = levels, events_applied' = events_applied
       PROVE  ReplayInv'
  <2>1. OneLine(n, h, m, k) /\ parsed'.line_number = m
    BY <1>12, <1>13
  <2>2. PICK q : q = WithError(Refused(replay), type, m)
    OBVIOUS
  <2>3. Continue(q)
    BY <1>13, <2>1, <2>2, Zenon DEF Continue
  <2>4. Accounts(q, m, k, a, 0) /\ q.invariant_failed = FALSE
    <3>1. Accounts(q, m, k, a, 0) /\ q.invariant_failed = replay.invariant_failed
      BY <1>7, <2>1, <2>2, RefusedAccounts
    <3> QED
      BY <1>7, <3>1, Zenon
  <2>5. Crossed' => Lax
    BY <1>7, <1>13, CrossedSame
  <2>6. Accounts(q, m, k, events_applied', 0)
    BY <1>6, <1>13, <2>4
  <2> QED
    BY <1>9, <1>13, <2>3, <2>4, <2>5, <2>6
<1>14. CASE parsed'.status = "MalformedRow" /\ UNCHANGED vars /\ Rejected("ParseError")
  <2>1. BookOK' /\ levels' = levels /\ events_applied' = events_applied
    BY <1>10, <1>14 DEF vars
  <2>2. /\ replay' = WithError(Refused(replay), "ParseError", parsed'.line_number)
        /\ phase' = phase /\ finished' = finished
    BY <1>14, Zenon DEF Rejected, Continue
  <2>3. parsed'.status # "EndOfFile" /\ "ParseError" \in ErrorType
    BY <1>14 DEF ErrorType
  <2> QED
    BY <1>13, <2>1, <2>2, <2>3, Zenon
<1>15. ASSUME parsed'.status = "Event", NEW event \in Range(parsed'.event), apply(event)
       PROVE  BookOK' /\ BookStep
  <2>1. event \in BookEvent
    BY <1>12, <1>15
  <2>2. BookStep
    BY <1>15, <2>1, EventStep
  <2> QED
    BY <2>2, StepKeepsBook DEF ReplayInv, BookStep
<1>16. ASSUME parsed'.status = "Event", NEW event \in Range(parsed'.event), apply(event),
              result' # "Applied", Rejected("ApplyRejected")
       PROVE  ReplayInv'
  <2>1. BookOK' /\ levels' = levels /\ events_applied' = events_applied
    BY <1>15, <1>16 DEF BookStep
  <2>2. /\ replay' = WithError(Refused(replay), "ApplyRejected", parsed'.line_number)
        /\ phase' = phase /\ finished' = finished
    BY <1>16, Zenon DEF Rejected, Continue
  <2>3. parsed'.status # "EndOfFile" /\ "ApplyRejected" \in ErrorType
    BY <1>16 DEF ErrorType
  <2> QED
    BY <1>13, <2>1, <2>2, <2>3, Zenon
<1>17. ASSUME parsed'.status = "Event", NEW event \in Range(parsed'.event), apply(event),
              result' = "Applied", Accepted(event)
       PROVE  ReplayInv'
  <2>1. OneLine(n, h, m, k) /\ parsed'.line_number = m
    BY <1>12, <1>17
  <2>2. BookOK' /\ events_applied' = Plus(a, 1)
    BY <1>6, <1>15, <1>17 DEF BookStep
  <2>3. Observed(event)
    BY <1>17 DEF Accepted
  <2>4. PICK r : r = Processed(replay)
    OBVIOUS
  <2>5. /\ Accounts(r, m, k, Plus(a, 1), 0) /\ ErrorsUpTo(r.errors, n)
        /\ r.invariant_failed = replay.invariant_failed
    <3>1. PICK old : old = replay
      OBVIOUS
    <3>2. r = Processed(old) /\ Accounts(old, n, h, a, 0)
      BY <1>7, <2>4, <3>1, Zenon
    <3>3. /\ Accounts(r, m, k, Plus(a, 1), 0) /\ ErrorsUpTo(r.errors, n)
          /\ r.invariant_failed = old.invariant_failed
      BY <2>1, <3>2, ProcessedAccounts
    <3> QED
      BY <3>1, <3>3, Zenon
  <2>6. PICK q : q = AfterEvent
    OBVIOUS
  <2>7. /\ Accounts(q, m, k, Plus(a, 1), 0) /\ ErrorsUpTo(q.errors, n)
        /\ q.invariant_failed = r.invariant_failed
    <3>1. CASE options.enable_anomaly_detection
      <4>1. IsList(anomalies')
        BY <2>3, <3>1, ObservedGivesList DEF Observed
      <4>2. q = Reported(r, anomalies')
        BY <2>4, <2>6, <3>1, Zenon DEF AfterEvent
      <4> QED
        BY <2>5, <4>1, <4>2, ReportedAccounts
    <3>2. CASE ~options.enable_anomaly_detection
      BY <2>4, <2>5, <2>6, <3>2, Zenon DEF AfterEvent
    <3> QED
      BY <3>1, <3>2
  <2>8. q.invariant_failed = FALSE
    BY <1>7, <2>5, <2>7, Zenon
  <2>9. validate_invariants(options.allow_crossed_book)'
          <=> (options.allow_crossed_book \/ ~Crossed')
    <3>1. ValidUnlessCrossed'
      BY <2>2, BookIsValidNext
    <3> QED
      BY <1>1, <3>1, Zenon DEF ValidUnlessCrossed
  <2>10. CASE ~(options.validate_after_apply
                 /\ ~validate_invariants(options.allow_crossed_book)')
    <3>1. Continue(q)
      BY <1>17, <2>6, <2>10, Zenon DEF Accepted, Continue
    <3>2. Crossed' => Lax
      BY <2>9, <2>10 DEF Lax
    <3>3. Accounts(q, m, k, events_applied', 0)
      BY <2>2, <2>7
    <3> QED
      BY <1>9, <2>2, <2>8, <3>1, <3>2, <3>3
  <2>11. CASE options.validate_after_apply
                /\ ~validate_invariants(options.allow_crossed_book)'
    <3>1. PICK p : p = WithError(Invalid(q), "InvariantFailure", m)
      OBVIOUS
    <3>2. /\ phase' = "done" /\ replay' = EndingWith(p, top_of_book', snapshot')
          /\ finished' = Append(finished, [file |-> disk', options |-> options',
                                           replay |-> replay'])
      BY <1>17, <2>1, <2>6, <2>11, <3>1, Zenon DEF Accepted, Return
    <3>3. /\ Accounts(p, m, k, Plus(a, 1), 1) /\ p.invariant_failed = TRUE
          /\ p.errors[Len(p.errors)].line_number = m
      <4>1. PICK type \in ErrorType : type = "InvariantFailure"
        BY DEF ErrorType
      <4>2. PICK b : b = Plus(a, 1)
        OBVIOUS
      <4>3. Accounts(q, m, k, b, 0) /\ ErrorsUpTo(q.errors, n) /\ n < m
        BY <2>1, <2>7, <4>2, Zenon DEF OneLine
      <4>4. Accounts(p, m, k, b, 1) /\ FailedAt(p, m)
        <5>1. p = WithError(Invalid(q), type, m)
          BY <3>1, <4>1, Zenon
        <5> QED
          BY <4>3, <5>1, InvalidAccounts
      <4> QED
        BY <4>2, <4>4, Zenon DEF FailedAt
    <3>4. /\ Accounts(replay', m, k, Plus(a, 1), 1)
          /\ replay'.invariant_failed = p.invariant_failed
          /\ replay'.errors = p.errors /\ replay'.final_top = top_of_book'
      BY <3>2, <3>3, EndingAccounts
    <3>5. Crossed' /\ ~Lax'
      BY <1>8, <2>9, <2>11 DEF Lax
    <3>6. CallsOK'
      BY <1>4, <3>2, CallReturns
    <3>7. Accounts(replay', line_number', HeaderLines', events_applied', 1)
      BY <1>5, <2>2, <3>4, Zenon
    <3>8. replay'.invariant_failed = TRUE
      BY <3>3, <3>4, Zenon
    <3>9. replay'.errors[Len(replay'.errors)].line_number = line_number'
      BY <1>5, <3>3, <3>4, Zenon
    <3>10. Stopped'
      BY <1>3, <1>17, <3>2, <3>4, <3>5, <3>7, <3>8, <3>9, Zenon DEF Stopped
    <3> QED
      BY <1>3, <2>2, <3>6, <3>10 DEF ReplayInv, Situation
  <2> QED
    BY <2>10, <2>11
<1> QED
  BY <1>11, <1>14, <1>16, <1>17 DEF ReadNext

\* An engine nobody calls keeps what it has.
LEMMA IdleKeepsInv == ASSUME ReplayInv, UNCHANGED replayVars PROVE ReplayInv'
<1>1. UNCHANGED vars /\ UNCHANGED parser /\ UNCHANGED engine
  BY DEF replayVars
<1>2. /\ levels' = levels /\ events_applied' = events_applied
      /\ disk' = disk /\ is_open' = is_open /\ lines' = lines
      /\ position' = position /\ line_number' = line_number
      /\ header_checked' = header_checked /\ header_valid' = header_valid
      /\ parsed' = parsed /\ phase' = phase /\ options' = options
      /\ replay' = replay /\ finished' = finished
  BY <1>1 DEF vars, parser, engine
<1>3. BookOK'
  BY <1>1, StepKeepsBook DEF ReplayInv
<1>4. ParserOK' /\ HeaderLines' = HeaderLines
  BY <1>2 DEF ReplayInv, ParserOK, HeaderLines
<1>5. CallsOK'
  BY <1>2, Zenon DEF ReplayInv, CallsOK
<1>6. (Crossed' <=> Crossed) /\ (Lax' <=> Lax) /\ top_of_book' = top_of_book
  <2>1. Crossed' <=> Crossed
    BY <1>2, CrossedSame
  <2>2. Lax' <=> Lax
    BY <1>2 DEF Lax
  <2>3. top_of_book' = top_of_book
    BY <1>2, Zenon DEF top_of_book, PricesOf
  <2> QED
    BY <2>1, <2>2, <2>3
<1>7. Situation'
  <2>1. CASE NotCalled
    BY <1>2, <1>6, <2>1 DEF NotCalled, Situation
  <2>2. CASE NoFile
    BY <1>2, <1>6, <2>2 DEF NoFile, Situation
  <2>3. CASE InLoop \/ ReadOut
    <3>1. GoesOn'
      BY <1>2, <1>4, <1>6, <2>3, Zenon DEF InLoop, ReadOut, GoesOn
    <3> QED
      BY <1>2, <2>3, <3>1 DEF InLoop, ReadOut, Situation
  <2>4. CASE Stopped
    BY <1>2, <1>4, <1>6, <2>4, Zenon DEF Stopped, Situation
  <2> QED
    BY <2>1, <2>2, <2>3, <2>4 DEF ReplayInv, Situation
<1> QED
  BY <1>3, <1>4, <1>5, <1>7 DEF ReplayInv

LEMMA NextKeepsInv == ReplayInv /\ [ReplayNext]_replayVars => ReplayInv'
<1> SUFFICES ASSUME ReplayInv, [ReplayNext]_replayVars PROVE ReplayInv'
  OBVIOUS
<1>1. ASSUME NEW opts \in Options,
             NEW file \in {<< >>} \cup {<<f>> : f \in IF finished = << >> THEN File
                                          ELSE Again \cup Range(finished[1].file)},
             replay_file(file, opts)
      PROVE  ReplayInv'
  <2>1. CASE file = << >> \/ \E f \in File : file = <<f>>
    BY <1>1, <2>1, CallStarts DEF Openable
  <2>2. CASE finished # << >> /\ \E f \in Range(finished[1].file) : file = <<f>>
    <3>1. Len(finished) \in Nat /\ Len(finished) # 0
      BY <2>2, ListFacts, EmptySeq DEF ReplayInv, CallsOK, IsList
    <3>2. finished[1].file \in Openable
      BY <3>1 DEF ReplayInv, CallsOK
    <3>3. PICK f \in Range(finished[1].file) : file = <<f>>
      BY <2>2
    <3>4. finished[1].file # << >>
      BY <3>3 DEF Range
    <3>5. PICK g \in File : finished[1].file = <<g>>
      BY <3>2, <3>4 DEF Openable
    <3>6. f = g
      BY <3>3, <3>5 DEF Range
    <3> QED
      BY <2>1, <3>3, <3>5, <3>6
  <2> QED
    BY <1>1, <2>1, <2>2, ReplayAssumption
<1>2. CASE ReadNext
  BY <1>2, LoopKeepsInv
<1>3. CASE UNCHANGED replayVars
  BY <1>3, IdleKeepsInv
<1> QED
  BY <1>1, <1>2, <1>3 DEF ReplayNext, Retired

-----------------------------------------------------------------------------
(* What the invariant says of a replay *)

LEMMA InvCountsLines == ReplayInv => EveryLineCountedOnce
<1> SUFFICES ASSUME ReplayInv, phase # "idle", is_open
             PROVE  EveryLineCountedOnce
  BY DEF EveryLineCountedOnce
<1>1. PICK stops \in {0, 1} :
        /\ Accounts(replay, line_number, HeaderLines, events_applied, stops)
        /\ stops = IF replay.invariant_failed THEN 1 ELSE 0
  BY DEF ReplayInv, Situation, NotCalled, NoFile, InLoop, ReadOut, Stopped, GoesOn
<1> QED
  BY <1>1, Zenon DEF EveryLineCountedOnce, Accounts, ErrorsUpTo, HeaderLines

LEMMA InvStopsWhenCrossed == ReplayInv => StopsWhenCrossed
<1> SUFFICES ASSUME ReplayInv PROVE StopsWhenCrossed
  OBVIOUS
<1>1. ASSUME replay.invariant_failed
      PROVE  Stopped
  BY <1>1 DEF ReplayInv, Situation, NotCalled, NoFile, InLoop, ReadOut, Stopped, GoesOn
<1>2. ASSUME Stopped
      PROVE  /\ Crossed /\ ~Lax
             /\ Last(replay.errors).line_number = line_number
             /\ replay.final_top["Buy"][1].price > replay.final_top["Sell"][1].price
  BY <1>2, CrossedIsShown DEF Stopped, Last, CrossedShows
<1>3. ASSUME Crossed, ~replay.invariant_failed
      PROVE  Lax
  BY <1>3 DEF ReplayInv, Situation, NotCalled, NoFile, InLoop, ReadOut, Stopped, GoesOn
<1> QED
  BY <1>1, <1>2, <1>3, Zenon DEF StopsWhenCrossed, Lax

LEMMA InvReadToEnd == ReplayInv => ExitZeroMeansRead
<1> SUFFICES ASSUME ReplayInv, phase = "done" PROVE ExitZeroMeansRead
  BY DEF ExitZeroMeansRead
<1>1. CASE NoFile
  <2>1. exit_code(replay) = 1 /\ ~is_open
    BY <1>1 DEF NoFile, exit_code
  <2> QED
    BY <2>1 DEF ExitZeroMeansRead
<1>2. CASE ReadOut
  <2>1. exit_code(replay) = 0
    BY <1>2, Zenon DEF ReadOut, GoesOn, Accounts, exit_code
  <2>2. is_open /\ parsed.status = "EndOfFile"
    BY <1>2 DEF ReadOut, GoesOn
  <2>3. ASSUME header_valid
        PROVE  /\ position = Len(lines)
               /\ replay.events_processed + replay.rejected_events = Len(lines) - 1
    <3>1. position = Len(lines) /\ line_number = position
      BY <2>2, <2>3 DEF ReplayInv, ParserOK
    <3>2. PICK x \in Nat, y \in Nat :
            /\ x = replay.events_processed /\ y = replay.rejected_events
            /\ line_number = x + y + HeaderLines
      BY <1>2 DEF ReadOut, GoesOn, Accounts
    <3>3. HeaderLines = 1
      BY <2>3 DEF HeaderLines
    <3> QED
      BY <3>1, <3>2, <3>3
  <2> QED
    BY <2>1, <2>2, <2>3, Zenon DEF ExitZeroMeansRead
<1>3. CASE Stopped
  <2>1. exit_code(replay) = 1 /\ parsed.status # "EndOfFile"
    BY <1>3 DEF Stopped, exit_code
  <2> QED
    BY <2>1 DEF ExitZeroMeansRead
<1> QED
  BY <1>1, <1>2, <1>3 DEF ReplayInv, Situation, NotCalled, InLoop

LEMMA ReplayInvHolds == ReplaySpec => []ReplayInv
BY StartHasInv, NextKeepsInv, PTL DEF ReplaySpec

\* For every file, every options and every sequence of replays by one engine,
\* replay_file() accounts for each line the parser consumed exactly once: as
\* the header, as an event the book counted, or as an error in line order.
THEOREM LinesAreCountedOnce == ReplaySpec => []EveryLineCountedOnce
BY ReplayInvHolds, InvCountsLines, PTL

\* replay_file() stops with an invariant failure exactly at the event that
\* crosses a book that must not cross, and shows that book in its result: no
\* other test of validate_invariants() ever fails in a replay.
THEOREM OnlyCrossingStops == ReplaySpec => []StopsWhenCrossed
BY ReplayInvHolds, InvStopsWhenCrossed, PTL

\* The exit code of datagine_replay is 0 exactly if the file could be opened
\* and was read to its end, or to its wrong header, with every row counted.
THEOREM ExitCodeIsTrue == ReplaySpec => []ExitZeroMeansRead
BY ReplayInvHolds, InvReadToEnd, PTL
-----------------------------------------------------------------------------
(* What the invariant says of the monitor *)

LEMMA LoopKeepsMonitor ==
  ASSUME ReplayInv, ReplayInv', MonitorOK, ReadNext
  PROVE  MonitorOK'
<1>1. ASSUME UNCHANGED monitored PROVE MonitorOK'
  BY <1>1, MonitorStays DEF monitored, monitorVars, extractorVars
<1>2. ASSUME NEW event, event \in Range(parsed'.event), parsed'.status = "Event",
             observe(event)
      PROVE  MonitorOK'
  <2>1. is_open /\ Parser!next
    BY DEF ReadNext, ReplayInv, Situation, NotCalled, NoFile, InLoop, ReadOut, Stopped, GoesOn
  <2>2. ReadsLine
    BY <2>1, NextReads DEF ReplayInv
  <2>3. event \in BookEvent
    BY <1>2, <2>2 DEF ReadsLine, Answers
  <2>4. event.timestamp \in Int
    <3>1. event.timestamp \in Timestamp
      BY <2>3 DEF BookEvent, MarketEvent
    <3>2. Timestamp \subseteq Int
      BY ExtractorAssumption
    <3> QED
      BY <3>1, <3>2
  <2>5. BookOK'
    BY DEF ReplayInv
  <2> QED
    BY <1>2, <2>4, <2>5, ObserveKeepsMonitor
<1> QED
  BY <1>1, <1>2 DEF ReadNext, AtEnd, Accepted, Observed

LEMMA StepKeepsMonitor ==
  ASSUME ReplayInv, ReplayInv', MonitorOK, [ReplayNext]_replayVars
  PROVE  MonitorOK'
<1>1. ASSUME NEW file, NEW opts, replay_file(file, opts) PROVE MonitorOK'
  BY <1>1, FreshIsOKNext DEF replay_file, MonitorReset, reset, Fresh
<1>2. CASE ReadNext
  BY <1>2, LoopKeepsMonitor
<1>3. CASE UNCHANGED replayVars
  BY <1>3, MonitorStays DEF replayVars, monitored, monitorVars, extractorVars
<1> QED
  BY <1>1, <1>2, <1>3 DEF ReplayNext, Retired

\* The monitor of a call of replay_file() reports what is true of that call's
\* events and books: each call starts afresh, rejected rows and events the book
\* refuses leave no trace in it, and what it scores is the book right after.
THEOREM MonitorIsTrueInReplay ==
  ReplaySpec =>
    [](AnomaliesJustified /\ ImbalanceInRange /\ SamplesMatchBooks /\ WindowsExact)
<1>1. ReplayInit => MonitorOK
  BY FreshIsOK DEF ReplayInit, MonitorInit, ExtractorInit, Fresh
<1>2. ReplayInv /\ ReplayInv' /\ MonitorOK /\ [ReplayNext]_replayVars => MonitorOK'
  BY StepKeepsMonitor
<1>3. MonitorOK => AnomaliesJustified /\ ImbalanceInRange /\ SamplesMatchBooks /\ WindowsExact
  BY DEF MonitorOK
<1> QED
  BY <1>1, <1>2, <1>3, ReplayInvHolds, PTL DEF ReplaySpec
=============================================================================
