--------------------------- MODULE CsvParserProofs ---------------------------
(***************************************************************************)
(* Proofs about the feed parser, for every set of files and every table of *)
(* numerals.  The invariant says how much of the opened file has been read *)
(* after so many calls, and what the header test found.                    *)
(***************************************************************************)
EXTENDS CsvParser, SequenceTheorems, TLAPS

HeaderOK == lines # << >> /\ trim(lines[1]) = kExpectedHeader

DiskOK == disk = << >> \/ \E file \in File : disk = <<file>>

InputOK ==
  /\ lines \in Seq(Line)
  /\ is_open \in BOOLEAN
  /\ calls \in 0 .. (Len(lines) + 1)

\* Before the first call nothing is read; after call k of a file with the right
\* header the header and the rows of k calls are, as far as there are any.
ReadSoFar ==
  is_open =>
    /\ calls = 0 => position = 0 /\ line_number = 0
                  /\ ~header_checked /\ ~header_valid
    /\ calls > 0 => header_checked /\ (header_valid <=> HeaderOK)
    /\ calls > 0 /\ HeaderOK =>
         /\ line_number = position
         /\ position = IF calls < Len(lines) THEN calls + 1 ELSE Len(lines)

ParserInv == DiskOK /\ InputOK /\ ReadSoFar /\ AnswersFollowFile

-----------------------------------------------------------------------------
LEMMA OpenedLines ==
  ASSUME NEW file, file = << >> \/ \E f \in File : file = <<f>>
  PROVE  /\ (IF file = << >> THEN << >> ELSE file[1]) \in Seq(Line)
         /\ (file # << >>) \in BOOLEAN
<1>1. CASE file = << >>
  BY <1>1
<1>2. CASE \E f \in File : file = <<f>>
  <2>1. PICK f \in File : file = <<f>>
    BY <1>2
  <2>2. f \in Seq(Line) /\ file[1] = f
    BY <2>1, FileAssumption
  <2> QED
    BY <2>1, <2>2
<1> QED
  BY <1>1, <1>2

LEMMA NextKeepsInv == ASSUME ParserInv, next PROVE ParserInv'
<1>1. /\ Len(lines) \in Nat /\ calls \in Nat /\ calls <= Len(lines) + 1
      /\ lines \in Seq(Line)
  BY LenProperties DEF ParserInv, InputOK
<1>0. lines = << >> <=> Len(lines) = 0
  BY <1>1, EmptySeq
<1>2. /\ disk' = disk /\ is_open' = is_open /\ lines' = lines
      /\ calls' = IF calls > Len(lines) THEN calls ELSE calls + 1
  BY DEF next
<1>3. DiskOK' /\ InputOK' /\ calls' > 0
  BY <1>1, <1>2 DEF ParserInv, DiskOK, InputOK
<1>4. CASE ~is_open
  <2>1. parsed' = malformed(0, "not open", << >>)
    BY <1>4 DEF next, ClosedNext, FirstNext, LaterNext
  <2> QED
    BY <1>2, <1>3, <1>4, <2>1 DEF ParserInv, ReadSoFar, AnswersFollowFile, Answer
<1>5. CASE is_open /\ calls = 0
  <2>1. /\ position = 0 /\ line_number = 0 /\ ~header_checked /\ ~header_valid
        /\ calls' = 1
    BY <1>1, <1>2, <1>5 DEF ParserInv, ReadSoFar
  <2>2. FirstNext
    BY <2>1, <1>5 DEF next, ClosedNext, LaterNext
  <2>3. CASE Len(lines) = 0
    <3>1. parsed' = EndOfFile /\ header_checked' /\ ~header_valid'
      BY <2>1, <2>2, <2>3 DEF FirstNext
    <3>2. lines = << >> /\ ~HeaderOK'
      BY <1>0, <1>2, <2>3 DEF HeaderOK
    <3> QED
      BY <1>2, <1>3, <1>5, <2>1, <3>1, <3>2
         DEF ParserInv, ReadSoFar, AnswersFollowFile, Answer
  <2>4. CASE Len(lines) > 0 /\ trim(lines[1]) # kExpectedHeader
    <3>1. /\ parsed' = malformed(line_number + 1, "header", lines[position + 1])
          /\ header_checked' /\ ~header_valid'
      <4>1. position + 1 = 1 /\ position < Len(lines) /\ position # Len(lines)
        BY <2>1, <2>4
      <4> QED
        BY <2>2, <2>4, <4>1 DEF FirstNext
    <3>2. lines # << >> /\ ~HeaderOK'
      BY <1>0, <1>1, <1>2, <2>4 DEF HeaderOK
    <3> QED
      BY <1>2, <1>3, <1>5, <2>1, <2>4, <3>1, <3>2
         DEF ParserInv, ReadSoFar, AnswersFollowFile, Answer, malformed
  <2>5. CASE Len(lines) > 0 /\ trim(lines[1]) = kExpectedHeader
    <3>1. header_checked' /\ header_valid' /\ ReadRow(position + 1, line_number + 1)
      <4>1. position + 1 = 1 /\ position < Len(lines) /\ position # Len(lines)
        BY <2>1, <2>5
      <4> QED
        BY <2>2, <2>5, <4>1 DEF FirstNext
    <3>2. lines # << >> /\ HeaderOK'
      BY <1>0, <1>1, <1>2, <2>5 DEF HeaderOK
    <3>3. /\ parsed' = IF 1 < Len(lines) THEN parse_row(lines[2], 2) ELSE EndOfFile
          /\ position' = IF 1 < Len(lines) THEN 2 ELSE Len(lines)
          /\ line_number' = position'
      <4>1. position + 1 = 1 /\ line_number + 1 = 1
        BY <2>1
      <4>2. 1 < Len(lines) \/ Len(lines) = 1
        <5>1. Len(lines) \in Nat /\ Len(lines) > 0
          BY <1>1, <2>5
        <5>2. \A n \in Nat : n > 0 => 1 < n \/ n = 1
          OBVIOUS
        <5> QED
          BY <5>1, <5>2
      <4>3. CASE 1 < Len(lines)
        BY <1>1, <3>1, <4>1, <4>3 DEF ReadRow
      <4>4. CASE Len(lines) = 1
        BY <3>1, <4>1, <4>4 DEF ReadRow
      <4> QED
        BY <4>2, <4>3, <4>4
    <3> QED
      BY <1>2, <1>3, <1>5, <2>1, <2>5, <3>1, <3>2, <3>3
         DEF ParserInv, ReadSoFar, AnswersFollowFile, Answer
  <2> QED
    BY <1>1, <2>3, <2>4, <2>5
<1>6. CASE is_open /\ calls > 0
  <2>1. /\ header_checked /\ (header_valid <=> HeaderOK)
        /\ HeaderOK => /\ line_number = position
                       /\ position = IF calls < Len(lines) THEN calls + 1 ELSE Len(lines)
    BY <1>6 DEF ParserInv, ReadSoFar
  <2>2. LaterNext /\ header_checked' /\ (header_valid' <=> header_valid)
    BY <2>1, <1>6 DEF next, ClosedNext, FirstNext, LaterNext
  <2>3. HeaderOK' <=> HeaderOK
    BY <1>2 DEF HeaderOK
  <2>4. CASE ~HeaderOK
    <3>1. parsed' = EndOfFile
      BY <2>1, <2>2, <2>4 DEF LaterNext
    <3>2. calls' # 1 \/ lines = << >>
      BY <1>0, <1>1, <1>2, <1>6
    <3> QED
      BY <1>2, <1>3, <1>6, <2>1, <2>2, <2>3, <2>4, <3>1, <3>2
         DEF ParserInv, ReadSoFar, AnswersFollowFile, Answer, HeaderOK
  <2>5. CASE HeaderOK
    <3>1. ReadRow(position, line_number)
      BY <2>1, <2>2, <2>5 DEF LaterNext
    <3>2. /\ parsed' = IF calls' < Len(lines) THEN parse_row(lines[calls' + 1], calls' + 1)
                                              ELSE EndOfFile
          /\ position' = IF calls' < Len(lines) THEN calls' + 1 ELSE Len(lines)
          /\ line_number' = position'
      BY <1>1, <1>2, <1>6, <2>1, <2>5, <3>1 DEF ReadRow
    <3> QED
      BY <1>2, <1>3, <1>6, <2>1, <2>2, <2>3, <2>5, <3>2
         DEF ParserInv, ReadSoFar, AnswersFollowFile, Answer, HeaderOK
  <2> QED
    BY <2>4, <2>5
<1> QED
  BY <1>1, <1>4, <1>5, <1>6 DEF ParserInv, InputOK

\* The parser as it is right after it opened a file.
AtStart ==
  /\ position = 0 /\ line_number = 0 /\ calls = 0
  /\ ~header_checked /\ ~header_valid

LEMMA StartHasInv ==
  ASSUME DiskOK, lines \in Seq(Line), is_open \in BOOLEAN, AtStart
  PROVE  ParserInv
<1>1. Len(lines) \in Nat /\ calls = 0
  BY LenProperties DEF AtStart
<1>2. InputOK
  BY <1>1 DEF InputOK
<1>3. ReadSoFar /\ AnswersFollowFile
  BY <1>1 DEF AtStart, ReadSoFar, AnswersFollowFile
<1> QED
  BY <1>2, <1>3 DEF ParserInv

LEMMA StartHasInvNext ==
  DiskOK' /\ (lines \in Seq(Line))' /\ (is_open \in BOOLEAN)' /\ AtStart' => ParserInv'
BY StartHasInv, PTL

LEMMA ResetKeepsInv == ASSUME ParserInv, reset PROVE ParserInv'
<1>1. DiskOK /\ disk' = disk /\ OpenInput(disk)
  BY DEF ParserInv, reset
<1>2. DiskOK' /\ lines' \in Seq(Line) /\ is_open' \in BOOLEAN
  BY <1>1, OpenedLines DEF DiskOK, OpenInput
<1>3. AtStart'
  BY DEF reset, OpenInput, AtStart
<1> QED
  BY <1>2, <1>3, StartHasInvNext

LEMMA InitHasInv == Init => ParserInv
<1> SUFFICES ASSUME Init PROVE ParserInv
  OBVIOUS
<1>1. DiskOK
  BY DEF Init, DiskOK
<1>2. lines \in Seq(Line) /\ is_open \in BOOLEAN
  BY <1>1, OpenedLines DEF DiskOK, Init
<1>3. AtStart
  BY DEF Init, AtStart
<1> QED
  BY <1>1, <1>2, <1>3, StartHasInv

\* A stream that is open keeps what it opened, whatever happens to the path.
LEMMA OthersKeepInv ==
  ASSUME ParserInv, DiskOK', UNCHANGED parserVars
  PROVE  ParserInv'
<1>1. InputOK'
  BY DEF ParserInv, InputOK, parserVars, input
<1>2. ReadSoFar'
  BY DEF ParserInv, ReadSoFar, HeaderOK, parserVars, input
<1>3. AnswersFollowFile'
  BY DEF ParserInv, AnswersFollowFile, Answer, parserVars, input
<1> QED
  BY <1>1, <1>2, <1>3 DEF ParserInv

LEMMA StepKeepsInv == ParserInv /\ [Next]_csvVars => ParserInv'
<1> SUFFICES ASSUME ParserInv, [Next]_csvVars PROVE ParserInv'
  OBVIOUS
<1>1. CASE next
  BY <1>1, NextKeepsInv
<1>2. CASE reset
  BY <1>2, ResetKeepsInv
<1>3. CASE Replace
  <2>1. DiskOK'
    BY <1>3, FileAssumption DEF Replace, DiskOK
  <2> QED
    BY <1>3, <2>1, OthersKeepInv DEF Replace
<1>4. CASE UNCHANGED csvVars
  <2>1. DiskOK' /\ UNCHANGED parserVars
    BY <1>4 DEF csvVars, ParserInv, DiskOK
  <2> QED
    BY <2>1, OthersKeepInv
<1> QED
  BY <1>1, <1>2, <1>3, <1>4 DEF Next

\* For every file: whatever calls of next() and reset() and replacements of
\* the file came before, the k-th next() since the file was opened answers for
\* its line k + 1, and an end of file stays one.
THEOREM EveryLineAnswered == Spec => []AnswersFollowFile
<1>1. ParserInv => AnswersFollowFile
  BY DEF ParserInv
<1> QED
  BY <1>1, InitHasInv, StepKeepsInv, PTL DEF Spec

-----------------------------------------------------------------------------
(* Rows and events *)

\* The columns of a row, text by text.
LEMMA ColumnsOfRow ==
  ASSUME NEW row \in Line
  PROVE  /\ Len(row) \in Nat /\ DOMAIN row = 1 .. Len(row)
         /\ Len(split_csv_columns(row)) = Len(row)
         /\ \A i \in 1 .. Len(row) : split_csv_columns(row)[i] = row[i].core
<1>1. row \in Seq(Text) /\ Len(row) \in Nat /\ DOMAIN row = 1 .. Len(row)
  BY LenProperties DEF Line
<1> DEFINE c == split_csv_columns(row)
<1>2. c = [i \in 1 .. Len(row) |-> row[i].core]
  BY <1>1 DEF split_csv_columns
<1>3. \A i \in 1 .. Len(row) : row[i].core \in STRING
  <2>1. \A i \in 1 .. Len(row) : row[i] \in Text
    BY <1>1, ElementOfSeq
  <2>2. \A t \in Text : t.core \in STRING
    BY Zenon DEF Text
  <2> QED
    BY <2>1, <2>2
<1>4. c \in Seq(STRING) /\ Len(c) = Len(row)
  BY <1>1, <1>2, <1>3, IsASeq, LenProperties
<1> QED
  BY <1>1, <1>2, <1>4

\* What is left once every test of parse_row has been passed.
NoObjection(c) ==
  /\ parse_integral(c[1], Timestamp, TRUE)
  /\ c[2] \in {"ADD", "CANCEL", "MODIFY", "EXECUTE"}
  /\ parse_integral(c[3], OrderId, FALSE)
  /\ c[2] = "CANCEL" => c[4] = "" /\ c[5] = "" /\ c[6] = ""
  /\ c[2] # "CANCEL" => /\ c[2] = "ADD" => c[4] \in {"B", "S"}
                        /\ c[2] # "ADD" => c[4] = ""
                        /\ parse_integral(c[5], Price, TRUE)
                        /\ parse_integral(c[6], Quantity, FALSE)

LEMMA TypeNames ==
  /\ DOMAIN parse_event_type = {"ADD", "CANCEL", "MODIFY", "EXECUTE"}
  /\ parse_event_type["ADD"] = "Add" /\ parse_event_type["CANCEL"] = "Cancel"
  /\ parse_event_type["MODIFY"] = "Modify" /\ parse_event_type["EXECUTE"] = "Execute"
  /\ DOMAIN parse_side = {"B", "S"}
  /\ parse_side["B"] = "Buy" /\ parse_side["S"] = "Sell"
BY DEF parse_event_type, parse_side

LEMMA ObjectionCases ==
  ASSUME NEW c, Len(c) = 6
  PROVE  Objection(c) = "none" <=> NoObjection(c)
<1>1. (\A i \in 4 .. 6 : c[i] = "") <=> c[4] = "" /\ c[5] = "" /\ c[6] = ""
  <2>1. 4 .. 6 = {4, 5, 6}
    OBVIOUS
  <2> QED
    BY <2>1
<1> QED
  BY <1>1, TypeNames DEF Objection, NoObjection

LEMMA EventFields ==
  ASSUME NEW e \in MarketEvent
  PROVE  /\ e.type \in EventType /\ e.timestamp \in Timestamp /\ e.order_id \in OrderId
         /\ e.side \in Side /\ e.price \in Price \cup {0} /\ e.quantity \in Quantity
         /\ e = [type |-> e.type, timestamp |-> e.timestamp, order_id |-> e.order_id,
                 side |-> e.side, price |-> e.price, quantity |-> e.quantity]
BY DEF MarketEvent

LEMMA EventBuilt ==
  ASSUME NEW type \in EventType, NEW timestamp \in Timestamp, NEW id \in OrderId,
         NEW side \in Side, NEW price \in Price \cup {0}, NEW quantity \in Quantity
  PROVE  [type |-> type, timestamp |-> timestamp, order_id |-> id, side |-> side,
          price |-> price, quantity |-> quantity] \in MarketEvent
BY DEF MarketEvent

\* A row without objection spells its event.
LEMMA AcceptedRowSpells ==
  ASSUME NEW row \in Line, NEW c, Len(row) = 6, NoObjection(c),
         \A i \in 1 .. 6 : c[i] = row[i].core
  PROVE  EventOf(c) \in MarketEvent /\ Spells(row, EventOf(c))
<1> DEFINE e == EventOf(c)
<1>1. /\ row[1].core = c[1] /\ row[2].core = c[2] /\ row[3].core = c[3]
      /\ row[4].core = c[4] /\ row[5].core = c[5] /\ row[6].core = c[6]
  OBVIOUS
<1>2. /\ c[1] \in DOMAIN Numeral /\ Numeral[c[1]] \in Timestamp
      /\ c[3] \in DOMAIN Numeral /\ Numeral[c[3]] \in OrderId /\ c[3] \notin MinusSign
  BY DEF NoObjection, parse_integral
<1>3. CASE c[2] = "CANCEL"
  <2>1. e = [type |-> "Cancel", timestamp |-> Numeral[c[1]], order_id |-> Numeral[c[3]],
             side |-> "Buy", price |-> 0, quantity |-> 0]
    BY <1>3, TypeNames DEF EventOf
  <2>2. /\ "Cancel" \in EventType /\ "Buy" \in Side /\ 0 \in Price \cup {0}
        /\ 0 \in Quantity
    BY WordAssumption DEF Quantity, EventType, Side
  <2>3. e \in MarketEvent
    BY <1>2, <2>1, <2>2, EventBuilt
  <2>4. /\ e.type = "Cancel" /\ e.timestamp = Numeral[c[1]] /\ e.order_id = Numeral[c[3]]
        /\ e.side = "Buy" /\ e.price = 0 /\ e.quantity = 0
    BY <2>1
  <2>5. c[4] = "" /\ c[5] = "" /\ c[6] = ""
    BY <1>3 DEF NoObjection
  <2> HIDE DEF e
  <2>6. Spells(row, e)
    BY <1>1, <1>2, <1>3, <2>4, <2>5 DEF Spells
  <2> QED
    BY <2>3, <2>6 DEF e
<1>4. CASE c[2] # "CANCEL"
  <2> DEFINE type == parse_event_type[c[2]]
             side == IF c[2] = "ADD" THEN parse_side[c[4]] ELSE "Buy"
  <2>1. \/ c[2] = "ADD" /\ type = "Add"
        \/ c[2] = "MODIFY" /\ type = "Modify" /\ side = "Buy" /\ c[4] = ""
        \/ c[2] = "EXECUTE" /\ type = "Execute" /\ side = "Buy" /\ c[4] = ""
    BY <1>4, TypeNames DEF NoObjection
  <2>2. e = [type |-> type, timestamp |-> Numeral[c[1]], order_id |-> Numeral[c[3]],
             side |-> side, price |-> Numeral[c[5]], quantity |-> Numeral[c[6]]]
    BY <2>1 DEF EventOf
  <2>3. /\ c[5] \in DOMAIN Numeral /\ Numeral[c[5]] \in Price
        /\ c[6] \in DOMAIN Numeral /\ Numeral[c[6]] \in Quantity /\ c[6] \notin MinusSign
    BY <1>4 DEF NoObjection, parse_integral
  <2>4. c[2] = "ADD" => c[4] \in {"B", "S"}
    BY <1>4 DEF NoObjection
  <2>5. type \in EventType /\ side \in Side
    BY <2>1, <2>4, TypeNames DEF EventType, Side
  <2>6. c[2] = "ADD" => c[4] = IF side = "Buy" THEN "B" ELSE "S"
    BY <2>4, TypeNames
  <2> HIDE DEF type, side
  <2>7. e \in MarketEvent
    BY <1>2, <2>2, <2>3, <2>5, EventBuilt
  <2>8. /\ e.type = type /\ e.timestamp = Numeral[c[1]] /\ e.order_id = Numeral[c[3]]
        /\ e.side = side /\ e.price = Numeral[c[5]] /\ e.quantity = Numeral[c[6]]
    BY <2>2
  <2> HIDE DEF e
  <2>9. Spells(row, e)
    BY <1>1, <1>2, <2>1, <2>3, <2>6, <2>8 DEF Spells
  <2> QED
    BY <2>7, <2>9 DEF e
<1> QED
  BY <1>3, <1>4

\* A row that spells an event has no objection and is that event.
LEMMA SpellingIsAccepted ==
  ASSUME NEW row \in Line, NEW c, Len(row) = 6, \A i \in 1 .. 6 : c[i] = row[i].core,
         NEW e \in MarketEvent, Spells(row, e)
  PROVE  NoObjection(c) /\ e = EventOf(c)
<1>1. /\ row[1].core = c[1] /\ row[2].core = c[2] /\ row[3].core = c[3]
      /\ row[4].core = c[4] /\ row[5].core = c[5] /\ row[6].core = c[6]
  OBVIOUS
<1>2. NoObjection(c)
  BY <1>1, EventFields DEF Spells, NoObjection, parse_integral
<1>3. /\ EventOf(c).type = e.type /\ EventOf(c).timestamp = e.timestamp
      /\ EventOf(c).order_id = e.order_id /\ EventOf(c).side = e.side
      /\ EventOf(c).price = e.price /\ EventOf(c).quantity = e.quantity
  BY <1>1, EventFields, TypeNames, ZenonT(40) DEF Spells, EventOf, Side
<1>4. EventOf(c) \in MarketEvent
  BY <1>2, AcceptedRowSpells
<1> QED
  BY <1>2, <1>3, <1>4, EventFields

LEMMA RowMeansEvent ==
  ASSUME NEW row \in Line, NEW number
  PROVE  {e \in MarketEvent : Spells(row, e)} = Range(parse_row(row, number).event)
<1> DEFINE c == split_csv_columns(row)
<1>1. /\ Len(c) = Len(row)
      /\ \A i \in 1 .. Len(row) : c[i] = row[i].core
  BY ColumnsOfRow
<1>2. parse_row(row, number).event = IF Objection(c) = "none" THEN <<EventOf(c)>> ELSE << >>
  BY DEF parse_row, malformed
<1> HIDE DEF c
<1>3. CASE Len(row) # 6
  <2>1. Objection(c) # "none"
    BY <1>1, <1>3 DEF Objection
  <2>2. \A e : ~Spells(row, e)
    BY <1>3 DEF Spells
  <2> QED
    BY <1>2, <2>1, <2>2 DEF Range
<1>4. CASE Len(row) = 6 /\ ~NoObjection(c)
  <2>1. Objection(c) # "none"
    BY <1>1, <1>4, ObjectionCases
  <2>2. \A e \in MarketEvent : ~Spells(row, e)
    BY <1>1, <1>4, SpellingIsAccepted
  <2> QED
    BY <1>2, <2>1, <2>2 DEF Range
<1>5. CASE Len(row) = 6 /\ NoObjection(c)
  <2>1. Objection(c) = "none"
    BY <1>1, <1>5, ObjectionCases
  <2>2. EventOf(c) \in MarketEvent /\ Spells(row, EventOf(c))
    BY <1>1, <1>5, AcceptedRowSpells
  <2>3. \A e \in MarketEvent : Spells(row, e) => e = EventOf(c)
    BY <1>1, <1>5, SpellingIsAccepted
  <2>4. Range(<<EventOf(c)>>) = {EventOf(c)}
    BY DEF Range
  <2> QED
    BY <1>2, <2>1, <2>2, <2>3, <2>4
<1> QED
  BY <1>3, <1>4, <1>5

\* For every table of numerals and every range of the field types: a row is an
\* event exactly if its texts spell one, and it is that event.
THEOREM RowsAreUnderstood == Spec => []RowsMeanEvents
<1>1. ParserInv => RowsMeanEvents
  <2> SUFFICES ASSUME ParserInv, calls > 0, parsed.raw_row # << >>,
                      parsed.message # "header"
               PROVE  {e \in MarketEvent : Spells(parsed.raw_row, e)} = Range(parsed.event)
    BY DEF RowsMeanEvents
  <2>1. parsed = Answer(calls) /\ lines \in Seq(Line) /\ calls \in Nat
    BY DEF ParserInv, AnswersFollowFile, InputOK
  <2>2. \A n, m, r : malformed(n, m, r).raw_row = r /\ malformed(n, m, r).message = m
    BY DEF malformed
  <2>3. EndOfFile.raw_row = << >>
    BY DEF EndOfFile
  <2>4. calls < Len(lines) /\ parsed = parse_row(lines[calls + 1], calls + 1)
    <3>1. parsed # EndOfFile
      BY <2>3
    <3>2. parsed # malformed(0, "not open", << >>)
      <4>1. malformed(0, "not open", << >>).raw_row = << >>
        BY DEF malformed
      <4> QED
        BY <4>1
    <3>3. parsed # malformed(1, "header", lines[1])
      BY <2>2
    <3> QED
      BY <2>1, <3>1, <3>2, <3>3, Zenon DEF Answer
  <2>5. lines[calls + 1] \in Line
    BY <2>1, <2>4, ElementOfSeq, LenProperties
  <2>6. parsed.raw_row = lines[calls + 1]
    BY <2>2, <2>4 DEF parse_row
  <2> QED
    BY <2>4, <2>5, <2>6, RowMeansEvent
<1> QED
  BY <1>1, InitHasInv, StepKeepsInv, PTL DEF Spec
=============================================================================
