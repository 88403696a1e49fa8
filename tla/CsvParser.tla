----------------------------- MODULE CsvParser -----------------------------
(***************************************************************************)
(* The feed parser of feed/csv_parser.{hpp,cpp}: next() reads the header   *)
(* on its first call and one row per call, reset() opens the file again.   *)
(*                                                                         *)
(* A file is the sequence of lines std::getline delivers, a line the       *)
(* sequence of texts between its commas.  Of a text only what trim() and   *)
(* the comparisons can tell is kept: the core that is left when blanks are *)
(* cut at both ends, and whether there were any.                           *)
(***************************************************************************)
EXTENDS MarketTypes

CONSTANTS
  File,       \* what the input file may hold
  Update,     \* what it may be replaced with while the parser lives
  Numeral,    \* the number each text made of an optional "-" and digits denotes
  MinusSign   \* those of these texts that begin with "-"

Text == [core : STRING, lead : BOOLEAN, trail : BOOLEAN]
Line == Seq(Text) \ {<< >>}

ASSUME FileAssumption ==
  /\ File \subseteq Seq(Line) /\ Update \subseteq File
  /\ MinusSign \subseteq DOMAIN Numeral

VARIABLES
  disk,        \* the file at input_path_: <<its lines>>, or << >> if there is none
  is_open, lines, position,   \* input_: what it opened and how much is read
  line_number, header_checked, header_valid,
  parsed,      \* what the last next() returned
  calls        \* calls of next() since the file was opened, as far as they differ

input == <<is_open, lines, position>>
parserVars == <<input, line_number, header_checked, header_valid, parsed, calls>>
csvVars == <<disk, parserVars>>

Plain(core) == [core |-> core, lead |-> FALSE, trail |-> FALSE]

kExpectedHeader ==
  <<Plain("timestamp_ns"), Plain("event_type"), Plain("order_id"),
    Plain("side"), Plain("price"), Plain("quantity")>>

\* Cutting the blanks at both ends of a line cuts them at the front of its
\* first text and at the back of its last.
trim(line) == [line EXCEPT ![1].lead = FALSE, ![Len(line)].trail = FALSE]

split_csv_columns(row) == [i \in DOMAIN row |-> row[i].core]

\* Mutant of parse_integral: the sign of an unsigned field is let through.
parse_integral_AnySign(text, rep, signed) ==
  text \in DOMAIN Numeral /\ (Numeral[text] \in rep \/ -Numeral[text] \in rep)

\* std::from_chars reads all of the text as a value of type rep.
parse_integral(text, rep, signed) ==
  /\ text \in DOMAIN Numeral
  /\ signed \/ text \notin MinusSign
  /\ Numeral[text] \in rep

parse_event_type ==
  [ADD |-> "Add", CANCEL |-> "Cancel", MODIFY |-> "Modify", EXECUTE |-> "Execute"]

parse_side == [B |-> "Buy", S |-> "Sell"]

\* Which field of a row parse_row objects to first, in the order of its tests.
Objection(column) ==
  IF Len(column) # 6 THEN "columns"
  ELSE IF ~parse_integral(column[1], Timestamp, TRUE) THEN "timestamp_ns"
  ELSE IF column[2] \notin DOMAIN parse_event_type THEN "event_type"
  ELSE IF ~parse_integral(column[3], OrderId, FALSE) THEN "order_id"
  ELSE IF column[2] = "CANCEL"
       THEN IF \A i \in 4 .. 6 : column[i] = "" THEN "none" ELSE "cancel"
  ELSE IF ~(IF column[2] = "ADD" THEN column[4] \in DOMAIN parse_side
                                 ELSE column[4] = "") THEN "side"
  ELSE IF ~parse_integral(column[5], Price, TRUE) THEN "price"
  ELSE IF ~parse_integral(column[6], Quantity, FALSE) THEN "quantity"
  ELSE "none"

\* The event of a row without objection.
EventOf(column) ==
  LET type == parse_event_type[column[2]]
  IN  [type      |-> type,
       timestamp |-> Numeral[column[1]],
       order_id  |-> Numeral[column[3]],
       side      |-> IF type = "Add" THEN parse_side[column[4]] ELSE "Buy",
       price     |-> IF type = "Cancel" THEN 0 ELSE Numeral[column[5]],
       quantity  |-> IF type = "Cancel" THEN 0 ELSE Numeral[column[6]]]

malformed(number, message, row) ==
  [status |-> "MalformedRow", event |-> << >>, line_number |-> number,
   message |-> message, raw_row |-> row]

EndOfFile == [status |-> "EndOfFile", event |-> << >>, line_number |-> 0,
              message |-> "none", raw_row |-> << >>]

parse_row(row, number) ==
  LET column == split_csv_columns(row)
  IN  IF Objection(column) # "none"
      THEN malformed(number, Objection(column), row)
      ELSE [status |-> "Event", event |-> <<EventOf(column)>>,
            line_number |-> number, message |-> "none", raw_row |-> row]

-----------------------------------------------------------------------------
Init ==
  /\ disk \in {<< >>} \cup {<<file>> : file \in File}
  /\ is_open = (disk # << >>)
  /\ lines = IF disk = << >> THEN << >> ELSE disk[1]
  /\ position = 0
  /\ line_number = 0
  /\ header_checked = FALSE /\ header_valid = FALSE
  /\ parsed = EndOfFile
  /\ calls = 0

\* Mutant of ReadRow: a getline that fails is parsed as an empty row.
ReadRow_NoEnd(at, number) ==
  \/ /\ at = Len(lines)
     /\ position' = at /\ line_number' = number
     /\ parsed' = parse_row(<<Plain("")>>, number)
  \/ /\ at < Len(lines)
     /\ position' = at + 1 /\ line_number' = number + 1
     /\ parsed' = parse_row(lines[at + 1], number + 1)

\* std::getline of a row with at lines before it, and its parse.
ReadRow(at, number) ==
  \/ /\ at = Len(lines)
     /\ position' = at /\ line_number' = number
     /\ parsed' = EndOfFile
  \/ /\ at < Len(lines)
     /\ position' = at + 1 /\ line_number' = number + 1
     /\ parsed' = parse_row(lines[at + 1], number + 1)

\* The first call on an open file: the header, then in the same call a row.
FirstNext ==
  /\ is_open /\ ~header_checked
  /\ header_checked' = TRUE
  /\ \/ /\ position = Len(lines)
        /\ parsed' = EndOfFile
        /\ UNCHANGED <<position, line_number, header_valid>>
     \/ /\ position < Len(lines)
        /\ LET header == lines[position + 1]
           IN  /\ header_valid' = (trim(header) = kExpectedHeader)
               /\ \/ /\ ~header_valid'
                     /\ position' = position + 1
                     /\ line_number' = line_number + 1
                     /\ parsed' = malformed(line_number + 1, "header", header)
                  \/ header_valid' /\ ReadRow(position + 1, line_number + 1)

LaterNext ==
  /\ is_open /\ header_checked
  /\ \/ ~header_valid /\ parsed' = EndOfFile /\ UNCHANGED <<position, line_number>>
     \/ header_valid /\ ReadRow(position, line_number)
  /\ UNCHANGED <<header_checked, header_valid>>

ClosedNext ==
  /\ ~is_open
  /\ parsed' = malformed(0, "not open", << >>)
  /\ UNCHANGED <<position, line_number, header_checked, header_valid>>

next ==
  /\ ClosedNext \/ FirstNext \/ LaterNext
  /\ calls' = IF calls > Len(lines) THEN calls ELSE calls + 1
  /\ UNCHANGED <<disk, is_open, lines>>

\* input_ opens a file, <<its lines>> or << >> for none, and stands at its start.
OpenInput(file) ==
  /\ is_open' = (file # << >>)
  /\ lines' = IF file = << >> THEN << >> ELSE file[1]
  /\ position' = 0 /\ line_number' = 0 /\ calls' = 0

\* A parser constructed on a path with this file.
construct(file) ==
  /\ disk' = file
  /\ OpenInput(file)
  /\ header_checked' = FALSE /\ header_valid' = FALSE
  /\ parsed' = EndOfFile

\* Mutant of reset: the header is taken for read.
reset_KeepHeader ==
  OpenInput(disk) /\ UNCHANGED <<disk, parsed, header_checked, header_valid>>

reset ==
  /\ OpenInput(disk)
  /\ header_checked' = FALSE /\ header_valid' = FALSE
  /\ UNCHANGED <<disk, parsed>>

\* Somebody replaces or removes the file: an open stream keeps what it opened.
Replace ==
  /\ disk' \in {<< >>} \cup {<<file>> : file \in Update}
  /\ UNCHANGED parserVars

Next == next \/ reset \/ Replace

\* The caller keeps calling next().
Spec == Init /\ [][Next]_csvVars /\ WF_csvVars(next)

-----------------------------------------------------------------------------
(* Properties *)

\* What next() must return the k-th time on a file with these lines.
Answer(k) ==
  IF ~is_open THEN malformed(0, "not open", << >>)
  ELSE IF lines = << >> THEN EndOfFile
  ELSE IF trim(lines[1]) # kExpectedHeader
       THEN IF k = 1 THEN malformed(1, "header", lines[1]) ELSE EndOfFile
  ELSE IF k < Len(lines) THEN parse_row(lines[k + 1], k + 1) ELSE EndOfFile

\* However calls of next() and reset() and replacements of the file follow one
\* another, the k-th next() after an open answers for line k + 1 of the file
\* that was opened: the header is never taken for a row nor a row for the
\* header, no row is skipped, an end stays an end, and rows below a wrong
\* header are never events.
AnswersFollowFile == calls > 0 => parsed = Answer(calls)

\* The texts of an event in a row: how parse_row's six columns spell it.
Spells(row, e) ==
  LET Number(i, v, signed) == /\ row[i].core \in DOMAIN Numeral
                              /\ Numeral[row[i].core] = v
                              /\ row[i].core \in MinusSign => signed
      Blank(i) == row[i].core = ""
  IN  /\ Len(row) = 6
      /\ Number(1, e.timestamp, TRUE) /\ Number(3, e.order_id, FALSE)
      /\ \/ /\ e.type = "Cancel" /\ row[2].core = "CANCEL"
            /\ Blank(4) /\ Blank(5) /\ Blank(6)
            /\ e.side = "Buy" /\ e.price = 0 /\ e.quantity = 0
         \/ /\ e.price \in Price
            /\ Number(5, e.price, TRUE) /\ Number(6, e.quantity, FALSE)
            /\ \/ /\ e.type = "Add" /\ row[2].core = "ADD"
                  /\ row[4].core = (IF e.side = "Buy" THEN "B" ELSE "S")
               \/ /\ e.type = "Modify" /\ row[2].core = "MODIFY"
                  /\ Blank(4) /\ e.side = "Buy"
               \/ /\ e.type = "Execute" /\ row[2].core = "EXECUTE"
                  /\ Blank(4) /\ e.side = "Buy"

\* A row is an event exactly if it spells one that fits the types of its
\* fields, and then it is that event: no sign, range or stray field slips
\* through parse_integral and the tests per type, and no good row is refused.
RowsMeanEvents ==
  LET row == parsed.raw_row
  IN  calls > 0 /\ row # << >> /\ parsed.message # "header" =>
        {e \in MarketEvent : Spells(row, e)} = Range(parsed.event)

\* A caller that reads on gets to the end of the file unless it keeps resetting
\* or its reset() found no file: then next() never says EndOfFile.
ReadsToEnd ==
  (<>[][calls' >= calls]_csvVars) =>
     <>[](IF is_open THEN parsed.status = "EndOfFile"
                     ELSE calls > 0 => parsed.status = "MalformedRow")
=============================================================================
