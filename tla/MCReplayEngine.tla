--------------------------- MODULE MCReplayEngine ---------------------------
(* Instantiates ReplayEngine for TLC. *)
EXTENDS ReplayEngine

Numerals == [t \in {"1", "2", "3"} |-> IF t = "1" THEN 1 ELSE IF t = "2" THEN 2 ELSE 3]

Row(c1, c2, c3, c4, c5, c6) ==
  [i \in 1 .. 6 |-> [core |-> <<c1, c2, c3, c4, c5, c6>>[i], lead |-> FALSE, trail |-> FALSE]]

Header == Row("timestamp_ns", "event_type", "order_id", "side", "price", "quantity")

Bid     == Row("1", "ADD", "1", "B", "1", "2")
Ask     == Row("2", "ADD", "2", "S", "2", "1")
Crosses == Row("1", "ADD", "3", "B", "3", "1")
Joins   == Row("2", "ADD", "3", "B", "1", "2")
Fills   == Row("2", "EXECUTE", "1", "", "1", "1")
Cancels == Row("1", "CANCEL", "2", "", "", "")
Reduces == Row("2", "MODIFY", "1", "", "1", "1")
Bad     == Row("1", "ADD", "1", "B", "x", "2")

Rows == {Bid, Ask, Crosses, Joins, Fills, Cancels, Reduces, Bad}

\* Files replayed after any other: a bid, two in one level, a crossed book, and
\* one without a header.
SecondFiles == {<<Header, Bid>>, <<Header, Joins, Bid>>,
                <<Header, Ask, Crosses, Bid>>, <<Bid, Ask>>}

Files ==
  SecondFiles
  \cup {<< >>, <<Header>>}
  \cup {<<Header, r>> : r \in Rows}
  \cup {<<Header, r, s>> : r \in Rows, s \in Rows}
  \cup {<<Header, r, s, t>> : r \in {Bid, Ask, Bad}, s \in {Ask, Crosses, Joins},
                              t \in {Crosses, Fills, Cancels, Reduces}}

Settings == {CliOptions(FALSE), CliOptions(TRUE),
             [CliOptions(FALSE) EXCEPT !.allow_crossed_book = TRUE],
             [CliOptions(TRUE) EXCEPT !.validate_after_apply = FALSE]}

Widths == [message |-> 1, cancel_ratio |-> 1, mid |-> 1]

\* A value scores past the threshold when it leaves the range of the samples.
OutOfRange(samples, value) ==
  IF \A i \in DOMAIN samples : samples[i][1] * value[2] < value[1] * samples[i][2]
  THEN "high"
  ELSE IF \A i \in DOMAIN samples : value[1] * samples[i][2] < samples[i][1] * value[2]
  THEN "low" ELSE "mid"
=============================================================================
