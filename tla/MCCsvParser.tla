---------------------------- MODULE MCCsvParser ----------------------------
(* Instantiates CsvParser for TLC. *)
EXTENDS CsvParser

\* 9 is out of range for every field; -0 is 0 for signed fields only.
Numerals == [t \in {"0", "1", "2", "9", "-1", "-0"} |->
               IF t = "1" THEN 1 ELSE IF t = "2" THEN 2 ELSE IF t = "9" THEN 9
               ELSE IF t = "-1" THEN -1 ELSE 0]

\* A signed 64-bit representation, cut down.
SignedRep == {-1, 0, 1}

Padded(core) == [core |-> core, lead |-> core # "", trail |-> TRUE]

Row(c1, c2, c3, c4, c5, c6) ==
  <<Plain(c1), Plain(c2), Plain(c3), Plain(c4), Plain(c5), Plain(c6)>>

\* Every combination of these texts of the columns.
Combined == {Row(c1, c2, c3, c4, c5, c6) :
           c1 \in {"1", "-1", "x"},
           c2 \in {"ADD", "CANCEL", "MODIFY", "EXECUTE", "add"},
           c3 \in {"2", "-0"},
           c4 \in {"", "B", "S"},
           c5 \in {"", "-1", "-0", "9"},
           c6 \in {"", "0", "2", "-1"}}

Good   == Row("1", "ADD", "2", "B", "-1", "2")
GoodOfEachType == {Good, Row("1", "CANCEL", "2", "", "", ""),
                   Row("1", "MODIFY", "2", "", "-1", "2"),
                   Row("1", "EXECUTE", "2", "", "-1", "2")}

\* Any one column of a good row left empty, out of range, negative or no number.
OneChanged == {[row EXCEPT ![i] = Plain(text)] :
                 row \in GoodOfEachType, i \in 1 .. 6, text \in {"", "9", "-1", "x"}}

CrLf   == [i \in 1 .. 6 |-> Padded(Good[i].core)]
Empty  == <<Plain("")>>
Wide   == Append(Good, Plain(""))
Header == kExpectedHeader
HeaderCrLf == [Header EXCEPT ![1] = Padded(@.core), ![6] = Padded(@.core)]
HeaderLoose == [Header EXCEPT ![2] = Padded(@.core)]

Updates == {<<Header, CrLf>>, <<Good>>, << >>}

Files ==
  {<<Header, row>> : row \in Combined \cup OneChanged}
  \cup Updates
  \cup {<<HeaderCrLf, CrLf, Empty, Good>>, <<HeaderLoose, Good>>, <<Header>>,
        <<Header, Header, Wide, Good>>, <<Empty, Header, Good>>}
=============================================================================
