\* One-row files over combinations of column texts and over good rows with one
\* column changed, and longer files with blank lines, CRLF ends, repeated, loose
\* and missing headers.
SPECIFICATION Spec
CONSTANTS
  OrderId = {0, 1, 2}
  Price <- SignedRep
  Timestamp <- SignedRep
  Word = 3
  File <- Files
  Update <- Updates
  Numeral <- Numerals
  MinusSign = {"-1", "-0"}
INVARIANTS
  AnswersFollowFile
  RowsMeanEvents
PROPERTIES
  ReadsToEnd
