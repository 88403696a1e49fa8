\* Files of up to three rows, two replays in a row under four option sets.
SPECIFICATION ReplaySpec
CONSTANTS
  OrderId = {1, 2, 3}
  Price = {1, 2, 3}
  Timestamp = {1, 2}
  Word = 3
  TopN = 1
  Width <- Widths
  TimeMax = 3
  min_samples = 1
  Score <- OutOfRange
  File <- Files
  Numeral <- Numerals
  MinusSign = {}
  Options <- Settings
  Again <- SecondFiles
  MaxReplays = 2
INVARIANTS
  EveryLineCountedOnce
  ReplaysAgree
  ChecksumsSeparateBooks
  StopsWhenCrossed
  ExitZeroMeansRead
PROPERTIES
  ReplayEnds
