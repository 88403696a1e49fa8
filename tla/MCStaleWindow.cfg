\* Times in and out of order, no overflow.
SPECIFICATION FeedSpec
CONSTANTS
  OrderId = {1, 2, 3, 4, 5}
  Price = {1, 2, 3, 4}
  Timestamp = {0, 2, 3}
  Word = 4
  TopN = 2
  Width <- Widths
  TimeMax = 3
  min_samples = 1
  Score <- OutOfRange
  Feed <- Events
  MaxEvents = 4
INVARIANTS
  RollingWindow
