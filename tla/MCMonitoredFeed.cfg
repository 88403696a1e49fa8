\* Five orders, times in and out of order and far enough apart to overflow.
SPECIFICATION FeedSpec
CONSTANTS
  OrderId = {1, 2, 3, 4, 5}
  Price = {1, 2, 3, 4}
  Timestamp <- Times
  Word = 4
  TopN = 2
  Width <- Widths
  TimeMax = 2
  min_samples = 1
  Score <- OutOfRange
  Feed <- Events
  MaxEvents = 4
INVARIANTS
  WindowsExact
  ImbalanceInRange
  SamplesMatchBooks
  AnomaliesJustified
