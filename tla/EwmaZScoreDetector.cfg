\* Up to four samples of two features each, one quarter of weight to the newest.
SPECIFICATION Spec
CONSTANTS
  Feature = {"message_rate", "bid_ask_spread"}
  Value = {0, 1, 5}
  AlphaNum = 1
  AlphaDen = 4
  FloorDen = 6
  Threshold = 2
  min_samples = 2
  MaxSamples = 4
INVARIANTS
  StatisticsAreWeighted
  ScoredAgainstEarlier
  FlatThenMove
