--------------------------- MODULE AnomalyMonitor ---------------------------
(***************************************************************************)
(* AnomalyMonitor of anomaly/anomaly_detector.{hpp,cpp}: observe() extracts *)
(* the features after an event, scores those that are there, in a fixed    *)
(* order, and returns an anomaly for each score past the threshold.        *)
(*                                                                         *)
(* The state EwmaZScoreDetector keeps of a feature is determined by the    *)
(* samples scored so far, so they stand for it here; what it computes from *)
(* them is the constant Score, and module EwmaZScoreDetector is about it.  *)
(***************************************************************************)
EXTENDS FeatureExtractor

CONSTANTS
  min_samples,   \* config_.min_samples
  Score(_, _)    \* the z-score of a value after some samples: "high" if at or
                 \* above the threshold, "low" if at or below minus it, or "mid"

ASSUME MonitorAssumption == min_samples \in Nat

VARIABLES
  states,      \* detector_.states_, per feature the samples scored
  anomalies    \* what the last observe() since the last reset returned

monitorVars == <<extractorVars, states, anomalies>>

\* Reason and direction of each feature, the arguments of maybe_emit.
Reason ==
  [bid_ask_spread       |-> "spread_widening",
   top_n_bid_depth      |-> "bid_depth_collapse",
   top_n_ask_depth      |-> "ask_depth_collapse",
   order_book_imbalance |-> "imbalance_spike",
   message_rate         |-> "message_rate_burst",
   cancel_add_ratio     |-> "cancel_add_ratio_spike",
   mid_price_volatility |-> "mid_volatility_spike"]

Feature == DOMAIN Reason

Direction(feature) ==
  IF feature \in {"top_n_bid_depth", "top_n_ask_depth"} THEN "Negative" ELSE "Positive"

MonitorInit ==
  /\ ExtractorInit
  /\ states = [f \in Feature |-> << >>]
  /\ anomalies = << >>

Absolute(ratio) == <<IF ratio[1] < 0 THEN -ratio[1] ELSE ratio[1], ratio[2]>>

\* Mutant of DepthSample: depth is scored for one-sided books too.
DepthSample_Always(book, depth_units) == <<<<depth_units, 1>>>>

DepthSample(book, depth_units) ==
  IF book.two_sided THEN <<<<depth_units, 1>>>> ELSE << >>

\* What observe() scores of each feature: its value, or nothing.
Samples(f) ==
  [bid_ask_spread       |-> [i \in DOMAIN f.book.spread |-> <<f.book.spread[i], 1>>],
   top_n_bid_depth      |-> DepthSample(f.book, f.book.bid_depth),
   top_n_ask_depth      |-> DepthSample(f.book, f.book.ask_depth),
   order_book_imbalance |-> [i \in DOMAIN f.book.imbalance |->
                               Absolute(f.book.imbalance[i])],
   message_rate         |-> <<<<f.message_rate, 1>>>>,
   cancel_add_ratio     |-> <<f.cancel_add_ratio>>,
   mid_price_volatility |-> f.volatility]

\* The order in which it scores them.
ScoringOrder ==
  <<"bid_ask_spread", "top_n_bid_depth", "top_n_ask_depth", "order_book_imbalance",
    "message_rate", "cancel_add_ratio", "mid_price_volatility">>

\* Mutant of Passes: no warm-up.
Passes_Cold(feature, value) ==
  CASE Direction(feature) = "Positive" -> Score(states[feature], value) = "high"
    [] Direction(feature) = "Negative" -> Score(states[feature], value) = "low"

\* detector_.score() has a z-score, from the samples before this one, and it
\* is past the threshold in the feature's direction.
Passes(feature, value) ==
  /\ Len(states[feature]) >= min_samples
  /\ CASE Direction(feature) = "Positive" -> Score(states[feature], value) = "high"
       [] Direction(feature) = "Negative" -> Score(states[feature], value) = "low"

Anomaly(event, feature, value) ==
  [timestamp |-> event.timestamp, order_id |-> event.order_id,
   feature |-> feature, reason |-> Reason[feature], value |-> value]

\* The calls of maybe_emit, one feature after another: what is there and
\* passes adds an anomaly.
Emitted(event, samples) ==
  LET emitted[k \in 0 .. Len(ScoringOrder)] ==
        IF k = 0 THEN << >>
        ELSE LET feature == ScoringOrder[k]
             IN  IF samples[feature] # << >> /\ Passes(feature, samples[feature][1])
                 THEN Append(emitted[k - 1], Anomaly(event, feature, samples[feature][1]))
                 ELSE emitted[k - 1]
  IN  emitted[Len(ScoringOrder)]

observe(event) ==
  /\ extract(event)
  /\ LET samples == Samples(features'[1])
     IN  /\ states' = [f \in Feature |-> states[f] \o samples[f]]
         /\ anomalies' = Emitted(event, samples)

MonitorReset ==
  /\ reset
  /\ states' = [f \in Feature |-> << >>]
  /\ anomalies' = << >>

-----------------------------------------------------------------------------
(* Properties *)

\* The samples the statistics of a book feature are made of are those of the
\* books right after each observed event, computed from the recorded orders
\* alone, and only of books with both sides: no stale book, no depth of a
\* one-sided book, no level beyond the best TopN, nothing from before a reset.
SamplesMatchBooks ==
  LET two  == TwoSidedOnes(observed)
      Of(value(_)) == [i \in DOMAIN two |-> <<value(two[i].orders), 1>>]
  IN  /\ states["bid_ask_spread"] =
           Of(LAMBDA orders : BestIn(orders, "Sell") - BestIn(orders, "Buy"))
      /\ states["top_n_bid_depth"] = Of(LAMBDA orders : UnitsIn(orders, "Buy") % Word)
      /\ states["top_n_ask_depth"] = Of(LAMBDA orders : UnitsIn(orders, "Sell") % Word)
      /\ Len(states["message_rate"]) = Len(observed)

\* An anomaly is reported only for a feature that had min_samples samples
\* before the event, is about the sample that event gave it, and names the
\* event; a depth collapse is never reported for more depth than before.
AnomaliesJustified ==
  observed # << >> => \A i \in DOMAIN anomalies :
    LET a == anomalies[i]
        before == Front(states[a.feature])
    IN  /\ Len(before) >= min_samples
        /\ a.value = Last(states[a.feature])
        /\ a.timestamp = Now /\ a.order_id = Last(observed).event.order_id
        /\ Score(before, a.value) = (IF a.reason \in {"bid_depth_collapse", "ask_depth_collapse"}
                                     THEN "low" ELSE "high")
        /\ \A j \in DOMAIN anomalies : anomalies[j].feature = a.feature => i = j
=============================================================================
