-------------------------- MODULE FeatureExtractor --------------------------
(***************************************************************************)
(* FeatureExtractor of anomaly/anomaly_detector.{hpp,cpp}: three windows   *)
(* of past events, expired from their front, and the features of the book  *)
(* right after an event was applied to it: extract() reads the primed book.*)
(*                                                                         *)
(* Doubles are exact here.  A mid price is kept doubled, a ratio is a pair *)
(* <<numerator, denominator>>, the message rate counts per window instead  *)
(* of per second, and volatility is kept squared: none of this changes an  *)
(* order between two values of a feature.  An absent optional is << >>.    *)
(***************************************************************************)
EXTENDS LimitOrderBook

CONSTANTS
  TopN,      \* config_.top_n_levels
  Width,     \* the three window lengths of config_
  TimeMax    \* 2^63 - 1: timestamps are std::int64_t

WindowName == {"message", "cancel_ratio", "mid"}

ASSUME ExtractorAssumption ==
  /\ TopN \in Nat /\ TimeMax \in Nat
  /\ Timestamp \subseteq -TimeMax - 1 .. TimeMax
  /\ DOMAIN Width = WindowName /\ \A w \in WindowName : Width[w] \in Int

VARIABLES
  windows,    \* message_window_, cancel_ratio_window_, mid_price_window_
  features,   \* what the last extract() since then returned, << >> before it
  observed    \* history: each event since the last reset and the index after it

extractorVars == <<windows, features, observed>>

NoWindows == [w \in WindowName |-> << >>]

ExtractorInit == windows = NoWindows /\ features = << >> /\ observed = << >>

\* What now - then > width may yield: the difference of two std::int64_t may
\* overflow, and then anything.
MayExpire(now, then, width) ==
  IF now - then \in -TimeMax - 1 .. TimeMax THEN {now - then > width} ELSE BOOLEAN

\* Mutant of Expired: an entry exactly as old as the window is long is dropped.
Expired_Early(window, now, width) ==
  {SubSeq(window, k + 1, Len(window)) :
     k \in {n \in 0 .. Len(window) :
              /\ \A i \in 1 .. n :
                   TRUE \in MayExpire(now, window[i].timestamp, width - 1)
              /\ n < Len(window) =>
                   FALSE \in MayExpire(now, window[n + 1].timestamp, width - 1)}}

\* What expiry may leave of a window: entries go as long as the front is old.
Expired(window, now, width) ==
  {SubSeq(window, k + 1, Len(window)) :
     k \in {n \in 0 .. Len(window) :
              /\ \A i \in 1 .. n :
                   TRUE \in MayExpire(now, window[i].timestamp, width)
              /\ n < Len(window) =>
                   FALSE \in MayExpire(now, window[n + 1].timestamp, width)}}

sum_depth(views) == WordSum(views)

message_rate(window) == IF Width["message"] > 0 THEN Len(window) ELSE 0

cancel_add_ratio(window) ==
  LET Count(type) == Len(SelectSeq(window, LAMBDA entry : entry.type = type))
  IN  <<Count("Cancel"), IF Count("Add") > 1 THEN Count("Add") ELSE 1>>

\* The variance of the doubled mid prices: n^2 times it is n sum m^2 - (sum m)^2.
mid_volatility(window) ==
  LET n       == Len(window)
      sum     == FoldLeft(LAMBDA acc, entry : acc + entry.mid, 0, window)
      squares == FoldLeft(LAMBDA acc, entry : acc + entry.mid * entry.mid, 0, window)
  IN  IF n < 2 THEN << >> ELSE <<<<n * squares - sum * sum, 4 * n * n>>>>

\* Mutant of Imbalance: the difference is taken before the conversion to double.
Imbalance_Unsigned(bid, ask) ==
  IF Plus(bid, ask) > 0 THEN <<<<Minus(bid, ask), Plus(bid, ask)>>>> ELSE << >>

Imbalance(bid, ask) ==
  IF Plus(bid, ask) > 0 THEN <<<<bid - ask, Plus(bid, ask)>>>> ELSE << >>

\* The features that are read off the book alone.
BookFeatures(top, views) ==
  LET bid == sum_depth(views["Buy"])
      ask == sum_depth(views["Sell"])
      two_sided == top["Buy"] # << >> /\ top["Sell"] # << >>
  IN  [two_sided |-> two_sided, bid_depth |-> bid, ask_depth |-> ask,
       spread |-> IF two_sided THEN <<top["Sell"][1].price - top["Buy"][1].price>>
                               ELSE << >>,
       mid |-> IF two_sided THEN <<top["Sell"][1].price + top["Buy"][1].price>>
                            ELSE << >>,
       imbalance |-> IF two_sided THEN Imbalance(bid, ask) ELSE << >>]

extract(event) ==
  \E messages \in Expired(windows["message"], event.timestamp, Width["message"]),
     ratios \in Expired(windows["cancel_ratio"], event.timestamp, Width["cancel_ratio"]),
     mids \in Expired(windows["mid"], event.timestamp, Width["mid"]) :
    LET entry == [timestamp |-> event.timestamp, type |-> event.type]
        book  == BookFeatures(top_of_book', depth(TopN)')
    IN  /\ windows' =
             [message      |-> Append(messages, entry),
              cancel_ratio |-> Append(ratios, entry),
              mid |-> mids \o [i \in DOMAIN book.mid |->
                        [timestamp |-> event.timestamp, mid |-> book.mid[i]]]]
        /\ features' =
             <<[book             |-> book,
                message_rate     |-> message_rate(windows'["message"]),
                cancel_add_ratio |-> cancel_add_ratio(windows'["cancel_ratio"]),
                volatility       |-> IF book.two_sided
                                     THEN mid_volatility(windows'["mid"]) ELSE << >>]>>
        /\ observed' = Append(observed, [event |-> event, orders |-> order_lookup'])

reset == windows' = NoWindows /\ observed' = << >> /\ features' = << >>

-----------------------------------------------------------------------------
(* Properties *)

\* Best price, depth of the best TopN levels and true units of a side, from
\* the recorded orders alone.
PricesIn(orders, side) == {orders[id].price : id \in {i \in DOMAIN orders : orders[i].side = side}}
BestIn(orders, side) == CHOOSE p \in PricesIn(orders, side) :
                          \A q \in PricesIn(orders, side) : q = p \/ Better(side, p, q)
TrueUnits(orders, ids) == FoldSet(LAMBDA id, sum : sum + orders[id].quantity, 0, ids)
UnitsIn(orders, side) ==
  LET Near(p) == Cardinality({q \in PricesIn(orders, side) : Better(side, q, p)}) < TopN
  IN  TrueUnits(orders, {id \in DOMAIN orders : /\ orders[id].side = side
                                                /\ Near(orders[id].price)})
TwoSided(orders) == \A s \in Side : PricesIn(orders, s) # {}

\* The observations that found a book with both sides, in order.
TwoSidedOnes(history) ==
  LET kept[k \in 0 .. Len(history)] ==
        IF k = 0 THEN << >>
        ELSE IF TwoSided(history[k].orders) THEN Append(kept[k - 1], history[k])
        ELSE kept[k - 1]
  IN  kept[Len(history)]

\* The history a window is cut from: mids exist for two-sided books only.
HistoryOf(w) ==
  IF w # "mid"
  THEN [i \in DOMAIN observed |-> [timestamp |-> observed[i].event.timestamp,
                                   type |-> observed[i].event.type]]
  ELSE LET two == TwoSidedOnes(observed)
       IN  [i \in DOMAIN two |->
              [timestamp |-> two[i].event.timestamp,
               mid |-> BestIn(two[i].orders, "Buy") + BestIn(two[i].orders, "Sell")]]

Now == Last(observed).event.timestamp

\* The feed so far was in time order and no difference of timestamps overflows.
InTimeOrder ==
  \A i, j \in DOMAIN observed : i < j =>
    observed[j].event.timestamp - observed[i].event.timestamp \in 0 .. TimeMax

\* A window is always the latest part of what was observed since the last
\* reset, and for a feed in time order exactly the part that is not older than
\* the window is long: push_back and pop_front in extract() keep the windows.
\* (A window of negative length still gets the latest entry.)
WindowsExact ==
  \A w \in WindowName :
    LET history == HistoryOf(w)
    IN  \E k \in 0 .. Len(history) :
          /\ windows[w] = SubSeq(history, k + 1, Len(history))
          /\ InTimeOrder /\ Width[w] >= 0 =>
               \A i \in DOMAIN history :
                 i > k <=> Now - history[i].timestamp <= Width[w]

\* docs/anomaly-detection.md: the message rate is the accepted event count over
\* a timestamp-based rolling window, so no event older than the window counts.
\* Only the front is tested for its age: an old entry behind a younger one
\* stays and counts.
RollingWindow ==
  observed # << >> /\ Width["message"] > 0 =>
    features[1].message_rate <=
      Len(SelectSeq(observed, LAMBDA o : Now - o.event.timestamp <= Width["message"]))

\* While both depths fit a word together, the imbalance of a two-sided book is
\* there and is (bid - ask) / (bid + ask), so between -1 and 1.
ImbalanceInRange ==
  observed # << >> =>
    LET orders == Last(observed).orders
        bid == UnitsIn(orders, "Buy")
        ask == UnitsIn(orders, "Sell")
        imbalance == features[1].book.imbalance
    IN  /\ imbalance # << >> => TwoSided(orders)
        /\ TwoSided(orders) /\ TopN > 0 /\ bid + ask < Word =>
             imbalance = <<<<bid - ask, bid + ask>>>>
=============================================================================
