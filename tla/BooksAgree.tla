----------------------------- MODULE BooksAgree -----------------------------
(***************************************************************************)
(* The two books given the same events, as the pooled book's tests and the *)
(* paired benchmarks do: the pooled book is a faster replacement of the    *)
(* baseline one as long as its pool is large enough.                       *)
(***************************************************************************)
EXTENDS MarketTypes

CONSTANTS MaxLiveOrders, NoId

VARIABLES
  b_levels, b_lookup, b_applied, b_result,                          \* baseline
  p_nodes, p_free, p_levels, p_lookup, p_applied, p_result,         \* pooled
  stage      \* "cleared", "fed" or, once the pool was exhausted, "refused"

baselineVars == <<b_levels, b_lookup, b_applied, b_result>>
pooledVars   == <<p_nodes, p_free, p_levels, p_lookup, p_applied, p_result>>
agreeVars    == <<baselineVars, pooledVars, stage>>

Baseline == INSTANCE LimitOrderBook WITH
  levels <- b_levels, order_lookup <- b_lookup, events_applied <- b_applied,
  result <- b_result

Pooled == INSTANCE PooledLimitOrderBook WITH
  nodes <- p_nodes, free_indices <- p_free, levels <- p_levels,
  order_lookup <- p_lookup, events_applied <- p_applied, result <- p_result

AgreeInit == Baseline!Init /\ Pooled!Init /\ stage = "cleared"

\* Once the pool has refused an order the books hold different orders, and
\* they are not compared again before both have been cleared.
ApplyBoth(event) ==
  /\ stage # "refused"
  /\ Baseline!apply(event)
  /\ Pooled!apply(event)
  /\ stage' = IF p_result' = "CapacityExceeded" THEN "refused" ELSE "fed"

ClearBoth == Baseline!clear /\ Pooled!clear /\ stage' = "cleared"

AgreeNext == (\E event \in FeedEvent : ApplyBoth(event)) \/ ClearBoth

AgreeSpec == AgreeInit /\ [][AgreeNext]_agreeVars

-----------------------------------------------------------------------------
\* Until the pool refuses an order no caller can tell the books apart: same
\* result for every event, same queues, views, counts and verdict on crossing;
\* and the pool refuses its first order exactly when that order is one more
\* than MaxLiveOrders in the baseline book.
Indistinguishable ==
  IF stage = "refused"
  THEN b_result = "Applied" /\ Cardinality(DOMAIN b_lookup) = MaxLiveOrders + 1
  ELSE /\ stage = "fed" => b_result = p_result
       /\ b_applied = p_applied
       /\ DOMAIN b_lookup = DOMAIN p_lookup
       /\ Cardinality(DOMAIN b_lookup) <= MaxLiveOrders
       /\ Baseline!snapshot = Pooled!snapshot
       /\ Baseline!top_of_book = Pooled!top_of_book
       /\ \A n \in 0 .. Cardinality(Price) : Baseline!depth(n) = Pooled!depth(n)
       /\ \A s \in Side, p \in Price :
            Baseline!order_ids_at_price(s, p) = Pooled!order_ids_at_price(s, p)
       /\ \A crossed \in BOOLEAN :
            Baseline!validate_invariants(crossed) = Pooled!validate_invariants(crossed)
=============================================================================
