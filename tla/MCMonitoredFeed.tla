--------------------------- MODULE MCMonitoredFeed ---------------------------
(* Instantiates MonitoredFeed for TLC. *)
EXTENDS MonitoredFeed

\* 1 - (-2) does not fit a signed number with TimeMax = 2.
Times  == {-2, 0, 1}
Widths == [message |-> 1, cancel_ratio |-> 0, mid |-> 2]

\* Bids at three prices and asks at two: one bid level is beyond the best two.
Orders == [id \in 1 .. 5 |-> [side     |-> IF id <= 3 THEN "Buy" ELSE "Sell",
                              price    |-> IF id <= 3 THEN 4 - id ELSE id - 1,
                              quantity |-> IF id \in {3, 5} THEN 1 ELSE 2]]

Events ==
  {e \in FeedEvent :
     LET order == Orders[e.order_id]
     IN  CASE e.type = "Add"     -> /\ e.side = order.side /\ e.price = order.price
                                    /\ e.quantity = order.quantity
           [] e.type = "Cancel"  -> e.order_id \in {1, 4}
           [] e.type = "Execute" -> e.order_id \in {1, 4} /\ e.quantity = 1
           [] e.type = "Modify"  -> e.order_id = 2 /\ e.quantity = 1}

\* A value scores past the threshold when it leaves the range of the samples.
Less(a, b) == a[1] * b[2] < b[1] * a[2]
OutOfRange(samples, value) ==
  IF \A i \in DOMAIN samples : Less(samples[i], value) THEN "high"
  ELSE IF \A i \in DOMAIN samples : Less(value, samples[i]) THEN "low"
  ELSE "mid"
=============================================================================
