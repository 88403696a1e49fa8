--------------------------- MODULE PriceTimeBook ---------------------------
(***************************************************************************)
(* What an order book promises its callers, with no index, no level        *)
(* aggregate and no node pool: one first-in first-out queue of resting     *)
(* orders per side and price, the last BookResult returned and the number  *)
(* of operations applied since the last clear().  LimitOrderBook and       *)
(* PooledLimitOrderBook are shown to implement it.                         *)
(***************************************************************************)
EXTENDS MarketTypes

CONSTANT MaxLiveOrders   \* how many orders may rest at the same time

VARIABLES queue, events_applied, result

vars == <<queue, events_applied, result>>

Init ==
  /\ queue = [s \in Side |-> [p \in Price |-> << >>]]
  /\ events_applied = 0
  /\ result = "none"

\* The order identifiers resting anywhere in the book.
LiveIds == UNION {Range(IdsOf(queue[s][p])) : s \in Side, p \in Price}

Full == Cardinality(LiveIds) >= MaxLiveOrders

Reject(res) == result' = res /\ UNCHANGED <<queue, events_applied>>

Applied == result' = "Applied" /\ events_applied' = Plus(events_applied, 1)

\* A new order queues behind every order of its side and price.
Add(id, side, price, quantity, timestamp) ==
  \/ Reject("InvalidQuantity")  /\ quantity = 0
  \/ Reject("DuplicateOrderId") /\ quantity # 0 /\ id \in LiveIds
  \/ Reject("CapacityExceeded") /\ quantity # 0 /\ id \notin LiveIds /\ Full
  \/ /\ Applied
     /\ quantity # 0 /\ id \notin LiveIds /\ ~Full
     /\ queue' = [queue EXCEPT ![side][price] =
                    Append(@, [order_id  |-> id, timestamp |-> timestamp,
                               quantity  |-> quantity])]

\* The order at position i leaves the book.
Leave(side, price, i) ==
  queue' = [queue EXCEPT ![side][price] = RemoveAt(@, i)]

\* The order at position i keeps its place with the quantity q.
Resize(side, price, i, q) ==
  queue' = [queue EXCEPT ![side][price][i].quantity = q]

\* Some place of the book holds the order id and its open quantity there
\* lets op happen.
AtOrder(id, op(_, _, _, _)) ==
  \E s \in Side, p \in Price :
    LET orders == queue[s][p]
    IN  \E i \in DOMAIN orders :
          orders[i].order_id = id /\ op(s, p, i, orders[i].quantity)

Cancel(id) ==
  \/ Reject("MissingOrderId") /\ id \notin LiveIds
  \/ Applied /\ AtOrder(id, LAMBDA s, p, i, open : Leave(s, p, i))

Modify(id, new_quantity) ==
  \/ Reject("InvalidQuantity") /\ new_quantity = 0
  \/ Reject("MissingOrderId") /\ new_quantity # 0 /\ id \notin LiveIds
  \/ /\ Reject("UnsupportedModify")
     /\ AtOrder(id, LAMBDA s, p, i, open : new_quantity > open)
  \/ /\ Applied /\ new_quantity # 0
     /\ AtOrder(id, LAMBDA s, p, i, open :
          new_quantity <= open /\ Resize(s, p, i, new_quantity))

Execute(id, executed) ==
  \/ Reject("InvalidQuantity") /\ executed = 0
  \/ Reject("MissingOrderId") /\ executed # 0 /\ id \notin LiveIds
  \/ /\ Reject("InsufficientQuantity")
     /\ AtOrder(id, LAMBDA s, p, i, open : executed > open)
  \/ /\ Applied /\ executed # 0
     /\ AtOrder(id, LAMBDA s, p, i, open :
          \/ executed = open /\ Leave(s, p, i)
          \/ executed < open /\ Resize(s, p, i, open - executed))

Clear ==
  /\ queue' = [s \in Side |-> [p \in Price |-> << >>]]
  /\ events_applied' = 0
  /\ UNCHANGED result

Next ==
  \/ \E id \in OrderId, s \in Side, p \in Price, q \in Quantity,
        t \in Timestamp : Add(id, s, p, q, t)
  \/ \E id \in OrderId : Cancel(id)
  \/ \E id \in OrderId, q \in Quantity : Modify(id, q) \/ Execute(id, q)
  \/ Clear

Spec == Init /\ [][Next]_vars
=============================================================================
