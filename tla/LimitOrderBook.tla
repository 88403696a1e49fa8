--------------------------- MODULE LimitOrderBook ---------------------------
(***************************************************************************)
(* The baseline book of book/limit_order_book.{hpp,cpp}: per side an       *)
(* ordered map from price to a level with a list of orders and a running   *)
(* total, and a hash index from order identifier to the order's record.    *)
(* Every fact about an order is stored twice, in its list entry and in its *)
(* record, and every level total is maintained incrementally: the module   *)
(* is about these copies never drifting apart.                             *)
(*                                                                         *)
(* A std::list entry never moves and never changes its order_id, so an     *)
(* OrderIterator is the order_id of the entry it points at, within the     *)
(* level its record names.                                                 *)
(***************************************************************************)
EXTENDS MarketTypes

VARIABLES
  levels,          \* levels["Buy"] is bid_levels_, levels["Sell"] ask_levels_
  order_lookup,    \* order_lookup_
  events_applied,  \* stats_.events_applied
  result           \* what the last modifying call returned

vars == <<levels, order_lookup, events_applied, result>>

PriceLevel == [total_quantity : Quantity, orders : Seq(OrderEntry)]

OrderRecord == [side : Side, price : Price, timestamp : Timestamp,
                quantity : Quantity, iterator : OrderId]

\* A default-constructed PriceLevel, as operator[] of the level map makes it.
EmptyLevel == [total_quantity |-> 0, orders |-> << >>]

NoEntries == [x \in {} |-> x]

Init ==
  /\ levels = [s \in Side |-> NoEntries]
  /\ order_lookup = NoEntries
  /\ events_applied = 0
  /\ result = "none"

-----------------------------------------------------------------------------
(* Modifying operations *)

Reject(res) == result' = res /\ UNCHANGED <<levels, order_lookup, events_applied>>

Applied == result' = "Applied" /\ events_applied' = Plus(events_applied, 1)

\* The level operator[] reaches: the existing one or a fresh empty one.
LevelAt(side, price) ==
  IF price \in DOMAIN levels[side] THEN levels[side][price] ELSE EmptyLevel

\* Mutant of PushBack: the newcomer jumps the queue.
PushBack_Front(level, entry) ==
  [total_quantity |-> Plus(level.total_quantity, entry.quantity),
   orders         |-> <<entry>> \o level.orders]

PushBack(level, entry) ==
  [total_quantity |-> Plus(level.total_quantity, entry.quantity),
   orders         |-> Append(level.orders, entry)]

\* Queue the order at the back of its level and index it.
InsertOrder(order_id, side, price, quantity, timestamp) ==
  /\ levels' = [levels EXCEPT ![side] = Put(@, price,
                  PushBack(LevelAt(side, price),
                           [order_id  |-> order_id,
                            timestamp |-> timestamp,
                            quantity  |-> quantity]))]
  /\ order_lookup' = Put(order_lookup, order_id,
                         [side      |-> side,      price    |-> price,
                          timestamp |-> timestamp, quantity |-> quantity,
                          iterator  |-> order_id])

add_order(order_id, side, price, quantity, timestamp) ==
  \/ quantity = 0 /\ Reject("InvalidQuantity")
  \/ /\ quantity # 0
     /\ order_id \in DOMAIN order_lookup
     /\ Reject("DuplicateOrderId")
  \/ /\ quantity # 0
     /\ order_id \notin DOMAIN order_lookup
     /\ InsertOrder(order_id, side, price, quantity, timestamp)
     /\ Applied

\* Mutant of EraseFrom: the level total keeps the units of the order removed.
EraseFrom_KeepTotal(side_levels, record) ==
  LET level  == side_levels[record.price]
      orders == RemoveAt(level.orders, PositionOf(level.orders, record.iterator))
  IN  IF orders = << >>
      THEN Drop(side_levels, record.price)
      ELSE Put(side_levels, record.price,
               [total_quantity |-> level.total_quantity, orders |-> orders])

\* level minus the order of record; an emptied level leaves the map.
EraseFrom(side_levels, record) ==
  LET level  == side_levels[record.price]
      orders == RemoveAt(level.orders, PositionOf(level.orders, record.iterator))
  IN  IF orders = << >>
      THEN Drop(side_levels, record.price)
      ELSE Put(side_levels, record.price,
               [total_quantity |-> Minus(level.total_quantity, record.quantity),
                orders         |-> orders])

remove_existing_order(order_id) ==
  LET record == order_lookup[order_id]
  IN  /\ levels' = [levels EXCEPT ![record.side] = EraseFrom(@, record)]
      /\ order_lookup' = Drop(order_lookup, order_id)

cancel_order(order_id) ==
  \/ order_id \notin DOMAIN order_lookup /\ Reject("MissingOrderId")
  \/ /\ order_id \in DOMAIN order_lookup
     /\ remove_existing_order(order_id)
     /\ Applied

\* Mutant of ReduceTo: the entry the iterator points at is not updated.
ReduceTo_RecordOnly(order_id, units, new_quantity) ==
  LET record == order_lookup[order_id]
  IN  /\ levels' = [levels EXCEPT ![record.side][record.price].total_quantity =
                      Minus(@, units)]
      /\ order_lookup' = [order_lookup EXCEPT ![order_id].quantity = new_quantity]

\* Mutant of ReduceTo: the order is erased and pushed back with its new size.
ReduceTo_Requeue(order_id, units, new_quantity) ==
  LET record == order_lookup[order_id]
      level  == levels[record.side][record.price]
      pos    == PositionOf(level.orders, record.iterator)
  IN  /\ levels' = [levels EXCEPT ![record.side][record.price] =
                     [total_quantity |-> Minus(level.total_quantity, units),
                      orders |-> Append(RemoveAt(level.orders, pos),
                        [level.orders[pos] EXCEPT !.quantity = new_quantity])]]
      /\ order_lookup' = [order_lookup EXCEPT ![order_id].quantity = new_quantity]

\* Take units off the level total and set the order's quantity in its record
\* and in the entry its iterator points at.
ReduceTo(order_id, units, new_quantity) ==
  LET record == order_lookup[order_id]
      level  == levels[record.side][record.price]
  IN  /\ levels' = [levels EXCEPT ![record.side][record.price] =
                     [total_quantity |-> Minus(level.total_quantity, units),
                      orders |-> [level.orders EXCEPT
                        ![PositionOf(level.orders, record.iterator)].quantity =
                           new_quantity]]]
      /\ order_lookup' = [order_lookup EXCEPT ![order_id].quantity = new_quantity]

\* Mutant of modify_order: an increase is not refused.
modify_order_AnySize(order_id, new_quantity) ==
  \/ new_quantity = 0 /\ Reject("InvalidQuantity")
  \/ /\ new_quantity # 0
     /\ order_id \notin DOMAIN order_lookup
     /\ Reject("MissingOrderId")
  \/ /\ new_quantity # 0
     /\ order_id \in DOMAIN order_lookup
     /\ ReduceTo(order_id, order_lookup[order_id].quantity - new_quantity, new_quantity)
     /\ Applied

modify_order(order_id, new_quantity) ==
  \/ new_quantity = 0 /\ Reject("InvalidQuantity")
  \/ /\ new_quantity # 0
     /\ order_id \notin DOMAIN order_lookup
     /\ Reject("MissingOrderId")
  \/ /\ new_quantity # 0
     /\ order_id \in DOMAIN order_lookup
     /\ LET open == order_lookup[order_id].quantity
        IN  \/ new_quantity > open /\ Reject("UnsupportedModify")
            \/ new_quantity = open /\ Applied /\ UNCHANGED <<levels, order_lookup>>
            \/ /\ new_quantity < open
               /\ ReduceTo(order_id, open - new_quantity, new_quantity)
               /\ Applied

\* Mutant of execute_order: an execution may exceed the open quantity.
execute_order_Overfill(order_id, executed_quantity) ==
  \/ executed_quantity = 0 /\ Reject("InvalidQuantity")
  \/ /\ executed_quantity # 0
     /\ order_id \notin DOMAIN order_lookup
     /\ Reject("MissingOrderId")
  \/ /\ executed_quantity # 0
     /\ order_id \in DOMAIN order_lookup
     /\ LET open == order_lookup[order_id].quantity
        IN  \/ /\ executed_quantity = open
               /\ remove_existing_order(order_id)
               /\ Applied
            \/ /\ executed_quantity # open
               /\ ReduceTo(order_id, executed_quantity, open - executed_quantity)
               /\ Applied

execute_order(order_id, executed_quantity) ==
  \/ executed_quantity = 0 /\ Reject("InvalidQuantity")
  \/ /\ executed_quantity # 0
     /\ order_id \notin DOMAIN order_lookup
     /\ Reject("MissingOrderId")
  \/ /\ executed_quantity # 0
     /\ order_id \in DOMAIN order_lookup
     /\ LET open == order_lookup[order_id].quantity
        IN  \/ executed_quantity > open /\ Reject("InsufficientQuantity")
            \/ /\ executed_quantity = open
               /\ remove_existing_order(order_id)
               /\ Applied
            \/ /\ executed_quantity < open
               /\ ReduceTo(order_id, executed_quantity, open - executed_quantity)
               /\ Applied

\* The dispatch of a MarketEvent.  An event's price is used by Add only.
apply(event) ==
  \/ /\ event.type = "Add"
     /\ add_order(event.order_id, event.side, event.price, event.quantity,
                  event.timestamp)
  \/ event.type = "Modify"  /\ modify_order(event.order_id, event.quantity)
  \/ event.type = "Cancel"  /\ cancel_order(event.order_id)
  \/ event.type = "Execute" /\ execute_order(event.order_id, event.quantity)

\* clear() returns nothing: the last result stands.
clear ==
  /\ levels' = [s \in Side |-> NoEntries]
  /\ order_lookup' = NoEntries
  /\ events_applied' = 0
  /\ UNCHANGED result

Next ==
  \/ \E order_id \in OrderId, side \in Side, price \in Price,
        quantity \in Quantity, timestamp \in Timestamp :
        add_order(order_id, side, price, quantity, timestamp)
  \/ \E order_id \in OrderId : cancel_order(order_id)
  \/ \E order_id \in OrderId, quantity \in Quantity :
        modify_order(order_id, quantity) \/ execute_order(order_id, quantity)
  \/ clear

Spec == Init /\ [][Next]_vars

-----------------------------------------------------------------------------
(* Queries *)

\* Mutant of PricesOf: both maps sorted by std::less.
PricesOf_Ascending(side) == BestFirst("Sell", DOMAIN levels[side])

\* The prices of a side in the iteration order of its map, best first.
PricesOf(side) == BestFirst(side, DOMAIN levels[side])

make_price_level_view(price, level) ==
  [price |-> price, quantity |-> level.total_quantity,
   order_count |-> Len(level.orders)]

\* The first n levels of a side.
SideDepth(side, n) ==
  LET prices == PricesOf(side)
  IN  [i \in 1 .. (IF n < Len(prices) THEN n ELSE Len(prices)) |->
         make_price_level_view(prices[i], levels[side][prices[i]])]

depth(n) == [s \in Side |-> SideDepth(s, n)]

\* An absent std::optional is the empty sequence.
top_of_book ==
  [s \in Side |->
     IF DOMAIN levels[s] = {} THEN << >>
     ELSE LET best == PricesOf(s)[1]
          IN  <<make_price_level_view(best, levels[s][best])>>]

SideSnapshot(side) ==
  LET prices == PricesOf(side)
  IN  [i \in 1 .. Len(prices) |->
         [price    |-> prices[i],
          quantity |-> levels[side][prices[i]].total_quantity,
          orders   |-> levels[side][prices[i]].orders]]

snapshot == [s \in Side |-> SideSnapshot(s)]

\* A snapshot's levels without their orders.
LevelsOf(snaps) ==
  [i \in DOMAIN snaps |-> [price |-> snaps[i].price, quantity |-> snaps[i].quantity,
                           order_count |-> Len(snaps[i].orders)]]

order_ids_at_price(side, price) ==
  IF price \in DOMAIN levels[side] THEN IdsOf(levels[side][price].orders)
                                   ELSE << >>

Crossed ==
  /\ DOMAIN levels["Buy"] # {} /\ DOMAIN levels["Sell"] # {}
  /\ PricesOf("Buy")[1] > PricesOf("Sell")[1]

\* Each entry of a level agrees with the record its order_id leads to.
EntryAgrees(side, price, entry) ==
  /\ entry.quantity # 0
  /\ entry.order_id \in DOMAIN order_lookup
  /\ LET record == order_lookup[entry.order_id]
     IN  /\ record.side = side
         /\ record.price = price
         /\ record.quantity = entry.quantity
         /\ record.timestamp = entry.timestamp
         /\ record.iterator = entry.order_id

\* No level is empty and no entry is without its matching record.
LevelsAgree ==
  \A s \in Side : \A p \in DOMAIN levels[s] :
    /\ levels[s][p].orders # << >>
    /\ \A i \in DOMAIN levels[s][p].orders :
         EntryAgrees(s, p, levels[s][p].orders[i])

\* seen_order_ids: no identifier is met twice on the way through both sides.
IdsUnique ==
  \A s, t \in Side : \A p \in DOMAIN levels[s], q \in DOMAIN levels[t] :
    \A i \in DOMAIN levels[s][p].orders, j \in DOMAIN levels[t][q].orders :
      levels[s][p].orders[i].order_id = levels[t][q].orders[j].order_id
        => s = t /\ p = q /\ i = j

\* Every record was met and names a level that exists.
IndexComplete ==
  \A id \in DOMAIN order_lookup :
    /\ order_lookup[id].price \in DOMAIN levels[order_lookup[id].side]
    /\ \E s \in Side : \E p \in DOMAIN levels[s] :
         \E i \in DOMAIN levels[s][p].orders : levels[s][p].orders[i].order_id = id

TotalsAgree ==
  \A s \in Side : \A p \in DOMAIN levels[s] :
    WordSum(levels[s][p].orders) = levels[s][p].total_quantity

validate_invariants(allow_crossed_book) ==
  /\ allow_crossed_book \/ ~Crossed
  /\ \A s \in Side : (DOMAIN levels[s] = {}) = (top_of_book[s] = << >>)
  /\ LevelsAgree
  /\ IdsUnique
  /\ IndexComplete
  /\ TotalsAgree

-----------------------------------------------------------------------------
(* Properties *)

\* Every container holds values of the C++ types; iterators in order_lookup_
\* name an order and no level map has a key outside Price.
TypeOK ==
  /\ DOMAIN levels = Side
  /\ \A s \in Side : IsMap(levels[s], Price, PriceLevel)
  /\ IsMap(order_lookup, OrderId, OrderRecord)
  /\ events_applied \in 0 .. (Word - 1)
  /\ result \in Returned

\* validate_invariants() accepts every state the operations can reach, as the
\* replay engine relies on after each event; crossing is up to the feed.
BookValid == validate_invariants(TRUE)

\* The two copies of an order never drift apart: after any sequence of calls
\* each list entry has exactly one record that agrees with it and points back
\* at it, each record has its entry, and an emptied level is gone.
IndexConsistent == LevelsAgree /\ IdsUnique /\ IndexComplete

\* What top_of_book() and depth() show, read off the maps' iteration order and
\* the levels' running totals, is what the index alone says: level i of a side
\* is the live price with exactly i - 1 better live prices, with the number of
\* orders recorded there and the sum of their recorded quantities; snapshot()
\* shows the same levels.
ViewsMatchIndex ==
  \A s \in Side, n \in 0 .. Cardinality(Price) + 1 :
    LET At(p) == {id \in DOMAIN order_lookup :
                    order_lookup[id].side = s /\ order_lookup[id].price = p}
        Live == {p \in Price : At(p) # {}}
        Rank(p) == Cardinality({q \in Live : Better(s, q, p)}) + 1
        view == depth(n)[s]
    IN  /\ {view[i].price : i \in DOMAIN view} = {p \in Live : Rank(p) <= n}
        /\ \A i \in DOMAIN view :
             /\ Rank(view[i].price) = i
             /\ view[i].order_count = Cardinality(At(view[i].price))
             /\ view[i].quantity = UnitsOnRecord(order_lookup, At(view[i].price))
        /\ n = 1 => view = top_of_book[s]
        /\ n > Cardinality(Price) => view = LevelsOf(snapshot[s])

\* Whoever stands in a queue ahead of an order that was there before stood
\* ahead of it before, and there is at most one newcomer.
KeepsTurns(before, after) ==
  /\ \A j \in DOMAIN after, l \in DOMAIN before :
       after[j] = before[l] =>
         \A i \in 1 .. (j - 1) : \E k \in 1 .. (l - 1) : before[k] = after[i]
  /\ \A i, j \in DOMAIN after :
       {after[i], after[j]} \cap Range(before) = {} => i = j

\* Price-time priority: add_order only appends, cancel_order and a completed
\* execute_order only take one order out, and a size reduction moves nobody.
\* What is left of a level's queue keeps its order and a newcomer stands last.
TimePriority ==
  [][\A s \in Side, p \in Price :
       KeepsTurns(order_ids_at_price(s, p), order_ids_at_price(s, p)')]_vars

\* An order that stays live keeps all but its quantity, which does not grow,
\* and at most one order's quantity changes.
ShrinksOne ==
  LET stayed == DOMAIN order_lookup \cap DOMAIN order_lookup'
  IN  /\ \A id \in stayed :
           /\ order_lookup'[id].quantity <= order_lookup[id].quantity
           /\ [order_lookup'[id] EXCEPT !.quantity = 0] =
              [order_lookup[id] EXCEPT !.quantity = 0]
      /\ Cardinality({id \in stayed :
           order_lookup'[id].quantity # order_lookup[id].quantity}) <= 1

\* While an order stays live no operation moves it to another side or price,
\* restamps it or gives it more units: modify_order refuses an increase and
\* execute_order only fills.  Only one order's units change in one call.
OrdersOnlyShrink == [][ShrinksOne]_vars

\* The book the callers see is the price-time book: hash index, level totals
\* and level erasure are invisible.  Its capacity is never the limit here.
Abstract == INSTANCE PriceTimeBook WITH
  queue <- [s \in Side |-> [p \in Price |-> LevelAt(s, p).orders]],
  MaxLiveOrders <- Cardinality(OrderId)

\* add_order, cancel_order, modify_order, execute_order and clear implement
\* the operations of PriceTimeBook, result codes and operation count included.
ImplementsPriceTimeBook == Abstract!Spec

\* The aggregate a level reports is the number of units resting there.  Level
\* totals are unsigned words, so this fails once the true sum needs more bits.
AggregateIsExact ==
  \A s \in Side : \A p \in DOMAIN levels[s] :
    levels[s][p].total_quantity =
      FoldLeft(LAMBDA sum, e : sum + e.quantity, 0, levels[s][p].orders)
=============================================================================
