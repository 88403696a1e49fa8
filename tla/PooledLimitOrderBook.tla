------------------------ MODULE PooledLimitOrderBook ------------------------
(***************************************************************************)
(* The pooled book of book/pooled_limit_order_book.{hpp,cpp}: the orders   *)
(* of a level are nodes of one preallocated vector, chained through their  *)
(* prev and next indices; unused nodes are a stack of free indices.  A     *)
(* level keeps its head, its tail, an order count and a running total.     *)
(***************************************************************************)
EXTENDS MarketTypes

CONSTANTS
  MaxLiveOrders,   \* the constructor's max_live_orders
  NoId             \* order_id of a value-initialised OrderNode

\* OrderId{} is 0, which is also an identifier a feed may use.  It is kept
\* apart here so that reading the identifier of an unused node shows.
ASSUME PoolAssumption == /\ MaxLiveOrders \in Nat
                         /\ NoId \notin OrderId
                         /\ Timestamp \subseteq Int

VARIABLES
  nodes,           \* nodes_
  free_indices,    \* free_indices_, the stack's top last
  levels,          \* levels["Buy"] is bid_levels_, levels["Sell"] ask_levels_
  order_lookup,    \* order_lookup_
  events_applied,  \* stats_.events_applied
  result           \* what the last modifying call returned

vars == <<nodes, free_indices, levels, order_lookup, events_applied, result>>

Index == 0 .. (MaxLiveOrders - 1)

\* std::numeric_limits<std::size_t>::max(), which is no index of nodes_.
npos == -1

Link == Index \cup {npos}

OrderNode == [order_id : OrderId \cup {NoId}, timestamp : Timestamp \cup {0},
              quantity : Quantity, prev : Link, next : Link, active : BOOLEAN]

PriceLevel == [total_quantity : Quantity, order_count : 0 .. MaxLiveOrders,
               head : Link, tail : Link]

OrderRecord == [side : Side, price : Price, timestamp : Timestamp,
                quantity : Quantity, node_index : Index]

\* OrderNode{} and PriceLevel{}.
UnusedNode == [order_id |-> NoId, timestamp |-> 0, quantity |-> 0,
               prev |-> npos, next |-> npos, active |-> FALSE]
EmptyLevel == [total_quantity |-> 0, order_count |-> 0,
               head |-> npos, tail |-> npos]

NoEntries == [x \in {} |-> x]

\* reset_free_list(): every node unused, the lowest index on top of the stack.
UnusedNodes   == [i \in Index |-> UnusedNode]
FullFreeStack == [k \in 1 .. MaxLiveOrders |-> MaxLiveOrders - k]

Init ==
  /\ nodes = UnusedNodes
  /\ free_indices = FullFreeStack
  /\ levels = [s \in Side |-> NoEntries]
  /\ order_lookup = NoEntries
  /\ events_applied = 0
  /\ result = "none"

-----------------------------------------------------------------------------
(* The chain of a level.  Each helper maps the node vector, or the level,   *)
(* before the C++ function to the one after it.                             *)

AppendedNodes(ns, level, n) ==
  LET linked == [ns EXCEPT ![n].prev = level.tail, ![n].next = npos]
  IN  IF level.tail # npos THEN [linked EXCEPT ![level.tail].next = n]
                           ELSE linked

\* Mutant of AppendedLevel: order_count is not incremented.
AppendedLevel_NoCount(level, n) ==
  [level EXCEPT !.head = IF level.tail # npos THEN @ ELSE n, !.tail = n]

AppendedLevel(level, n) ==
  [level EXCEPT !.head = IF level.tail # npos THEN @ ELSE n,
                !.tail = n,
                !.order_count = @ + 1]

\* Mutant of UnlinkedNodes: the successor keeps its link to the node removed.
UnlinkedNodes_StalePrev(ns, n) ==
  [i \in Index |->
     [ns[i] EXCEPT !.next = IF i = ns[n].prev THEN ns[n].next ELSE @]]

UnlinkedNodes(ns, n) ==
  [i \in Index |->
     [ns[i] EXCEPT !.next = IF i = ns[n].prev THEN ns[n].next ELSE @,
                   !.prev = IF i = ns[n].next THEN ns[n].prev ELSE @]]

\* Mutant of UnlinkedLevel: the tail is not moved when the last node goes.
UnlinkedLevel_StaleTail(ns, level, n) ==
  [level EXCEPT !.head = IF ns[n].prev # npos THEN @ ELSE ns[n].next,
                !.order_count = @ - 1]

\* Mutant of UnlinkedLevel: the head is not moved when the first node goes.
UnlinkedLevel_StaleHead(ns, level, n) ==
  [level EXCEPT !.tail = IF ns[n].next # npos THEN @ ELSE ns[n].prev,
                !.order_count = @ - 1]

UnlinkedLevel(ns, level, n) ==
  [level EXCEPT !.head = IF ns[n].prev # npos THEN @ ELSE ns[n].next,
                !.tail = IF ns[n].next # npos THEN @ ELSE ns[n].prev,
                !.order_count = @ - 1]

-----------------------------------------------------------------------------
(* Modifying operations *)

Reject(res) ==
  result' = res /\ UNCHANGED <<nodes, free_indices, levels, order_lookup, events_applied>>

Applied == result' = "Applied" /\ events_applied' = Plus(events_applied, 1)

LevelAt(side, price) ==
  IF price \in DOMAIN levels[side] THEN levels[side][price] ELSE EmptyLevel

add_order(order_id, side, price, quantity, timestamp) ==
  \/ quantity = 0 /\ Reject("InvalidQuantity")
  \/ /\ quantity # 0
     /\ order_id \in DOMAIN order_lookup
     /\ Reject("DuplicateOrderId")
  \/ /\ quantity # 0
     /\ order_id \notin DOMAIN order_lookup
     /\ free_indices = << >>                        \* allocate_node() fails
     /\ Reject("CapacityExceeded")
  \/ /\ quantity # 0
     /\ order_id \notin DOMAIN order_lookup
     /\ free_indices # << >>
     /\ LET n      == Last(free_indices)
            level  == LevelAt(side, price)
            filled == [nodes EXCEPT ![n] =
                         [@ EXCEPT !.order_id = order_id, !.timestamp = timestamp,
                                   !.quantity = quantity, !.active = TRUE]]
        IN  /\ free_indices' = Front(free_indices)
            /\ nodes' = AppendedNodes(filled, level, n)
            /\ levels' = [levels EXCEPT ![side] = Put(@, price,
                            [AppendedLevel(level, n) EXCEPT
                               !.total_quantity = Plus(@, quantity)])]
            /\ order_lookup' = Put(order_lookup, order_id,
                 [side |-> side, price |-> price, timestamp |-> timestamp,
                  quantity |-> quantity, node_index |-> n])
     /\ Applied

\* Mutant of remove_existing_order: the level is erased when its total, which
\* may wrap around to zero, is zero.
remove_existing_order_ByTotal(order_id) ==
  LET record == order_lookup[order_id]
      n      == record.node_index
      level  == [UnlinkedLevel(nodes, levels[record.side][record.price], n) EXCEPT
                   !.total_quantity = Minus(@, record.quantity)]
  IN  /\ nodes' = [UnlinkedNodes(nodes, n) EXCEPT ![n] = UnusedNode]
      /\ free_indices' = Append(free_indices, n)
      /\ levels' = [levels EXCEPT ![record.side] =
                      IF level.total_quantity = 0
                      THEN Drop(@, record.price)
                      ELSE Put(@, record.price, level)]
      /\ order_lookup' = Drop(order_lookup, order_id)

\* Unlink the order's node, reset it and push its index on the free stack;
\* a level whose count drops to zero leaves the map.
remove_existing_order(order_id) ==
  LET record == order_lookup[order_id]
      n      == record.node_index
      level  == [UnlinkedLevel(nodes, levels[record.side][record.price], n) EXCEPT
                   !.total_quantity = Minus(@, record.quantity)]
  IN  /\ nodes' = [UnlinkedNodes(nodes, n) EXCEPT ![n] = UnusedNode]
      /\ free_indices' = Append(free_indices, n)
      /\ levels' = [levels EXCEPT ![record.side] =
                      IF level.order_count = 0
                      THEN Drop(@, record.price)
                      ELSE Put(@, record.price, level)]
      /\ order_lookup' = Drop(order_lookup, order_id)

cancel_order(order_id) ==
  \/ order_id \notin DOMAIN order_lookup /\ Reject("MissingOrderId")
  \/ /\ order_id \in DOMAIN order_lookup
     /\ remove_existing_order(order_id)
     /\ Applied

\* Take units off the level total and set the order's quantity in its record
\* and in its node.
ReduceTo(order_id, units, new_quantity) ==
  LET record == order_lookup[order_id]
  IN  /\ levels' = [levels EXCEPT ![record.side][record.price].total_quantity =
                      Minus(@, units)]
      /\ order_lookup' = [order_lookup EXCEPT ![order_id].quantity = new_quantity]
      /\ nodes' = [nodes EXCEPT ![record.node_index].quantity = new_quantity]
      /\ UNCHANGED free_indices

modify_order(order_id, new_quantity) ==
  \/ new_quantity = 0 /\ Reject("InvalidQuantity")
  \/ /\ new_quantity # 0
     /\ order_id \notin DOMAIN order_lookup
     /\ Reject("MissingOrderId")
  \/ /\ new_quantity # 0
     /\ order_id \in DOMAIN order_lookup
     /\ LET open == order_lookup[order_id].quantity
        IN  \/ new_quantity > open /\ Reject("UnsupportedModify")
            \/ /\ new_quantity = open
               /\ UNCHANGED <<nodes, free_indices, levels, order_lookup>>
               /\ Applied
            \/ /\ new_quantity < open
               /\ ReduceTo(order_id, open - new_quantity, new_quantity)
               /\ Applied

execute_order(order_id, executed_quantity) ==
  \/ executed_quantity = 0 /\ Reject("InvalidQuantity")
  \/ /\ executed_quantity # 0
     /\ order_id \notin DOMAIN order_lookup
     /\ Reject("MissingOrderId")
  \/ /\ executed_quantity # 0
     /\ order_id \in DOMAIN order_lookup
     /\ LET open == order_lookup[order_id].quantity
        IN  \/ executed_quantity > open /\ Reject("InsufficientQuantity")
            \/ /\ executed_quantity = open
               /\ remove_existing_order(order_id)
               /\ Applied
            \/ /\ executed_quantity < open
               /\ ReduceTo(order_id, executed_quantity, open - executed_quantity)
               /\ Applied

\* The dispatch of a MarketEvent.  An event's price is used by Add only.
apply(event) ==
  \/ /\ event.type = "Add"
     /\ add_order(event.order_id, event.side, event.price, event.quantity,
                  event.timestamp)
  \/ event.type = "Modify"  /\ modify_order(event.order_id, event.quantity)
  \/ event.type = "Cancel"  /\ cancel_order(event.order_id)
  \/ event.type = "Execute" /\ execute_order(event.order_id, event.quantity)

\* Mutant of clear: reset_free_list() is not called.
clear_NoReset ==
  /\ levels' = [s \in Side |-> NoEntries]
  /\ order_lookup' = NoEntries
  /\ events_applied' = 0
  /\ UNCHANGED <<nodes, free_indices, result>>

clear ==
  /\ levels' = [s \in Side |-> NoEntries]
  /\ order_lookup' = NoEntries
  /\ events_applied' = 0
  /\ nodes' = UnusedNodes
  /\ free_indices' = FullFreeStack
  /\ UNCHANGED result

Next ==
  \/ \E order_id \in OrderId, side \in Side, price \in Price,
        quantity \in Quantity, timestamp \in Timestamp :
        add_order(order_id, side, price, quantity, timestamp)
  \/ \E order_id \in OrderId : cancel_order(order_id)
  \/ \E order_id \in OrderId, quantity \in Quantity :
        modify_order(order_id, quantity) \/ execute_order(order_id, quantity)
  \/ clear

Spec == Init /\ [][Next]_vars

-----------------------------------------------------------------------------
(* Queries *)

\* Where following dir ("next" or "prev") from start leads in k steps: npos
\* once the end of the list is passed.
Reached(start, dir) ==
  LET at[k \in 0 .. MaxLiveOrders] ==
        IF k = 0 THEN start
        ELSE LET prior == at[k - 1]
             IN  IF prior = npos THEN npos ELSE nodes[prior][dir]
  IN  at

\* The indices met from start by following dir up to npos.  A cycle, which
\* the C++ loops would never leave, shows as a walk of more than
\* MaxLiveOrders steps.
Walk(start, dir) ==
  LET at    == Reached(start, dir)
      steps == {k \in 0 .. MaxLiveOrders : at[k] # npos}
  IN  [k \in 1 .. Cardinality(steps) |-> at[k - 1]]

OrderView(node) == [order_id  |-> node.order_id, timestamp |-> node.timestamp,
                    quantity  |-> node.quantity]

\* The orders of a level in queue order; an absent level has none.
OrdersAt(side, price) ==
  LET walk == Walk(LevelAt(side, price).head, "next")
  IN  [k \in 1 .. Len(walk) |-> OrderView(nodes[walk[k]])]

order_ids_at_price(side, price) == IdsOf(OrdersAt(side, price))

\* The prices of a side in the iteration order of its map, best first.
PricesOf(side) == BestFirst(side, DOMAIN levels[side])

make_price_level_view(price, level) ==
  [price |-> price, quantity |-> level.total_quantity,
   order_count |-> level.order_count]

SideDepth(side, n) ==
  LET prices == PricesOf(side)
  IN  [i \in 1 .. (IF n < Len(prices) THEN n ELSE Len(prices)) |->
         make_price_level_view(prices[i], levels[side][prices[i]])]

depth(n) == [s \in Side |-> SideDepth(s, n)]

\* An absent std::optional is the empty sequence.
top_of_book ==
  [s \in Side |->
     IF DOMAIN levels[s] = {} THEN << >>
     ELSE LET best == PricesOf(s)[1]
          IN  <<make_price_level_view(best, levels[s][best])>>]

SideSnapshot(side) ==
  LET prices == PricesOf(side)
  IN  [i \in 1 .. Len(prices) |->
         [price    |-> prices[i],
          quantity |-> levels[side][prices[i]].total_quantity,
          orders   |-> OrdersAt(side, prices[i])]]

snapshot == [s \in Side |-> SideSnapshot(s)]

\* A snapshot's levels without their orders.
LevelsOf(snaps) ==
  [i \in DOMAIN snaps |-> [price |-> snaps[i].price, quantity |-> snaps[i].quantity,
                           order_count |-> Len(snaps[i].orders)]]

Crossed ==
  /\ DOMAIN levels["Buy"] # {} /\ DOMAIN levels["Sell"] # {}
  /\ PricesOf("Buy")[1] > PricesOf("Sell")[1]

\* The node met at index n, coming from previous, agrees with its record.
NodeAgrees(side, price, n, previous) ==
  /\ n \in Index
  /\ nodes[n].active
  /\ nodes[n].prev = previous
  /\ nodes[n].quantity # 0
  /\ nodes[n].order_id \in DOMAIN order_lookup
  /\ order_lookup[nodes[n].order_id] =
       [side |-> side, price |-> price, timestamp |-> nodes[n].timestamp,
        quantity |-> nodes[n].quantity, node_index |-> n]

ValidLevel(side, price) ==
  LET level == levels[side][price]
      walk  == Walk(level.head, "next")
  IN  /\ level.order_count # 0 /\ level.head # npos /\ level.tail # npos
      /\ \A k \in 1 .. Len(walk) :
           NodeAgrees(side, price, walk[k], IF k = 1 THEN npos ELSE walk[k - 1])
      /\ Last(walk) = level.tail
      /\ Len(walk) = level.order_count
      /\ WordSum(OrdersAt(side, price)) = level.total_quantity

\* Where the list entries of the book stand.
Places == UNION {{<<s, p, k>> : k \in DOMAIN OrdersAt(s, p)} :
                   s \in Side, p \in Price}

IdAt(place) == OrdersAt(place[1], place[2])[place[3]].order_id

validate_invariants(allow_crossed_book) ==
  /\ allow_crossed_book \/ ~Crossed
  /\ \A s \in Side : (DOMAIN levels[s] = {}) = (top_of_book[s] = << >>)
  /\ \A s \in Side : \A p \in DOMAIN levels[s] : ValidLevel(s, p)
  /\ \A a, b \in Places : a # b => IdAt(a) # IdAt(b)
  /\ {IdAt(a) : a \in Places} = DOMAIN order_lookup
  /\ \A id \in DOMAIN order_lookup :
       /\ nodes[order_lookup[id].node_index].active
       /\ order_lookup[id].price \in DOMAIN levels[order_lookup[id].side]

-----------------------------------------------------------------------------
(* Properties *)

\* Every link, head, tail, free index and record index is an index of nodes_
\* or npos, and order_count, a std::size_t, is never decremented below zero.
TypeOK ==
  /\ nodes \in [Index -> OrderNode]
  /\ free_indices \in Seq(Index)
  /\ DOMAIN levels = Side
  /\ \A s \in Side : IsMap(levels[s], Price, PriceLevel)
  /\ IsMap(order_lookup, OrderId, OrderRecord)
  /\ events_applied \in 0 .. (Word - 1)
  /\ result \in Returned

\* validate_invariants() accepts every state the operations can reach: the
\* chains, counts, totals and the hash index never drift apart.
BookValid == validate_invariants(TRUE)

\* The pool is never leaked and never shared: each node is either one live
\* order's, active, or stands exactly once on the free stack, reset as
\* release_node() leaves it.  CapacityExceeded therefore means what it says.
PoolPartition ==
  LET used == {order_lookup[id].node_index : id \in DOMAIN order_lookup}
      free == Range(free_indices)
  IN  /\ Cardinality(used) = Cardinality(DOMAIN order_lookup)
      /\ Cardinality(free) = Len(free_indices)
      /\ used \cap free = {}
      /\ used \cup free = Index
      /\ \A i \in Index : nodes[i].active = (i \in used)
      /\ \A i \in free : nodes[i] = UnusedNode

\* A level's chain reads the same from its tail along prev as from its head
\* along next, whichever of its nodes unlink_node() took out: head, middle,
\* tail or the last one left.
ChainsMirror ==
  \A s \in Side : \A p \in DOMAIN levels[s] :
    Walk(levels[s][p].tail, "prev") = Reverse(Walk(levels[s][p].head, "next"))

\* top_of_book() and depth() show what the index alone says: level i of a side
\* is the live price with exactly i - 1 better live prices, with the number of
\* orders recorded there and the sum of their recorded quantities; snapshot()
\* shows the same levels.
ViewsMatchIndex ==
  \A s \in Side, n \in 0 .. Cardinality(Price) + 1 :
    LET At(p) == {id \in DOMAIN order_lookup :
                    order_lookup[id].side = s /\ order_lookup[id].price = p}
        Live == {p \in Price : At(p) # {}}
        Rank(p) == Cardinality({q \in Live : Better(s, q, p)}) + 1
        view == depth(n)[s]
    IN  /\ {view[i].price : i \in DOMAIN view} = {p \in Live : Rank(p) <= n}
        /\ \A i \in DOMAIN view :
             /\ Rank(view[i].price) = i
             /\ view[i].order_count = Cardinality(At(view[i].price))
             /\ view[i].quantity = UnitsOnRecord(order_lookup, At(view[i].price))
        /\ n = 1 => view = top_of_book[s]
        /\ n > Cardinality(Price) => view = LevelsOf(snapshot[s])

\* The chains read front to back are the queues of the price-time book, and
\* the node pool bounds the orders that may rest at the same time.
Abstract == INSTANCE PriceTimeBook WITH
  queue <- [s \in Side |-> [p \in Price |-> OrdersAt(s, p)]]

\* Every operation on the pool implements the operation of PriceTimeBook,
\* CapacityExceeded exactly when MaxLiveOrders orders rest included.
ImplementsPriceTimeBook == Abstract!Spec
=============================================================================
