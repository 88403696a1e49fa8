------------------------ MODULE LimitOrderBookProofs ------------------------
(***************************************************************************)
(* Proofs about LimitOrderBook, for every value of its constants: the two  *)
(* copies of every order agree, validate_invariants() accepts the book,    *)
(* the book implements PriceTimeBook, a live order is never moved,         *)
(* restamped or enlarged, nobody loses its turn, and the queries show what *)
(* the index says.                                                         *)
(***************************************************************************)
EXTENDS LimitOrderBook, MarketTypesProofs

-----------------------------------------------------------------------------
(* The inductive invariant: the type of the containers and the agreement of  *)
(* the two copies of every order.  Neither half is inductive alone: removal  *)
(* keeps the types only because a record leads to a level that holds it.     *)

ContainersOK ==
  /\ DOMAIN levels = Side
  /\ \A s \in Side : IsMap(levels[s], Price, PriceLevel)
  /\ IsMap(order_lookup, OrderId, OrderRecord)

CountersOK == events_applied \in 0 .. (Word - 1) /\ result \in Returned

BookInv == ContainersOK /\ IndexConsistent

IInv == BookInv /\ CountersOK

\* A live order's record leads, through its iterator, to its entry.
LEMMA RecordLeadsToEntry ==
  ASSUME BookInv, NEW id \in DOMAIN order_lookup
  PROVE  LET record == order_lookup[id]
             orders == levels[record.side][record.price].orders
             pos    == PositionOf(orders, record.iterator)
         IN  /\ record \in OrderRecord
             /\ record.price \in DOMAIN levels[record.side]
             /\ levels[record.side][record.price] \in PriceLevel
             /\ record.iterator = id
             /\ pos \in 1 .. Len(orders)
             /\ orders[pos].order_id = id
             /\ orders[pos].quantity = record.quantity
             /\ orders[pos].timestamp = record.timestamp
<1> DEFINE record == order_lookup[id]
           orders == levels[record.side][record.price].orders
           pos    == PositionOf(orders, record.iterator)
<1>1. record \in OrderRecord /\ record.side \in Side
  BY DEF BookInv, ContainersOK, IsMap, OrderRecord
<1>a. PICK s \in Side : \E p \in DOMAIN levels[s] :
        \E i \in DOMAIN levels[s][p].orders : levels[s][p].orders[i].order_id = id
  BY DEF BookInv, IndexConsistent, IndexComplete
<1>2. PICK p \in DOMAIN levels[s] :
        \E i \in DOMAIN levels[s][p].orders : levels[s][p].orders[i].order_id = id
  BY <1>a
<1>3. PICK i \in DOMAIN levels[s][p].orders : levels[s][p].orders[i].order_id = id
  BY <1>2
<1>4. EntryAgrees(s, p, levels[s][p].orders[i])
  BY <1>3 DEF BookInv, IndexConsistent, LevelsAgree
<1>5. record.side = s /\ record.price = p /\ record.iterator = id
  BY <1>3, <1>4 DEF EntryAgrees
<1>6. levels[record.side][record.price] \in PriceLevel /\ orders \in Seq(OrderEntry)
  BY <1>1, <1>2, <1>5 DEF BookInv, ContainersOK, IsMap, PriceLevel
<1>7. i \in 1 .. Len(orders) /\ orders[i].order_id = record.iterator
  BY <1>3, <1>5, <1>6
<1>8. pos \in 1 .. Len(orders) /\ orders[pos].order_id = record.iterator
  BY <1>7 DEF PositionOf
<1>9. EntryAgrees(record.side, record.price, orders[pos])
  BY <1>2, <1>5, <1>6, <1>8 DEF BookInv, IndexConsistent, LevelsAgree
<1>10. orders[pos].quantity = record.quantity /\ orders[pos].timestamp = record.timestamp
  BY <1>5, <1>8, <1>9 DEF EntryAgrees
<1>11. QED
  BY <1>1, <1>2, <1>5, <1>6, <1>8, <1>10

\* add_order: the entry pushed back is the only new one, and its identifier
\* had no record, so that no entry of the book carries it.
LEMMA AddKeepsBook ==
  ASSUME BookInv,
         NEW id \in OrderId, NEW side \in Side, NEW price \in Price,
         NEW quantity \in Quantity, NEW timestamp \in Timestamp,
         quantity # 0, id \notin DOMAIN order_lookup,
         InsertOrder(id, side, price, quantity, timestamp)
  PROVE  BookInv'
<1> DEFINE level  == LevelAt(side, price)
           entry  == [order_id |-> id, timestamp |-> timestamp, quantity |-> quantity]
           grown  == PushBack(level, entry)
           last   == Len(level.orders) + 1
           record == [side |-> side, price |-> price, timestamp |-> timestamp,
                      quantity |-> quantity, iterator |-> id]
<1>1. entry \in OrderEntry /\ record \in OrderRecord
  BY DEF OrderEntry, OrderRecord
<1>2. level \in PriceLevel /\ level.orders \in Seq(OrderEntry) /\ level.total_quantity \in Int
  <2>1. CASE price \in DOMAIN levels[side]
    <3>1. level \in PriceLevel
      BY <2>1 DEF LevelAt, BookInv, ContainersOK, IsMap
    <3>2. QED
      BY <3>1 DEF PriceLevel, Quantity
  <2>2. CASE price \notin DOMAIN levels[side]
    <3>1. level = EmptyLevel
      BY <2>2 DEF LevelAt
    <3>2. 0 \in Quantity /\ << >> \in Seq(OrderEntry)
      BY WordAssumption DEF Quantity
    <3>3. QED
      BY <3>1, <3>2 DEF EmptyLevel, PriceLevel
  <2>3. QED
    BY <2>1, <2>2
<1>3. /\ grown.orders = Append(level.orders, entry)
      /\ grown.orders \in Seq(OrderEntry)
      /\ DOMAIN grown.orders = 1 .. last
      /\ \A i \in 1 .. Len(level.orders) : grown.orders[i] = level.orders[i]
      /\ grown.orders[last] = entry
      /\ last \in Nat \ {0}
  BY <1>1, <1>2, AppendProperties, LenProperties DEF PushBack
<1>4. grown \in PriceLevel
  <2>1. grown.total_quantity \in Quantity
    <3>1. grown.total_quantity = Plus(level.total_quantity, quantity)
      BY DEF PushBack
    <3>2. quantity \in Int
      BY WordAssumption DEF Quantity
    <3>3. QED
      BY <1>2, <3>1, <3>2, WordClosed
  <2>2. QED
    BY <1>3, <2>1 DEF PushBack, PriceLevel
<1>5. /\ DOMAIN levels' = Side
      /\ price \in DOMAIN levels'[side]
      /\ levels'[side][price] = grown
      /\ \A s \in Side : levels'[s] = [p \in DOMAIN levels'[s] |-> levels'[s][p]]
  BY DEF InsertOrder, Put, BookInv, ContainersOK, IsMap
<1>5a. ASSUME NEW s \in Side, NEW p, ~(s = side /\ p = price)
       PROVE  /\ p \in DOMAIN levels'[s] <=> p \in DOMAIN levels[s]
              /\ p \in DOMAIN levels[s] => levels'[s][p] = levels[s][p]
  BY <1>5a DEF InsertOrder, Put, BookInv, ContainersOK, IsMap
<1>6. /\ DOMAIN order_lookup' = DOMAIN order_lookup \cup {id}
      /\ order_lookup'[id] = record
      /\ \A x \in DOMAIN order_lookup : order_lookup'[x] = order_lookup[x]
      /\ order_lookup' = [x \in DOMAIN order_lookup' |-> order_lookup'[x]]
  BY DEF InsertOrder, Put
<1> HIDE DEF level, entry, grown, last, record
<1>7. ContainersOK'
  <2>1. ASSUME NEW s \in Side PROVE IsMap(levels[s], Price, PriceLevel)'
    BY <1>4, <1>5, <1>5a DEF IsMap, BookInv, ContainersOK
  <2>2. IsMap(order_lookup, OrderId, OrderRecord)'
    BY <1>1, <1>6 DEF IsMap, BookInv, ContainersOK
  <2>3. QED
    BY <1>5, <2>1, <2>2 DEF ContainersOK
\* Every entry of the book is the new one or was there, at the same place.
<1>8. ASSUME NEW s \in Side, NEW p \in DOMAIN levels'[s],
             NEW i \in DOMAIN levels'[s][p].orders
      PROVE  \/ /\ s = side /\ p = price /\ i = last
                /\ levels'[s][p].orders[i] = entry
             \/ /\ p \in DOMAIN levels[s]
                /\ i \in DOMAIN levels[s][p].orders
                /\ levels'[s][p].orders[i] = levels[s][p].orders[i]
  <2>1. CASE s = side /\ p = price
    <3>1. levels'[s][p] = grown /\ i \in 1 .. last
      BY <2>1, <1>3, <1>5
    <3>2. CASE i = last
      BY <2>1, <3>1, <3>2, <1>3
    <3>3. CASE i # last
      <4>1. i \in 1 .. Len(level.orders) /\ grown.orders[i] = level.orders[i]
        BY <3>1, <3>3, <1>2, <1>3, LenProperties DEF last
      <4>2. price \in DOMAIN levels[side] /\ level = levels[side][price]
        BY <4>1 DEF level, LevelAt, EmptyLevel
      <4>3. QED
        BY <2>1, <3>1, <4>1, <4>2, <1>2, LenProperties
    <3>4. QED
      BY <3>2, <3>3
  <2>2. CASE ~(s = side /\ p = price)
    BY <2>2, <1>5a
  <2>3. QED
    BY <2>1, <2>2
\* No entry of the book before carries id.
<1>9. ASSUME NEW s \in Side, NEW p \in DOMAIN levels[s],
             NEW i \in DOMAIN levels[s][p].orders
      PROVE  /\ levels[s][p].orders[i].order_id \in DOMAIN order_lookup
             /\ levels[s][p].orders[i].order_id # id
             /\ EntryAgrees(s, p, levels[s][p].orders[i])
  <2>1. EntryAgrees(s, p, levels[s][p].orders[i])
    BY DEF BookInv, IndexConsistent, LevelsAgree
  <2>2. QED
    BY <2>1 DEF EntryAgrees
<1>10. LevelsAgree'
  <2>1. ASSUME NEW s \in Side, NEW p \in DOMAIN levels'[s]
        PROVE  levels'[s][p].orders # << >>
    <3>1. CASE s = side /\ p = price
      BY <3>1, <1>3, <1>5
    <3>2. CASE ~(s = side /\ p = price)
      BY <3>2, <1>5a DEF BookInv, IndexConsistent, LevelsAgree
    <3>3. QED
      BY <3>1, <3>2
  <2>2. ASSUME NEW s \in Side, NEW p \in DOMAIN levels'[s],
               NEW i \in DOMAIN levels'[s][p].orders
        PROVE  EntryAgrees(s, p, levels[s][p].orders[i])'
    <3>1. CASE s = side /\ p = price /\ levels'[s][p].orders[i] = entry
      BY <3>1, <1>6 DEF EntryAgrees, entry, record
    <3>2. CASE /\ p \in DOMAIN levels[s]
               /\ i \in DOMAIN levels[s][p].orders
               /\ levels'[s][p].orders[i] = levels[s][p].orders[i]
      <4> DEFINE e == levels[s][p].orders[i]
      <4>1. e.order_id \in DOMAIN order_lookup /\ EntryAgrees(s, p, e)
        BY <3>2, <1>9
      <4>2. /\ e.order_id \in DOMAIN order_lookup'
            /\ order_lookup'[e.order_id] = order_lookup[e.order_id]
        BY <4>1, <1>6
      <4>3. levels'[s][p].orders[i] = e
        BY <3>2
      <4> HIDE DEF e
      <4>4. QED
        BY <4>1, <4>2, <4>3 DEF EntryAgrees
    <3>3. QED
      BY <1>8, <3>1, <3>2
  <2>3. QED
    BY <2>1, <2>2 DEF LevelsAgree
<1>11. IdsUnique'
  <2> SUFFICES ASSUME NEW s \in Side, NEW t \in Side,
                      NEW p \in DOMAIN levels'[s], NEW q \in DOMAIN levels'[t],
                      NEW i \in DOMAIN levels'[s][p].orders,
                      NEW j \in DOMAIN levels'[t][q].orders,
                      levels'[s][p].orders[i].order_id = levels'[t][q].orders[j].order_id
               PROVE  s = t /\ p = q /\ i = j
    BY DEF IdsUnique
  <2>1. entry.order_id = id
    BY DEF entry
  <2>2. IdsUnique
    BY DEF BookInv, IndexConsistent
  <2>3. \/ s = side /\ p = price /\ i = last /\ levels'[s][p].orders[i].order_id = id
        \/ /\ p \in DOMAIN levels[s] /\ i \in DOMAIN levels[s][p].orders
           /\ levels'[s][p].orders[i] = levels[s][p].orders[i]
           /\ levels[s][p].orders[i].order_id # id
    BY <2>1, <1>8, <1>9
  <2>4. \/ t = side /\ q = price /\ j = last /\ levels'[t][q].orders[j].order_id = id
        \/ /\ q \in DOMAIN levels[t] /\ j \in DOMAIN levels[t][q].orders
           /\ levels'[t][q].orders[j] = levels[t][q].orders[j]
           /\ levels[t][q].orders[j].order_id # id
    BY <2>1, <1>8, <1>9
  <2>5. QED
    BY <2>2, <2>3, <2>4 DEF IdsUnique
<1>12. IndexComplete'
  <2> SUFFICES ASSUME NEW x \in DOMAIN order_lookup'
               PROVE  /\ order_lookup'[x].price \in DOMAIN levels'[order_lookup'[x].side]
                      /\ \E s \in Side : \E p \in DOMAIN levels'[s] :
                           \E i \in DOMAIN levels'[s][p].orders :
                             levels'[s][p].orders[i].order_id = x
    BY DEF IndexComplete
  <2>1. CASE x = id
    <3>1. price \in DOMAIN levels'[side] /\ levels'[side][price] = grown
      BY <1>5
    <3>2. last \in DOMAIN grown.orders /\ grown.orders[last].order_id = id
      BY <1>3 DEF entry
    <3>3. QED
      BY <2>1, <3>1, <3>2, <1>6 DEF record
  <2>2. CASE x # id
    <3>1. x \in DOMAIN order_lookup /\ order_lookup'[x] = order_lookup[x]
      BY <2>2, <1>6
    <3>2. order_lookup[x].side \in Side
      BY <3>1 DEF BookInv, ContainersOK, IsMap, OrderRecord
    <3>3. order_lookup'[x].price \in DOMAIN levels'[order_lookup'[x].side]
      BY <3>1, <3>2, <1>5, <1>5a DEF BookInv, IndexConsistent, IndexComplete
    <3>4. PICK s \in Side : \E p \in DOMAIN levels[s] :
             \E i \in DOMAIN levels[s][p].orders : levels[s][p].orders[i].order_id = x
      BY <3>1 DEF BookInv, IndexConsistent, IndexComplete
    <3>5. PICK p \in DOMAIN levels[s] :
             \E i \in DOMAIN levels[s][p].orders : levels[s][p].orders[i].order_id = x
      BY <3>4
    <3>6. PICK i \in DOMAIN levels[s][p].orders : levels[s][p].orders[i].order_id = x
      BY <3>5
    <3>7. /\ p \in DOMAIN levels'[s] /\ i \in DOMAIN levels'[s][p].orders
          /\ levels'[s][p].orders[i] = levels[s][p].orders[i]
      <4>1. CASE s = side /\ p = price
        <5>1. levels'[s][p] = grown /\ level = levels[s][p]
          BY <4>1, <1>5 DEF level, LevelAt
        <5>2. i \in 1 .. Len(level.orders)
          BY <5>1, <1>2, LenProperties
        <5>3. QED
          BY <4>1, <5>1, <5>2, <1>2, <1>3, <1>5, LenProperties DEF last
      <4>2. CASE ~(s = side /\ p = price)
        BY <4>2, <1>5a
      <4>3. QED
        BY <4>1, <4>2
    <3>8. QED
      BY <3>3, <3>6, <3>7
  <2>3. QED
    BY <2>1, <2>2
<1>13. QED
  BY <1>7, <1>10, <1>11, <1>12 DEF BookInv, IndexConsistent

\* remove_existing_order: the entries that stay are the old ones, those of the
\* level behind the removed one moved up by one place, and none carries id.
LEMMA RemoveKeepsBook ==
  ASSUME BookInv, NEW id \in DOMAIN order_lookup, remove_existing_order(id)
  PROVE  BookInv'
<1> DEFINE record == order_lookup[id]
           side   == record.side
           price  == record.price
           level  == levels[side][price]
           pos    == PositionOf(level.orders, record.iterator)
           rest   == RemoveAt(level.orders, pos)
           shrunk == [total_quantity |-> Minus(level.total_quantity, record.quantity),
                      orders         |-> rest]
<1>1. /\ record \in OrderRecord /\ side \in Side /\ price \in Price
      /\ price \in DOMAIN levels[side]
      /\ level \in PriceLevel
      /\ pos \in 1 .. Len(level.orders)
      /\ level.orders[pos].order_id = id
  BY RecordLeadsToEntry DEF OrderRecord
<1>2. /\ level.orders \in Seq(OrderEntry) /\ level.total_quantity \in Int
      /\ record.quantity \in Int /\ Len(level.orders) \in Nat
  BY <1>1, WordAssumption DEF PriceLevel, OrderRecord, Quantity
<1>3. /\ rest \in Seq(OrderEntry)
      /\ DOMAIN rest = 1 .. (Len(level.orders) - 1)
      /\ \A j \in 1 .. (Len(level.orders) - 1) :
           rest[j] = IF j < pos THEN level.orders[j] ELSE level.orders[j + 1]
  <2> HIDE DEF record, side, price, level, pos
  <2>1. /\ rest \in Seq(OrderEntry)
        /\ Len(rest) = Len(level.orders) - 1
        /\ \A j \in 1 .. (Len(level.orders) - 1) :
             rest[j] = IF j < pos THEN level.orders[j] ELSE level.orders[j + 1]
    BY <1>1, <1>2, RemoveAtProperties
  <2>2. QED
    BY <2>1, LenProperties
<1>4. shrunk \in PriceLevel
  BY <1>2, <1>3, WordClosed DEF PriceLevel
<1>5. /\ DOMAIN levels' = Side
      /\ \A s \in Side : levels'[s] = [p \in DOMAIN levels'[s] |-> levels'[s][p]]
      /\ price \in DOMAIN levels'[side] => levels'[side][price] = shrunk /\ rest # << >>
      /\ rest # << >> => price \in DOMAIN levels'[side]
  BY <1>1 DEF remove_existing_order, EraseFrom, Put, Drop, BookInv, ContainersOK, IsMap
<1>6. ASSUME NEW s \in Side, NEW p, ~(s = side /\ p = price)
      PROVE  /\ p \in DOMAIN levels'[s] <=> p \in DOMAIN levels[s]
             /\ p \in DOMAIN levels[s] => levels'[s][p] = levels[s][p]
  BY <1>1, <1>6 DEF remove_existing_order, EraseFrom, Put, Drop, BookInv, ContainersOK, IsMap
<1>7. /\ DOMAIN order_lookup' = DOMAIN order_lookup \ {id}
      /\ \A x \in DOMAIN order_lookup' : order_lookup'[x] = order_lookup[x]
      /\ order_lookup' = [x \in DOMAIN order_lookup' |-> order_lookup'[x]]
  BY DEF remove_existing_order, Drop
<1> HIDE DEF record, side, price, level, pos, rest, shrunk
<1>8. ContainersOK'
  <2>1. ASSUME NEW s \in Side PROVE IsMap(levels[s], Price, PriceLevel)'
    BY <1>1, <1>4, <1>5, <1>6 DEF IsMap, BookInv, ContainersOK
  <2>2. IsMap(order_lookup, OrderId, OrderRecord)'
    BY <1>7 DEF IsMap, BookInv, ContainersOK
  <2>3. QED
    BY <1>5, <2>1, <2>2 DEF ContainersOK
<1> DEFINE Was(s, p, i) == IF s = side /\ p = price /\ i >= pos THEN i + 1 ELSE i
\* Every entry that stays was at the place Was tells, and is not id's.
<1>9. ASSUME NEW s \in Side, NEW p \in DOMAIN levels'[s],
             NEW i \in DOMAIN levels'[s][p].orders
      PROVE  /\ p \in DOMAIN levels[s]
             /\ Was(s, p, i) \in DOMAIN levels[s][p].orders
             /\ levels'[s][p].orders[i] = levels[s][p].orders[Was(s, p, i)]
             /\ levels[s][p].orders[Was(s, p, i)].order_id # id
             /\ s = side /\ p = price => i \in Int
  <2>1. CASE s = side /\ p = price
    <3>1. levels'[s][p] = shrunk /\ shrunk.orders = rest /\ levels[s][p] = level
      BY <2>1, <1>5 DEF shrunk, level
    <3>2. i \in 1 .. (Len(level.orders) - 1) /\ pos \in Int
      BY <3>1, <1>1, <1>3
    <3>3. Was(s, p, i) \in DOMAIN level.orders /\ Was(s, p, i) # pos
      BY <2>1, <3>2, <1>1, <1>2
    <3>4. rest[i] = level.orders[Was(s, p, i)]
      BY <2>1, <3>2, <1>3
    <3>5. level.orders[Was(s, p, i)].order_id # level.orders[pos].order_id
      BY <3>3, <1>1, <1>2 DEF BookInv, IndexConsistent, IdsUnique, level
    <3>6. QED
      BY <2>1, <3>1, <3>2, <3>3, <3>4, <3>5, <1>1
  <2>2. CASE ~(s = side /\ p = price)
    <3>1. p \in DOMAIN levels[s] /\ levels'[s][p] = levels[s][p] /\ Was(s, p, i) = i
      BY <2>2, <1>6
    <3>2. pos \in DOMAIN level.orders
      BY <1>1, <1>2
    <3>3. levels[s][p].orders[i].order_id # level.orders[pos].order_id
      BY <2>2, <3>1, <3>2, <1>1 DEF BookInv, IndexConsistent, IdsUnique, level
    <3>4. QED
      BY <2>2, <3>1, <3>3, <1>1
  <2>3. QED
    BY <2>1, <2>2
<1> HIDE DEF Was
<1>10. LevelsAgree'
  <2>1. ASSUME NEW s \in Side, NEW p \in DOMAIN levels'[s]
        PROVE  levels'[s][p].orders # << >>
    <3>1. CASE s = side /\ p = price
      BY <3>1, <1>5 DEF shrunk
    <3>2. CASE ~(s = side /\ p = price)
      BY <3>2, <1>6 DEF BookInv, IndexConsistent, LevelsAgree
    <3>3. QED
      BY <3>1, <3>2
  <2>2. ASSUME NEW s \in Side, NEW p \in DOMAIN levels'[s],
               NEW i \in DOMAIN levels'[s][p].orders
        PROVE  EntryAgrees(s, p, levels[s][p].orders[i])'
    <3>1. EntryAgrees(s, p, levels[s][p].orders[Was(s, p, i)])
      BY <1>9 DEF BookInv, IndexConsistent, LevelsAgree
    <3>2. /\ levels'[s][p].orders[i] = levels[s][p].orders[Was(s, p, i)]
          /\ levels'[s][p].orders[i].order_id \in DOMAIN order_lookup'
      <4>1. levels[s][p].orders[Was(s, p, i)].order_id \in DOMAIN order_lookup
        BY <3>1 DEF EntryAgrees
      <4>2. QED
        BY <4>1, <1>7, <1>9
    <3>3. QED
      BY <3>1, <3>2, <1>7 DEF EntryAgrees
  <2>3. QED
    BY <2>1, <2>2 DEF LevelsAgree
<1>11. IdsUnique'
  <2> SUFFICES ASSUME NEW s \in Side, NEW t \in Side,
                      NEW p \in DOMAIN levels'[s], NEW q \in DOMAIN levels'[t],
                      NEW i \in DOMAIN levels'[s][p].orders,
                      NEW j \in DOMAIN levels'[t][q].orders,
                      levels'[s][p].orders[i].order_id = levels'[t][q].orders[j].order_id
               PROVE  s = t /\ p = q /\ i = j
    BY DEF IdsUnique
  <2>1. s = t /\ p = q /\ Was(s, p, i) = Was(t, q, j)
    <3>1. IdsUnique
      BY DEF BookInv, IndexConsistent
    <3>2. /\ p \in DOMAIN levels[s] /\ Was(s, p, i) \in DOMAIN levels[s][p].orders
          /\ q \in DOMAIN levels[t] /\ Was(t, q, j) \in DOMAIN levels[t][q].orders
          /\ levels[s][p].orders[Was(s, p, i)].order_id
               = levels[t][q].orders[Was(t, q, j)].order_id
      BY <1>9
    <3>3. QED
      BY <3>1, <3>2 DEF IdsUnique
  <2>2. pos \in Int
    BY <1>1
  <2>3. QED
    BY <2>1, <2>2, <1>9 DEF Was
<1>12. IndexComplete'
  <2> SUFFICES ASSUME NEW x \in DOMAIN order_lookup'
               PROVE  /\ order_lookup'[x].price \in DOMAIN levels'[order_lookup'[x].side]
                      /\ \E s \in Side : \E p \in DOMAIN levels'[s] :
                           \E i \in DOMAIN levels'[s][p].orders :
                             levels'[s][p].orders[i].order_id = x
    BY DEF IndexComplete
  <2> DEFINE s == order_lookup[x].side
             p == order_lookup[x].price
             k == PositionOf(levels[s][p].orders, order_lookup[x].iterator)
  <2>1. x \in DOMAIN order_lookup /\ x # id /\ order_lookup'[x] = order_lookup[x]
    BY <1>7
  <2>2. /\ s \in Side /\ p \in DOMAIN levels[s]
        /\ k \in 1 .. Len(levels[s][p].orders)
        /\ k \in DOMAIN levels[s][p].orders
        /\ levels[s][p].orders[k].order_id = x
    <3>1. levels[s][p] \in PriceLevel /\ order_lookup[x] \in OrderRecord
      BY <2>1, RecordLeadsToEntry
    <3>2. levels[s][p].orders \in Seq(OrderEntry)
      BY <3>1 DEF PriceLevel
    <3>3. s \in Side
      BY <3>1 DEF OrderRecord
    <3>4. /\ p \in DOMAIN levels[s] /\ k \in DOMAIN levels[s][p].orders
          /\ levels[s][p].orders[k].order_id = x
      BY <2>1, RecordLeadsToEntry
    <3>5. QED
      BY <3>2, <3>3, <3>4
  <2> HIDE DEF s, p, k
  <2>3. CASE s = side /\ p = price
    <3>1. levels[s][p] = level /\ k # pos /\ k \in 1 .. Len(level.orders)
      BY <2>1, <2>2, <2>3, <1>1 DEF level
    <3>2. \E i \in DOMAIN rest : rest[i] = level.orders[k]
      <4>1. CASE k < pos
        <5>1. k \in DOMAIN rest /\ rest[k] = level.orders[k]
          BY <4>1, <3>1, <1>1, <1>2, <1>3
        <5>2. QED
          BY <5>1
      <4>2. CASE ~(k < pos)
        <5>1. k - 1 \in DOMAIN rest /\ ~(k - 1 < pos) /\ (k - 1) + 1 = k
          BY <4>2, <3>1, <1>1, <1>2, <1>3
        <5>2. rest[k - 1] = level.orders[(k - 1) + 1]
          BY <5>1, <1>3
        <5>3. QED
          BY <5>1, <5>2
      <4>3. QED
        BY <4>1, <4>2
    <3>3. rest # << >>
      BY <3>2
    <3>4. p \in DOMAIN levels'[s] /\ levels'[s][p].orders = rest
      BY <2>3, <3>3, <1>5 DEF shrunk
    <3>5. \E i \in DOMAIN levels'[s][p].orders : levels'[s][p].orders[i].order_id = x
      BY <3>1, <3>2, <3>4, <2>2
    <3>6. QED
      BY <2>1, <2>2, <3>4, <3>5 DEF s, p
  <2>4. CASE ~(s = side /\ p = price)
    <3>1. p \in DOMAIN levels'[s] /\ levels'[s][p] = levels[s][p]
      BY <2>2, <2>4, <1>6
    <3>2. \E i \in DOMAIN levels'[s][p].orders : levels'[s][p].orders[i].order_id = x
      BY <3>1, <2>2
    <3>3. QED
      BY <2>1, <2>2, <3>1, <3>2 DEF s, p
  <2>5. QED
    BY <2>3, <2>4
<1>13. QED
  BY <1>8, <1>10, <1>11, <1>12 DEF BookInv, IndexConsistent

\* modify_order and a partial execute_order: every entry stays where it is,
\* and the one whose quantity changes is the one whose record changes.
LEMMA ReduceKeepsBook ==
  ASSUME BookInv, NEW id \in DOMAIN order_lookup,
         NEW units \in Int, NEW left \in Quantity, left # 0,
         ReduceTo(id, units, left)
  PROVE  BookInv'
<1> DEFINE record == order_lookup[id]
           side   == record.side
           price  == record.price
           level  == levels[side][price]
           pos    == PositionOf(level.orders, record.iterator)
           resized == [level.orders EXCEPT ![pos].quantity = left]
           reduced == [total_quantity |-> Minus(level.total_quantity, units),
                       orders         |-> resized]
<1>1. /\ record \in OrderRecord /\ side \in Side /\ price \in Price
      /\ price \in DOMAIN levels[side]
      /\ level \in PriceLevel
      /\ pos \in 1 .. Len(level.orders)
      /\ level.orders[pos].order_id = id
      /\ record.iterator = id
  BY RecordLeadsToEntry DEF OrderRecord
<1>2. level.orders \in Seq(OrderEntry) /\ level.total_quantity \in Int
  BY <1>1, WordAssumption DEF PriceLevel, Quantity
<1>3. /\ resized \in Seq(OrderEntry)
      /\ DOMAIN resized = DOMAIN level.orders
      /\ \A i \in DOMAIN level.orders :
           /\ resized[i].order_id = level.orders[i].order_id
           /\ resized[i].timestamp = level.orders[i].timestamp
           /\ resized[i].quantity = IF i = pos THEN left ELSE level.orders[i].quantity
  <2> HIDE DEF record, side, price, level, pos
  <2> DEFINE entry == [level.orders[pos] EXCEPT !.quantity = left]
  <2>1. level.orders[pos] \in OrderEntry
    BY <1>1, <1>2, ElementOfSeq
  <2>2. /\ entry \in OrderEntry
        /\ entry.order_id = level.orders[pos].order_id
        /\ entry.timestamp = level.orders[pos].timestamp
        /\ entry.quantity = left
    BY <2>1 DEF OrderEntry
  <2>3. resized = [level.orders EXCEPT ![pos] = entry]
    OBVIOUS
  <2> HIDE DEF entry, resized
  <2>4. /\ resized \in Seq(OrderEntry)
        /\ Len(resized) = Len(level.orders)
        /\ \A i \in 1 .. Len(level.orders) :
             resized[i] = IF i = pos THEN entry ELSE level.orders[i]
    BY <1>1, <1>2, <2>2, <2>3, ExceptSeq
  <2>5. DOMAIN resized = 1 .. Len(level.orders) /\ DOMAIN level.orders = 1 .. Len(level.orders)
    BY <1>2, <2>4, LenProperties
  <2>6. QED
    BY <2>2, <2>4, <2>5
<1>4. reduced \in PriceLevel
  BY <1>2, <1>3, WordClosed DEF PriceLevel
<1>5. /\ DOMAIN levels' = Side
      /\ \A s \in Side : levels'[s] = [p \in DOMAIN levels'[s] |-> levels'[s][p]]
      /\ \A s \in Side : DOMAIN levels'[s] = DOMAIN levels[s]
      /\ levels'[side][price] = reduced
  BY <1>1 DEF ReduceTo, BookInv, ContainersOK, IsMap
<1>6. ASSUME NEW s \in Side, NEW p \in DOMAIN levels[s], ~(s = side /\ p = price)
      PROVE  levels'[s][p] = levels[s][p]
  BY <1>1, <1>6 DEF ReduceTo, BookInv, ContainersOK, IsMap
<1>7. /\ DOMAIN order_lookup' = DOMAIN order_lookup
      /\ order_lookup'[id] = [record EXCEPT !.quantity = left]
      /\ \A x \in DOMAIN order_lookup : x # id => order_lookup'[x] = order_lookup[x]
      /\ order_lookup' = [x \in DOMAIN order_lookup' |-> order_lookup'[x]]
  BY DEF ReduceTo, BookInv, ContainersOK, IsMap
<1>8. order_lookup'[id] \in OrderRecord
  BY <1>1, <1>7 DEF OrderRecord
<1>9. \A x \in DOMAIN order_lookup :
        /\ order_lookup'[x].side = order_lookup[x].side
        /\ order_lookup'[x].price = order_lookup[x].price
        /\ order_lookup'[x].timestamp = order_lookup[x].timestamp
        /\ order_lookup'[x].iterator = order_lookup[x].iterator
        /\ order_lookup'[x].quantity = IF x = id THEN left ELSE order_lookup[x].quantity
  BY <1>1, <1>7 DEF OrderRecord
<1> HIDE DEF record, side, price, level, pos, resized, reduced
<1>10. ContainersOK'
  <2>1. ASSUME NEW s \in Side PROVE IsMap(levels[s], Price, PriceLevel)'
    BY <1>4, <1>5, <1>6 DEF IsMap, BookInv, ContainersOK
  <2>2. IsMap(order_lookup, OrderId, OrderRecord)'
    BY <1>7, <1>8 DEF IsMap, BookInv, ContainersOK
  <2>3. QED
    BY <1>5, <2>1, <2>2 DEF ContainersOK
<1>11. ASSUME NEW s \in Side, NEW p \in DOMAIN levels[s]
       PROVE  /\ DOMAIN levels'[s][p].orders = DOMAIN levels[s][p].orders
              /\ \A i \in DOMAIN levels[s][p].orders :
                   LET new == levels'[s][p].orders[i]
                       old == levels[s][p].orders[i]
                   IN  /\ new.order_id = old.order_id
                       /\ new.timestamp = old.timestamp
                       /\ new.quantity = IF old.order_id = id THEN left ELSE old.quantity
  <2>1. CASE s = side /\ p = price
    <3>1. levels'[s][p].orders = resized /\ levels[s][p] = level
      BY <2>1, <1>5 DEF reduced, level
    <3>2. ASSUME NEW i \in DOMAIN level.orders
          PROVE  (level.orders[i].order_id = id) = (i = pos)
      <4>1. pos \in DOMAIN level.orders
        BY <1>1, <1>2
      <4>2. QED
        BY <4>1, <1>1 DEF BookInv, IndexConsistent, IdsUnique, level
    <3>3. QED
      BY <3>1, <3>2, <1>3
  <2>2. CASE ~(s = side /\ p = price)
    <3>1. levels'[s][p] = levels[s][p]
      BY <2>2, <1>6
    <3>2. ASSUME NEW i \in DOMAIN levels[s][p].orders
          PROVE  levels[s][p].orders[i].order_id # id
      <4>1. pos \in DOMAIN level.orders
        BY <1>1, <1>2
      <4>2. QED
        BY <2>2, <4>1, <1>1 DEF BookInv, IndexConsistent, IdsUnique, level
    <3>3. QED
      BY <3>1, <3>2
  <2>3. QED
    BY <2>1, <2>2
<1>12. LevelsAgree'
  <2>1. ASSUME NEW s \in Side, NEW p \in DOMAIN levels'[s]
        PROVE  levels'[s][p].orders # << >>
    <3>1. p \in DOMAIN levels[s]
      BY <1>5
    <3>2. PICK i \in DOMAIN levels[s][p].orders : TRUE
      <4>1. levels[s][p].orders \in Seq(OrderEntry) /\ levels[s][p].orders # << >>
        BY <3>1 DEF BookInv, ContainersOK, IsMap, PriceLevel, IndexConsistent, LevelsAgree
      <4>2. 1 \in DOMAIN levels[s][p].orders
        BY <4>1, EmptySeq, LenProperties
      <4>3. QED
        BY <4>2
    <3>3. i \in DOMAIN levels'[s][p].orders
      BY <3>1, <3>2, <1>11
    <3>4. QED
      BY <3>3
  <2>2. ASSUME NEW s \in Side, NEW p \in DOMAIN levels'[s],
               NEW i \in DOMAIN levels'[s][p].orders
        PROVE  EntryAgrees(s, p, levels[s][p].orders[i])'
    <3>1. p \in DOMAIN levels[s] /\ i \in DOMAIN levels[s][p].orders
      BY <1>5, <1>11
    <3>2. EntryAgrees(s, p, levels[s][p].orders[i])
      BY <3>1 DEF BookInv, IndexConsistent, LevelsAgree
    <3> DEFINE old == levels[s][p].orders[i]
               new == levels'[s][p].orders[i]
    <3>3. /\ new.order_id = old.order_id
          /\ new.timestamp = old.timestamp
          /\ new.quantity = IF old.order_id = id THEN left ELSE old.quantity
      BY <3>1, <1>11
    <3>4. old.order_id \in DOMAIN order_lookup
      BY <3>2 DEF EntryAgrees
    <3> HIDE DEF new
    <3>5. /\ new.quantity # 0
          /\ new.order_id \in DOMAIN order_lookup'
          /\ order_lookup'[new.order_id].side = s
          /\ order_lookup'[new.order_id].price = p
          /\ order_lookup'[new.order_id].quantity = new.quantity
          /\ order_lookup'[new.order_id].timestamp = new.timestamp
          /\ order_lookup'[new.order_id].iterator = new.order_id
      BY <3>2, <3>3, <3>4, <1>7, <1>9 DEF EntryAgrees
    <3>6. QED
      BY <3>5 DEF EntryAgrees, new
  <2>3. QED
    BY <2>1, <2>2 DEF LevelsAgree
<1>13. IdsUnique'
  BY <1>5, <1>11 DEF BookInv, IndexConsistent, IdsUnique
<1>14. IndexComplete'
  <2> SUFFICES ASSUME NEW x \in DOMAIN order_lookup'
               PROVE  /\ order_lookup'[x].price \in DOMAIN levels'[order_lookup'[x].side]
                      /\ \E s \in Side : \E p \in DOMAIN levels'[s] :
                           \E i \in DOMAIN levels'[s][p].orders :
                             levels'[s][p].orders[i].order_id = x
    BY DEF IndexComplete
  <2>1. x \in DOMAIN order_lookup /\ order_lookup[x].side \in Side
    BY <1>7 DEF BookInv, ContainersOK, IsMap, OrderRecord
  <2>2. order_lookup'[x].price \in DOMAIN levels'[order_lookup'[x].side]
    BY <2>1, <1>5, <1>9 DEF BookInv, IndexConsistent, IndexComplete
  <2>3. PICK s \in Side : \E p \in DOMAIN levels[s] :
           \E i \in DOMAIN levels[s][p].orders : levels[s][p].orders[i].order_id = x
    BY <2>1 DEF BookInv, IndexConsistent, IndexComplete
  <2>4. PICK p \in DOMAIN levels[s] :
           \E i \in DOMAIN levels[s][p].orders : levels[s][p].orders[i].order_id = x
    BY <2>3
  <2>5. PICK i \in DOMAIN levels[s][p].orders : levels[s][p].orders[i].order_id = x
    BY <2>4
  <2>6. /\ p \in DOMAIN levels'[s] /\ i \in DOMAIN levels'[s][p].orders
        /\ levels'[s][p].orders[i].order_id = x
    BY <2>5, <1>5, <1>11
  <2>7. QED
    BY <2>2, <2>6
<1>15. QED
  BY <1>10, <1>12, <1>13, <1>14 DEF BookInv, IndexConsistent

-----------------------------------------------------------------------------
LEMMA InitEstablishesInv == Init => IInv
<1> SUFFICES ASSUME Init PROVE IInv
  OBVIOUS
<1>1. DOMAIN NoEntries = {} /\ NoEntries \in [{} -> OrderRecord]
      /\ NoEntries \in [{} -> PriceLevel]
  BY DEF NoEntries
<1>2. ContainersOK
  BY <1>1 DEF Init, ContainersOK, IsMap
<1>3. IndexConsistent
  BY <1>1 DEF Init, IndexConsistent, LevelsAgree, IdsUnique, IndexComplete
<1>4. CountersOK
  BY WordAssumption DEF Init, CountersOK, Returned
<1>5. QED
  BY <1>2, <1>3, <1>4 DEF IInv, BookInv

LEMMA BookUnchanged ==
  ASSUME BookInv, UNCHANGED <<levels, order_lookup>>
  PROVE  BookInv'
<1>0. levels' = levels /\ order_lookup' = order_lookup
  OBVIOUS
<1>1. ContainersOK'
  BY <1>0, Zenon DEF BookInv, ContainersOK
<1>2. LevelsAgree'
  <2> SUFFICES ASSUME NEW s \in Side, NEW p \in DOMAIN levels[s]
               PROVE  /\ levels[s][p].orders # << >>
                      /\ \A i \in DOMAIN levels[s][p].orders :
                           EntryAgrees(s, p, levels[s][p].orders[i])'
    BY <1>0 DEF LevelsAgree
  <2>1. \A e : EntryAgrees(s, p, e)' <=> EntryAgrees(s, p, e)
    BY <1>0 DEF EntryAgrees
  <2> QED
    BY <1>0, <2>1 DEF BookInv, IndexConsistent, LevelsAgree
<1>3. IdsUnique'
  BY <1>0 DEF BookInv, IndexConsistent, IdsUnique
<1>4. IndexComplete'
  BY <1>0 DEF BookInv, IndexConsistent, IndexComplete
<1> QED
  BY <1>1, <1>2, <1>3, <1>4 DEF BookInv, IndexConsistent

\* A call either returns an error and changes nothing or counts one operation.
LEMMA CountersKept ==
  ASSUME CountersOK, Applied \/ \E res \in BookResult : Reject(res)
  PROVE  CountersOK'
<1>1. CASE Applied
  <2>1. Plus(events_applied, 1) \in 0 .. (Word - 1)
    BY WordClosed, WordAssumption DEF CountersOK, Quantity
  <2>2. QED
    BY <1>1, <2>1 DEF Applied, CountersOK, Returned, BookResult
<1>2. CASE \E res \in BookResult : Reject(res)
  BY <1>2 DEF Reject, CountersOK, Returned
<1>3. QED
  BY <1>1, <1>2

LEMMA NextPreservesInv == IInv /\ [Next]_vars => IInv'
<1> SUFFICES ASSUME IInv, [Next]_vars PROVE IInv'
  OBVIOUS
<1>0. BookInv /\ CountersOK
  BY DEF IInv
<1>1. ASSUME NEW res \in BookResult, Reject(res) PROVE IInv'
  <2>1. BookInv'
    BY <1>0, <1>1, BookUnchanged DEF Reject
  <2>2. CountersOK'
    BY <1>0, <1>1, CountersKept
  <2>3. QED
    BY <2>1, <2>2 DEF IInv
<1>2. ASSUME NEW id \in OrderId, NEW side \in Side, NEW price \in Price,
             NEW quantity \in Quantity, NEW timestamp \in Timestamp,
             add_order(id, side, price, quantity, timestamp)
      PROVE  IInv'
  <2>1. CASE \E res \in BookResult : Reject(res)
    BY <2>1, <1>1
  <2>2. CASE /\ quantity # 0 /\ id \notin DOMAIN order_lookup
             /\ InsertOrder(id, side, price, quantity, timestamp) /\ Applied
    BY <2>2, <1>0, AddKeepsBook, CountersKept DEF IInv
  <2>3. QED
    BY <1>2, <2>1, <2>2 DEF add_order, BookResult
<1>3. ASSUME NEW id \in DOMAIN order_lookup, remove_existing_order(id), Applied
      PROVE  IInv'
  BY <1>0, <1>3, RemoveKeepsBook, CountersKept DEF IInv
<1>4. ASSUME NEW id \in OrderId, cancel_order(id) PROVE IInv'
  BY <1>1, <1>3, <1>4 DEF cancel_order, BookResult
\* What is left of an order is a positive quantity.
<1>5. ASSUME NEW id \in DOMAIN order_lookup, NEW units \in Int, NEW left \in Quantity,
             left # 0, ReduceTo(id, units, left), Applied
      PROVE  IInv'
  BY <1>0, <1>5, ReduceKeepsBook, CountersKept DEF IInv
<1>6. ASSUME NEW id \in DOMAIN order_lookup
      PROVE  order_lookup[id].quantity \in Quantity
  BY <1>0 DEF BookInv, ContainersOK, IsMap, OrderRecord
<1>7. ASSUME NEW id \in OrderId, NEW quantity \in Quantity, modify_order(id, quantity)
      PROVE  IInv'
  <2>1. CASE \E res \in BookResult : Reject(res)
    BY <2>1, <1>1
  <2>2. CASE Applied /\ UNCHANGED <<levels, order_lookup>>
    BY <2>2, <1>0, BookUnchanged, CountersKept DEF IInv
  <2>3. CASE /\ id \in DOMAIN order_lookup /\ quantity # 0
             /\ ReduceTo(id, order_lookup[id].quantity - quantity, quantity)
             /\ Applied
    <3>1. order_lookup[id].quantity - quantity \in Int
      BY <2>3, <1>6, WordAssumption DEF Quantity
    <3>2. QED
      BY <2>3, <3>1, <1>5
  <2>4. QED
    BY <1>7, <2>1, <2>2, <2>3 DEF modify_order, BookResult
<1>8. ASSUME NEW id \in OrderId, NEW quantity \in Quantity, execute_order(id, quantity)
      PROVE  IInv'
  <2>1. CASE \E res \in BookResult : Reject(res)
    BY <2>1, <1>1
  <2>2. CASE id \in DOMAIN order_lookup /\ remove_existing_order(id) /\ Applied
    BY <2>2, <1>3
  <2>3. CASE /\ id \in DOMAIN order_lookup
             /\ quantity < order_lookup[id].quantity
             /\ ReduceTo(id, quantity, order_lookup[id].quantity - quantity)
             /\ Applied
    <3>1. /\ order_lookup[id].quantity - quantity \in Quantity
          /\ order_lookup[id].quantity - quantity # 0
          /\ quantity \in Int
      BY <2>3, <1>6, WordAssumption DEF Quantity
    <3>2. QED
      BY <2>3, <3>1, <1>5
  <2>4. QED
    BY <1>8, <2>1, <2>2, <2>3 DEF execute_order, BookResult
<1>9. CASE clear
  <2>1. DOMAIN NoEntries = {} /\ NoEntries \in [{} -> OrderRecord]
        /\ NoEntries \in [{} -> PriceLevel]
    BY DEF NoEntries
  <2>2. ContainersOK'
    BY <1>9, <2>1 DEF clear, ContainersOK, IsMap
  <2>3. IndexConsistent'
    BY <1>9, <2>1 DEF clear, IndexConsistent, LevelsAgree, IdsUnique, IndexComplete
  <2>4. CountersOK'
    BY <1>0, <1>9, WordAssumption DEF clear, CountersOK
  <2>5. QED
    BY <2>2, <2>3, <2>4 DEF IInv, BookInv
<1>10. CASE UNCHANGED vars
  <2>1. BookInv'
    BY <1>0, <1>10, BookUnchanged DEF vars
  <2>2. CountersOK'
    BY <1>0, <1>10 DEF vars, CountersOK
  <2>3. QED
    BY <2>1, <2>2 DEF IInv
<1>11. QED
  BY <1>2, <1>4, <1>7, <1>8, <1>9, <1>10 DEF Next

LEMMA InvImpliesProperties == IInv => TypeOK /\ IndexConsistent
  BY DEF IInv, BookInv, ContainersOK, CountersOK, TypeOK

\* The containers of the baseline book always hold values of their types, in
\* particular a record's price and iterator and the totals as unsigned words.
THEOREM TypeCorrect == Spec => []TypeOK
  BY InitEstablishesInv, NextPreservesInv, InvImpliesProperties, PTL DEF Spec

\* After any sequence of add_order, cancel_order, modify_order, execute_order
\* and clear, whatever the word size, prices and identifiers: list entries and
\* index records correspond one to one and agree, and no level is empty.
THEOREM IndexNeverDrifts == Spec => []IndexConsistent
  BY InitEstablishesInv, NextPreservesInv, InvImpliesProperties, PTL DEF Spec

-----------------------------------------------------------------------------
(* validate_invariants() accepts every reachable state *)

\* A level's running total is the sum of its orders.
TotalRight(level) == WordSum(level.orders) = level.total_quantity

\* Totals agree after a step that leaves all levels but one as they are.
LEMMA OneTotalChanges ==
  ASSUME TotalsAgree, NEW side \in Side, NEW price,
         price \in DOMAIN levels'[side] => TotalRight(levels'[side][price]),
         \A s \in Side : \A p \in DOMAIN levels'[s] :
           ~(s = side /\ p = price) => p \in DOMAIN levels[s] /\ levels'[s][p] = levels[s][p]
  PROVE  TotalsAgree'
BY DEF TotalsAgree, TotalRight

LEMMA AddKeepsTotals ==
  ASSUME BookInv, TotalsAgree,
         NEW id \in OrderId, NEW side \in Side, NEW price \in Price,
         NEW quantity \in Quantity, NEW timestamp \in Timestamp,
         InsertOrder(id, side, price, quantity, timestamp)
  PROVE  TotalsAgree'
<1> DEFINE entry == [order_id |-> id, timestamp |-> timestamp, quantity |-> quantity]
<1>1. entry \in OrderEntry /\ entry.quantity = quantity
  BY DEF OrderEntry
<1>2. PICK level : level = LevelAt(side, price)
  OBVIOUS
<1>3. level.orders \in Seq(OrderEntry) /\ TotalRight(level)
  <2>1. CASE price \in DOMAIN levels[side]
    BY <1>2, <2>1 DEF LevelAt, BookInv, ContainersOK, IsMap, PriceLevel, TotalsAgree, TotalRight
  <2>2. CASE price \notin DOMAIN levels[side]
    <3>1. level.orders = << >> /\ level.total_quantity = 0
      BY <1>2, <2>2 DEF LevelAt, EmptyLevel
    <3> QED
      BY <3>1, SumOfNone DEF TotalRight
  <2> QED
    BY <2>1, <2>2
<1> HIDE DEF entry
<1>4. levels' = [levels EXCEPT ![side] = Put(@, price, PushBack(level, entry))]
  BY <1>2 DEF InsertOrder, entry
<1>5. PICK grown : /\ grown = PushBack(level, entry)
                   /\ grown.orders = Append(level.orders, entry)
                   /\ grown.total_quantity = Plus(level.total_quantity, entry.quantity)
  <2> DEFINE new == PushBack(level, entry)
  <2>1. new.total_quantity = Plus(level.total_quantity, entry.quantity) /\ new.orders = Append(level.orders, entry)
    BY DEF PushBack
  <2> HIDE DEF new
  <2> QED
    BY <2>1, Zenon DEF new
<1>6. TotalRight(grown)
  BY <1>1, <1>3, <1>5, SumAfterAppend DEF TotalRight
<1>7. /\ levels'[side][price] = grown
      /\ \A s \in Side : \A p \in DOMAIN levels'[s] :
           ~(s = side /\ p = price) => p \in DOMAIN levels[s] /\ levels'[s][p] = levels[s][p]
  BY <1>4, <1>5 DEF Put, BookInv, ContainersOK
<1> QED
  BY <1>6, <1>7, OneTotalChanges

LEMMA RemoveKeepsTotals ==
  ASSUME BookInv, TotalsAgree, NEW id \in DOMAIN order_lookup, remove_existing_order(id)
  PROVE  TotalsAgree'
<1>1. PICK record \in OrderRecord : record = order_lookup[id]
  BY RecordLeadsToEntry
<1>2. PICK side \in Side : side = record.side
  BY DEF OrderRecord
<1>3. PICK price \in DOMAIN levels[side] : price = record.price
  BY <1>1, <1>2, RecordLeadsToEntry
<1>4. PICK level \in PriceLevel : level = levels[side][price]
  BY <1>1, <1>2, <1>3, RecordLeadsToEntry
<1>5. PICK pos \in 1 .. Len(level.orders) :
        /\ pos = PositionOf(level.orders, record.iterator)
        /\ level.orders[pos].quantity = record.quantity
  BY <1>1, <1>2, <1>3, <1>4, RecordLeadsToEntry
<1>6. level.orders \in Seq(OrderEntry) /\ TotalRight(level)
  BY <1>2, <1>3, <1>4 DEF PriceLevel, TotalsAgree, TotalRight
<1>7. PICK shrunk : /\ shrunk = [total_quantity |-> Minus(level.total_quantity, record.quantity),
                                 orders         |-> RemoveAt(level.orders, pos)]
                    /\ shrunk.total_quantity = Minus(level.total_quantity, record.quantity)
                    /\ shrunk.orders = RemoveAt(level.orders, pos)
  <2> DEFINE new == [total_quantity |-> Minus(level.total_quantity, record.quantity),
                    orders         |-> RemoveAt(level.orders, pos)]
  <2>1. new.total_quantity = Minus(level.total_quantity, record.quantity) /\ new.orders = RemoveAt(level.orders, pos)
    OBVIOUS
  <2> HIDE DEF new
  <2> QED
    BY <2>1, Zenon DEF new
<1>8. TotalRight(shrunk)
  BY <1>5, <1>6, <1>7, SumAfterRemove DEF TotalRight
<1>9. levels' = [levels EXCEPT ![side] =
                   IF RemoveAt(level.orders, pos) = << >> THEN Drop(@, price)
                   ELSE Put(@, price, shrunk)]
  BY <1>1, <1>2, <1>3, <1>4, <1>5, <1>7, Zenon DEF remove_existing_order, EraseFrom
<1>10. /\ price \in DOMAIN levels'[side] => levels'[side][price] = shrunk
       /\ \A s \in Side : \A p \in DOMAIN levels'[s] :
            ~(s = side /\ p = price) => p \in DOMAIN levels[s] /\ levels'[s][p] = levels[s][p]
  BY <1>9 DEF Put, Drop, BookInv, ContainersOK
<1> QED
  BY <1>8, <1>10, OneTotalChanges

LEMMA ReduceKeepsTotals ==
  ASSUME BookInv, TotalsAgree, NEW id \in DOMAIN order_lookup, NEW units, NEW left \in Quantity,
         left <= order_lookup[id].quantity, units = order_lookup[id].quantity - left,
         ReduceTo(id, units, left)
  PROVE  TotalsAgree'
<1>1. PICK record \in OrderRecord : record = order_lookup[id]
  BY RecordLeadsToEntry
<1>2. PICK side \in Side : side = record.side
  BY DEF OrderRecord
<1>3. PICK price \in DOMAIN levels[side] : price = record.price
  BY <1>1, <1>2, RecordLeadsToEntry
<1>4. PICK level \in PriceLevel : level = levels[side][price]
  BY <1>1, <1>2, <1>3, RecordLeadsToEntry
<1>5. PICK pos \in 1 .. Len(level.orders) :
        /\ pos = PositionOf(level.orders, record.iterator)
        /\ level.orders[pos].quantity = record.quantity
  BY <1>1, <1>2, <1>3, <1>4, RecordLeadsToEntry
<1>6. level.orders \in Seq(OrderEntry) /\ TotalRight(level)
  BY <1>2, <1>3, <1>4 DEF PriceLevel, TotalsAgree, TotalRight
<1>7. PICK orders : orders = Resized(level.orders, pos, left)
  OBVIOUS
<1>8. WordSum(orders) = Minus(WordSum(level.orders), record.quantity - left)
  <2>1. left <= level.orders[pos].quantity
    BY <1>1, <1>5
  <2> QED
    BY <1>5, <1>6, <1>7, <2>1, SumAfterResize
<1>9. PICK reduced : /\ reduced = [total_quantity |-> Minus(level.total_quantity, units),
                                   orders         |-> orders]
                     /\ reduced.total_quantity = Minus(level.total_quantity, units)
                     /\ reduced.orders = orders
  <2> DEFINE new == [total_quantity |-> Minus(level.total_quantity, units), orders |-> orders]
  <2>1. new.total_quantity = Minus(level.total_quantity, units) /\ new.orders = orders
    OBVIOUS
  <2> HIDE DEF new
  <2> QED
    BY <2>1, Zenon DEF new
<1>10. TotalRight(reduced)
  BY <1>1, <1>6, <1>8, <1>9 DEF TotalRight
<1>11. levels' = [levels EXCEPT ![side][price] = reduced]
  BY <1>1, <1>2, <1>3, <1>4, <1>5, <1>7, <1>9, Zenon DEF ReduceTo, Resized
<1>12. /\ levels'[side][price] = reduced
       /\ \A s \in Side : \A p \in DOMAIN levels'[s] :
            ~(s = side /\ p = price) => p \in DOMAIN levels[s] /\ levels'[s][p] = levels[s][p]
  BY <1>11 DEF BookInv, ContainersOK
<1> QED
  BY <1>10, <1>12, OneTotalChanges

LEMMA TotalsKept == BookInv /\ TotalsAgree /\ [Next]_vars => TotalsAgree'
<1> SUFFICES ASSUME BookInv, TotalsAgree, [Next]_vars PROVE TotalsAgree'
  OBVIOUS
<1>1. ASSUME UNCHANGED levels PROVE TotalsAgree'
  BY <1>1 DEF TotalsAgree
<1>2. ASSUME NEW id \in DOMAIN order_lookup
      PROVE  order_lookup[id].quantity \in Quantity
  BY DEF BookInv, ContainersOK, IsMap, OrderRecord
<1>3. CASE \E id \in OrderId, side \in Side, price \in Price, quantity \in Quantity,
              timestamp \in Timestamp : add_order(id, side, price, quantity, timestamp)
  BY <1>1, <1>3, AddKeepsTotals DEF add_order, Reject
<1>4. CASE \E id \in OrderId : cancel_order(id)
  BY <1>1, <1>4, RemoveKeepsTotals DEF cancel_order, Reject
<1>5. ASSUME NEW id \in OrderId, NEW quantity \in Quantity, modify_order(id, quantity)
      PROVE  TotalsAgree'
  <2>1. CASE UNCHANGED levels
    BY <1>1, <2>1
  <2>2. CASE /\ id \in DOMAIN order_lookup /\ quantity < order_lookup[id].quantity
             /\ ReduceTo(id, order_lookup[id].quantity - quantity, quantity)
    <3>1. quantity <= order_lookup[id].quantity
      BY <1>2, <2>2, WordAssumption DEF Quantity
    <3> QED
      BY <2>2, <3>1, ReduceKeepsTotals
  <2> QED
    BY <1>5, <2>1, <2>2 DEF modify_order, Reject
<1>6. ASSUME NEW id \in OrderId, NEW quantity \in Quantity, execute_order(id, quantity)
      PROVE  TotalsAgree'
  <2>1. CASE UNCHANGED levels
    BY <1>1, <2>1
  <2>2. CASE id \in DOMAIN order_lookup /\ remove_existing_order(id)
    BY <2>2, RemoveKeepsTotals
  <2>3. CASE /\ id \in DOMAIN order_lookup /\ quantity < order_lookup[id].quantity
             /\ ReduceTo(id, quantity, order_lookup[id].quantity - quantity)
    <3>1. PICK open \in Quantity : open = order_lookup[id].quantity
      BY <1>2, <2>3
    <3>2. PICK left \in Quantity : left = open - quantity
      BY <2>3, <3>1, WordAssumption DEF Quantity
    <3>3. left <= open /\ quantity = open - left
      BY <3>2, WordAssumption DEF Quantity
    <3>4. ReduceTo(id, quantity, left)
      BY <2>3, <3>1, <3>2, Zenon
    <3> QED
      BY <2>3, <3>1, <3>3, <3>4, ReduceKeepsTotals
  <2> QED
    BY <1>6, <2>1, <2>2, <2>3 DEF execute_order, Reject
<1>7. CASE clear
  BY <1>7 DEF clear, NoEntries, TotalsAgree
<1>8. CASE UNCHANGED vars
  BY <1>1, <1>8 DEF vars
<1> QED
  BY <1>3, <1>4, <1>5, <1>6, <1>7, <1>8 DEF Next

\* validate_invariants(true), which replay_file calls after each event when
\* asked to, never reports a book that the operations have built, totals that
\* have wrapped around included.
THEOREM ValidationAccepts == Spec => []BookValid
<1>1. Init => TotalsAgree
  BY DEF Init, NoEntries, TotalsAgree
<1>2. BookInv /\ TotalsAgree => BookValid
  <2> SUFFICES ASSUME BookInv, TotalsAgree PROVE BookValid
    OBVIOUS
  <2>1. \A s \in Side : (DOMAIN levels[s] = {}) = (top_of_book[s] = << >>)
    BY DEF top_of_book
  <2> QED
    BY <2>1 DEF BookInv, IndexConsistent, BookValid, validate_invariants
<1>3. IInv => BookInv
  BY DEF IInv
<1> QED
  BY <1>1, <1>2, <1>3, TotalsKept, InitEstablishesInv, NextPreservesInv, PTL DEF Spec

-----------------------------------------------------------------------------
(* What a caller relies on *)

\* The refinement mapping: the queue of orders at every side and price.
Queues == [s \in Side |-> [p \in Price |-> LevelAt(s, p).orders]]

\* A level map read as queues.
LEMMA QueueTyping ==
  ASSUME BookInv, NEW s \in Side, NEW p \in Price
  PROVE  /\ LevelAt(s, p).orders \in Seq(OrderEntry)
         /\ Queues[s][p] = LevelAt(s, p).orders
<1>1. CASE p \in DOMAIN levels[s]
  BY <1>1 DEF LevelAt, BookInv, ContainersOK, IsMap, PriceLevel, Queues
<1>2. CASE p \notin DOMAIN levels[s]
  BY <1>2 DEF LevelAt, EmptyLevel, Queues
<1> QED
  BY <1>1, <1>2

\* The queues after a step that touches one level only.
LEMMA OneQueueChanges ==
  ASSUME NEW side \in Side, NEW price \in Price, NEW queue,
         LevelAt(side, price)'.orders = queue,
         \A s \in Side, p \in Price :
           ~(s = side /\ p = price) => LevelAt(s, p)'.orders = LevelAt(s, p).orders
  PROVE  Queues' = [Queues EXCEPT ![side][price] = queue]
<1> DEFINE new == [Queues EXCEPT ![side][price] = queue]
<1>1. Queues' = [s \in Side |-> [p \in Price |-> LevelAt(s, p)'.orders]]
  BY DEF Queues
<1>2. ASSUME NEW s \in Side
      PROVE  new[s] = [p \in Price |-> LevelAt(s, p)'.orders]
  <2>1. CASE s = side
    <3>1. new[s] = [Queues[side] EXCEPT ![price] = queue]
      BY <2>1 DEF Queues
    <3>2. Queues[side] = [p \in Price |-> LevelAt(side, p).orders]
      BY DEF Queues
    <3> HIDE DEF new
    <3>3. \A p \in Price : new[s][p] = LevelAt(side, p)'.orders
      BY <3>1, <3>2
    <3> QED
      BY <2>1, <3>1, <3>2, <3>3
  <2>2. CASE s # side
    <3>1. new[s] = [p \in Price |-> LevelAt(s, p).orders]
      BY <2>2 DEF Queues
    <3>2. \A p \in Price : LevelAt(s, p)'.orders = LevelAt(s, p).orders
      BY <2>2
    <3> QED
      BY <3>1, <3>2
  <2> QED
    BY <2>1, <2>2
<1>3. new = [s \in Side |-> new[s]]
  BY DEF Queues
<1> HIDE DEF new
<1>4. Queues' = new
  BY <1>1, <1>2, <1>3
<1> QED
  BY <1>4 DEF new

LEMMA QueuesShape == DOMAIN Queues = Side /\ \A s \in Side : DOMAIN Queues[s] = Price
BY DEF Queues

\* add_order appends to the queue of its side and price and to no other.
LEMMA InsertAppends ==
  ASSUME BookInv,
         NEW id \in OrderId, NEW side \in Side, NEW price \in Price,
         NEW quantity \in Quantity, NEW timestamp \in Timestamp,
         InsertOrder(id, side, price, quantity, timestamp)
  PROVE  Queues' = [Queues EXCEPT ![side][price] =
                      Append(Queues[side][price],
                             [order_id |-> id, timestamp |-> timestamp,
                              quantity |-> quantity])]
<1> DEFINE entry == [order_id |-> id, timestamp |-> timestamp, quantity |-> quantity]
<1>1. LevelAt(side, price)'.orders = Append(LevelAt(side, price).orders, entry)
  BY DEF InsertOrder, Put, PushBack, LevelAt, BookInv, ContainersOK
<1>2. ASSUME NEW s \in Side, NEW p \in Price, ~(s = side /\ p = price)
      PROVE  LevelAt(s, p)'.orders = LevelAt(s, p).orders
  BY <1>2 DEF InsertOrder, Put, LevelAt, BookInv, ContainersOK
<1>3. Queues[side][price] = LevelAt(side, price).orders
  BY DEF Queues
<1> HIDE DEF entry
<1>4. Queues' = [Queues EXCEPT ![side][price] = Append(Queues[side][price], entry)]
  BY <1>1, <1>2, <1>3, OneQueueChanges
<1> QED
  BY <1>4 DEF entry

\* The record of a live order leads to its place in the queues.
LEMMA RecordLeadsToPlace ==
  ASSUME BookInv, NEW id \in DOMAIN order_lookup
  PROVE  LET record == order_lookup[id]
             queue  == Queues[record.side][record.price]
             pos    == PositionOf(levels[record.side][record.price].orders, record.iterator)
         IN  /\ record.side \in Side /\ record.price \in Price
             /\ queue = levels[record.side][record.price].orders
             /\ pos \in DOMAIN queue
             /\ queue[pos].order_id = id
             /\ queue[pos].quantity = record.quantity
<1>1. /\ order_lookup[id] \in OrderRecord
      /\ order_lookup[id].side \in Side /\ order_lookup[id].price \in Price
  BY RecordLeadsToEntry DEF OrderRecord
<1>2. LevelAt(order_lookup[id].side, order_lookup[id].price)
        = levels[order_lookup[id].side][order_lookup[id].price]
  BY RecordLeadsToEntry DEF LevelAt
<1>3. PICK queue \in Seq(OrderEntry) :
        /\ queue = Queues[order_lookup[id].side][order_lookup[id].price]
        /\ queue = levels[order_lookup[id].side][order_lookup[id].price].orders
  BY <1>1, <1>2, QueueTyping
<1>4. PICK pos \in 1 .. Len(queue) :
        /\ pos = PositionOf(queue, order_lookup[id].iterator)
        /\ queue[pos].order_id = id /\ queue[pos].quantity = order_lookup[id].quantity
  BY <1>3, RecordLeadsToEntry
<1>5. pos \in DOMAIN queue
  BY <1>4, LenProperties
<1> QED
  BY <1>1, <1>3, <1>4, <1>5, Zenon

\* Removal takes the order out of its queue and leaves the others.
LEMMA RemoveTakesOut ==
  ASSUME BookInv, NEW id \in DOMAIN order_lookup, remove_existing_order(id),
         NEW side \in Side, NEW price \in Price, NEW pos,
         side = order_lookup[id].side, price = order_lookup[id].price,
         pos = PositionOf(levels[side][price].orders, order_lookup[id].iterator)
  PROVE  Queues' = [Queues EXCEPT ![side][price] = RemoveAt(Queues[side][price], pos)]
<1> DEFINE orders == levels[side][price].orders
           rest   == RemoveAt(orders, pos)
           total  == Minus(levels[side][price].total_quantity, order_lookup[id].quantity)
<1>1. price \in DOMAIN levels[side]
  BY RecordLeadsToEntry
<1>2. /\ levels'[side] = IF rest = << >> THEN Drop(levels[side], price)
                         ELSE Put(levels[side], price,
                                  [total_quantity |-> total, orders |-> rest])
      /\ \A s \in Side : s # side => levels'[s] = levels[s]
  BY DEF remove_existing_order, EraseFrom, BookInv, ContainersOK
<1>3. LevelAt(side, price).orders = orders /\ Queues[side][price] = orders
  BY <1>1 DEF LevelAt, Queues
<1> HIDE DEF orders, rest, total
<1>4. LevelAt(side, price)'.orders = rest
  <2>1. CASE rest = << >>
    BY <1>2, <2>1 DEF Drop, LevelAt, EmptyLevel
  <2>2. CASE rest # << >>
    BY <1>2, <2>2 DEF Put, LevelAt
  <2> QED
    BY <2>1, <2>2
<1>5. ASSUME NEW s \in Side, NEW p \in Price, ~(s = side /\ p = price)
      PROVE  LevelAt(s, p)'.orders = LevelAt(s, p).orders
  BY <1>2, <1>5 DEF Put, Drop, LevelAt
<1>6. Queues' = [Queues EXCEPT ![side][price] = rest]
  BY <1>4, <1>5, OneQueueChanges
<1> QED
  BY <1>3, <1>6 DEF rest

\* A reduction changes one quantity and moves nobody.
LEMMA ReduceResizes ==
  ASSUME BookInv, NEW id \in DOMAIN order_lookup, NEW units, NEW left,
         ReduceTo(id, units, left),
         NEW side \in Side, NEW price \in Price, NEW pos,
         side = order_lookup[id].side, price = order_lookup[id].price,
         pos = PositionOf(levels[side][price].orders, order_lookup[id].iterator)
  PROVE  Queues' = [Queues EXCEPT ![side][price] = Resized(Queues[side][price], pos, left)]
<1> DEFINE orders  == levels[side][price].orders
           resized == [orders EXCEPT ![pos].quantity = left]
           total   == Minus(levels[side][price].total_quantity, units)
<1>1. price \in DOMAIN levels[side]
  BY RecordLeadsToEntry
<1>2. levels' = [levels EXCEPT ![side][price] =
                   [total_quantity |-> total, orders |-> resized]]
  BY DEF ReduceTo
<1>3. LevelAt(side, price).orders = orders /\ Queues[side][price] = orders
  BY <1>1 DEF LevelAt, Queues
<1> HIDE DEF orders, resized, total
<1>4. /\ DOMAIN levels'[side] = DOMAIN levels[side]
      /\ levels'[side][price].orders = resized
      /\ \A p \in DOMAIN levels[side] : p # price => levels'[side][p] = levels[side][p]
      /\ \A s \in Side : s # side => levels'[s] = levels[s]
  BY <1>1, <1>2 DEF BookInv, ContainersOK
<1>5. LevelAt(side, price)'.orders = resized
  BY <1>1, <1>4 DEF LevelAt
<1>6. ASSUME NEW s \in Side, NEW p \in Price, ~(s = side /\ p = price)
      PROVE  LevelAt(s, p)'.orders = LevelAt(s, p).orders
  BY <1>4, <1>6 DEF LevelAt
<1>7. Queues' = [Queues EXCEPT ![side][price] = resized]
  BY <1>5, <1>6, OneQueueChanges
<1> QED
  BY <1>3, <1>7, Zenon DEF resized, Resized

\* Setting a quantity to what it is changes nothing.
LEMMA ResizeToSame ==
  ASSUME BookInv, NEW s \in Side, NEW p \in Price, NEW i \in DOMAIN Queues[s][p],
         NEW q, Queues[s][p][i].quantity = q
  PROVE  Queues = [Queues EXCEPT ![s][p] = Resized(Queues[s][p], i, q)]
<1> DEFINE queue == Queues[s][p]
           entry == [queue[i] EXCEPT !.quantity = q]
<1>1. queue \in Seq(OrderEntry) /\ queue[i] \in OrderEntry
  BY QueueTyping, ElementOfSeq, LenProperties
<1>2. entry = queue[i]
  BY <1>1 DEF OrderEntry
<1>3. Resized(queue, i, q) = [queue EXCEPT ![i] = entry]
  BY Zenon DEF Resized
<1> HIDE DEF entry, queue
<1>4. [queue EXCEPT ![i] = entry] = queue
  BY <1>1, <1>2, LenProperties
<1>5. Queues = [Queues EXCEPT ![s][p] = queue]
  BY DEF Queues, queue
<1> QED
  BY <1>3, <1>4, <1>5, Zenon DEF queue

-----------------------------------------------------------------------------
(* The book implements the price-time book *)

\* The abstract book's vocabulary is the book's own.
LEMMA SameVocabulary ==
  /\ Abstract!Side = Side /\ Abstract!Quantity = Quantity
  /\ \A a, b : Abstract!Plus(a, b) = Plus(a, b)
  /\ \A q : Abstract!IdsOf(q) = IdsOf(q)
  /\ \A f : Abstract!Range(f) = Range(f)
  /\ \A q, i : Abstract!RemoveAt(q, i) = RemoveAt(q, i)
BY DEF Abstract!Side, Side, Abstract!Quantity, Quantity, Abstract!Plus, Plus,
       Abstract!IdsOf, IdsOf, Abstract!Range, Range, Abstract!RemoveAt, RemoveAt

LEMMA SameCardinality == \A S : Abstract!Cardinality(S) = Cardinality(S)
BY DEF Abstract!Cardinality, Cardinality

\* The identifiers resting in the queues are the ones the index holds.
LEMMA LiveIdsAreIndexed ==
  ASSUME BookInv
  PROVE  Abstract!LiveIds = DOMAIN order_lookup
<1>1. ASSUME NEW s \in Side, NEW p \in Price,
             NEW x \in Range(IdsOf(LevelAt(s, p).orders))
      PROVE  x \in DOMAIN order_lookup
  <2>1. PICK i \in 1 .. Len(LevelAt(s, p).orders) : x = LevelAt(s, p).orders[i].order_id
    BY <1>1 DEF Range, IdsOf
  <2>2. p \in DOMAIN levels[s] /\ LevelAt(s, p) = levels[s][p]
    BY <2>1 DEF LevelAt, EmptyLevel
  <2>3. i \in DOMAIN levels[s][p].orders
    BY <2>1, <2>2, QueueTyping, LenProperties
  <2>4. EntryAgrees(s, p, levels[s][p].orders[i])
    BY <2>2, <2>3 DEF BookInv, IndexConsistent, LevelsAgree
  <2> QED
    BY <2>1, <2>2, <2>4 DEF EntryAgrees
<1>2. ASSUME NEW x \in DOMAIN order_lookup
      PROVE  \E s \in Side, p \in Price : x \in Range(IdsOf(LevelAt(s, p).orders))
  <2>1. PICK s \in Side, p \in Price :
          /\ p \in DOMAIN levels[s]
          /\ \E i \in DOMAIN levels[s][p].orders : levels[s][p].orders[i].order_id = x
    BY DEF BookInv, IndexConsistent, IndexComplete, ContainersOK, IsMap
  <2>2. PICK i \in DOMAIN levels[s][p].orders : levels[s][p].orders[i].order_id = x
    BY <2>1
  <2>3. LevelAt(s, p) = levels[s][p]
    BY <2>1 DEF LevelAt
  <2>4. i \in 1 .. Len(LevelAt(s, p).orders)
    BY <2>2, <2>3, QueueTyping, LenProperties
  <2> QED
    BY <2>2, <2>3, <2>4 DEF Range, IdsOf
<1>3. \A s \in Side, p \in Price : Queues[s][p] = LevelAt(s, p).orders
  BY DEF Queues
<1>4. Abstract!LiveIds = UNION {Abstract!Range(Abstract!IdsOf(Queues[s][p])) :
                                  s \in Abstract!Side, p \in Price}
  BY DEF Abstract!LiveIds, Queues
<1>5. ASSUME NEW x
      PROVE  x \in Abstract!LiveIds
               <=> \E s \in Side, p \in Price : x \in Range(IdsOf(LevelAt(s, p).orders))
  BY <1>3, <1>4, SameVocabulary
<1>6. \A x : x \in Abstract!LiveIds <=> x \in DOMAIN order_lookup
  BY <1>1, <1>2, <1>5
<1> QED
  BY <1>6

\* An identifier that is not live leaves room for its order.
LEMMA NeverFull ==
  ASSUME BookInv, NEW id \in OrderId, id \notin DOMAIN order_lookup
  PROVE  ~Abstract!Full
<1>1. DOMAIN order_lookup \subseteq OrderId
  BY DEF BookInv, ContainersOK, IsMap
<1>2. /\ Cardinality(DOMAIN order_lookup) < Cardinality(OrderId)
      /\ Cardinality(DOMAIN order_lookup) \in Nat /\ Cardinality(OrderId) \in Nat
  BY <1>1, OrderIdAssumption, FS_Subset, FS_CardinalityType
<1> QED
  BY <1>2, LiveIdsAreIndexed, SameCardinality DEF Abstract!Full

LEMMA RejectMaps ==
  ASSUME NEW res, Reject(res)
  PROVE  Abstract!Reject(res)
BY DEF Reject, Abstract!Reject, LevelAt

LEMMA AppliedMaps == Applied => Abstract!Applied
BY SameVocabulary DEF Applied, Abstract!Applied

LEMMA AddMaps ==
  ASSUME BookInv,
         NEW id \in OrderId, NEW side \in Side, NEW price \in Price,
         NEW quantity \in Quantity, NEW timestamp \in Timestamp,
         add_order(id, side, price, quantity, timestamp)
  PROVE  Abstract!Add(id, side, price, quantity, timestamp)
<1>1. CASE quantity = 0 /\ Reject("InvalidQuantity")
  BY <1>1, RejectMaps DEF Abstract!Add
<1>2. CASE quantity # 0 /\ id \in DOMAIN order_lookup /\ Reject("DuplicateOrderId")
  BY <1>2, RejectMaps, LiveIdsAreIndexed DEF Abstract!Add
<1>3. CASE /\ quantity # 0 /\ id \notin DOMAIN order_lookup
           /\ InsertOrder(id, side, price, quantity, timestamp) /\ Applied
  <2>1. Queues' = [Queues EXCEPT ![side][price] =
                     Append(Queues[side][price],
                            [order_id |-> id, timestamp |-> timestamp,
                             quantity |-> quantity])]
    BY <1>3, InsertAppends
  <2>2. Abstract!Applied /\ id \notin Abstract!LiveIds /\ ~Abstract!Full
    BY <1>3, AppliedMaps, LiveIdsAreIndexed, NeverFull
  <2> QED
    BY <1>3, <2>1, <2>2, Zenon DEF Abstract!Add, Queues
<1> QED
  BY <1>1, <1>2, <1>3 DEF add_order

\* A removal of the book is a departure of the price-time book, a reduction
\* a change of size in place, both where the order stands.
LEMMA RemoveMaps ==
  ASSUME BookInv, NEW id \in DOMAIN order_lookup, remove_existing_order(id)
  PROVE  \E s \in Side, p \in Price : \E i \in DOMAIN Queues[s][p] :
           /\ Queues[s][p][i].order_id = id
           /\ Queues[s][p][i].quantity = order_lookup[id].quantity
           /\ Abstract!Leave(s, p, i)
<1>1. PICK s \in Side, p \in Price : s = order_lookup[id].side /\ p = order_lookup[id].price
  BY RecordLeadsToPlace
<1>2. PICK i : i = PositionOf(levels[s][p].orders, order_lookup[id].iterator)
  OBVIOUS
<1>3. /\ i \in DOMAIN Queues[s][p] /\ Queues[s][p][i].order_id = id
      /\ Queues[s][p][i].quantity = order_lookup[id].quantity
  BY <1>1, <1>2, RecordLeadsToPlace
<1>4. Queues' = [Queues EXCEPT ![s][p] = RemoveAt(Queues[s][p], i)]
  BY <1>1, <1>2, RemoveTakesOut
<1>5. Abstract!Leave(s, p, i)
  BY <1>4, SameVocabulary, Zenon DEF Abstract!Leave, Queues
<1> QED
  BY <1>3, <1>5

LEMMA ReduceMaps ==
  ASSUME BookInv, NEW id \in DOMAIN order_lookup, NEW units, NEW left,
         ReduceTo(id, units, left)
  PROVE  \E s \in Side, p \in Price : \E i \in DOMAIN Queues[s][p] :
           /\ Queues[s][p][i].order_id = id
           /\ Queues[s][p][i].quantity = order_lookup[id].quantity
           /\ Abstract!Resize(s, p, i, left)
<1>1. PICK s \in Side, p \in Price : s = order_lookup[id].side /\ p = order_lookup[id].price
  BY RecordLeadsToPlace
<1>2. PICK i : i = PositionOf(levels[s][p].orders, order_lookup[id].iterator)
  OBVIOUS
<1>3. /\ i \in DOMAIN Queues[s][p] /\ Queues[s][p][i].order_id = id
      /\ Queues[s][p][i].quantity = order_lookup[id].quantity
  BY <1>1, <1>2, RecordLeadsToPlace
<1>4. Queues' = [Queues EXCEPT ![s][p] = Resized(Queues[s][p], i, left)]
  BY <1>1, <1>2, ReduceResizes
<1>5. Abstract!Resize(s, p, i, left)
  BY <1>4, Zenon DEF Abstract!Resize, Queues, Resized
<1> QED
  BY <1>3, <1>5

\* The place of a live order, for the calls that refuse it.
LEMMA LivePlace ==
  ASSUME BookInv, NEW id \in DOMAIN order_lookup
  PROVE  \E s \in Side, p \in Price : \E i \in DOMAIN Queues[s][p] :
           /\ Queues[s][p][i].order_id = id
           /\ Queues[s][p][i].quantity = order_lookup[id].quantity
<1>1. PICK s \in Side, p \in Price : s = order_lookup[id].side /\ p = order_lookup[id].price
  BY RecordLeadsToPlace
<1>2. PICK i : i = PositionOf(levels[s][p].orders, order_lookup[id].iterator)
  OBVIOUS
<1>3. /\ i \in DOMAIN Queues[s][p] /\ Queues[s][p][i].order_id = id
      /\ Queues[s][p][i].quantity = order_lookup[id].quantity
  BY <1>1, <1>2, RecordLeadsToPlace
<1> QED
  BY <1>3

LEMMA CancelMaps ==
  ASSUME BookInv, NEW id \in OrderId, cancel_order(id)
  PROVE  Abstract!Cancel(id)
<1>1. CASE id \notin DOMAIN order_lookup /\ Reject("MissingOrderId")
  BY <1>1, RejectMaps, LiveIdsAreIndexed, Zenon DEF Abstract!Cancel
<1>2. CASE id \in DOMAIN order_lookup /\ remove_existing_order(id) /\ Applied
  <2>1. \E s \in Side, p \in Price : \E i \in DOMAIN Queues[s][p] :
          Queues[s][p][i].order_id = id /\ Abstract!Leave(s, p, i)
    BY <1>2, RemoveMaps
  <2> QED
    BY <1>2, <2>1, AppliedMaps, SameVocabulary, Zenon
       DEF Abstract!Cancel, Abstract!AtOrder, Queues
<1> QED
  BY <1>1, <1>2 DEF cancel_order

LEMMA ModifyMaps ==
  ASSUME BookInv, NEW id \in OrderId, NEW new \in Quantity, modify_order(id, new)
  PROVE  Abstract!Modify(id, new)
<1>1. CASE new = 0 /\ Reject("InvalidQuantity")
  BY <1>1, RejectMaps, Zenon DEF Abstract!Modify
<1>2. CASE new # 0 /\ id \notin DOMAIN order_lookup /\ Reject("MissingOrderId")
  BY <1>2, RejectMaps, LiveIdsAreIndexed, Zenon DEF Abstract!Modify
<1>3. CASE /\ id \in DOMAIN order_lookup
           /\ new > order_lookup[id].quantity /\ Reject("UnsupportedModify")
  <2>1. \E s \in Side, p \in Price : \E i \in DOMAIN Queues[s][p] :
          Queues[s][p][i].order_id = id /\ new > Queues[s][p][i].quantity
    BY <1>3, LivePlace
  <2> QED
    BY <1>3, <2>1, RejectMaps, SameVocabulary, Zenon
       DEF Abstract!Modify, Abstract!AtOrder, Queues
<1>4. CASE /\ new # 0 /\ id \in DOMAIN order_lookup
           /\ new = order_lookup[id].quantity
           /\ Applied /\ UNCHANGED <<levels, order_lookup>>
  <2>1. PICK s \in Side, p \in Price : \E i \in DOMAIN Queues[s][p] :
          Queues[s][p][i].order_id = id /\ Queues[s][p][i].quantity = new
    BY <1>4, LivePlace
  <2>2. PICK i \in DOMAIN Queues[s][p] :
          Queues[s][p][i].order_id = id /\ Queues[s][p][i].quantity = new
    BY <2>1
  <2>3. new <= Queues[s][p][i].quantity
    BY <2>2, WordAssumption DEF Quantity
  <2>4. Queues' = Queues
    BY <1>4 DEF Queues, LevelAt
  <2>5. Queues = [Queues EXCEPT ![s][p] = Resized(Queues[s][p], i, new)]
    BY <2>2, ResizeToSame
  <2>6. Abstract!Resize(s, p, i, new)
    BY <2>4, <2>5, Zenon DEF Abstract!Resize, Queues, Resized
  <2> QED
    BY <1>4, <2>2, <2>3, <2>6, AppliedMaps, SameVocabulary, Zenon
       DEF Abstract!Modify, Abstract!AtOrder, Queues
<1>5. CASE /\ new # 0 /\ id \in DOMAIN order_lookup
           /\ new < order_lookup[id].quantity
           /\ ReduceTo(id, order_lookup[id].quantity - new, new) /\ Applied
  <2>1. order_lookup[id].quantity \in Quantity
    BY <1>5 DEF BookInv, ContainersOK, IsMap, OrderRecord
  <2>2. new <= order_lookup[id].quantity
    BY <1>5, <2>1, WordAssumption DEF Quantity
  <2>3. \E s \in Side, p \in Price : \E i \in DOMAIN Queues[s][p] :
          /\ Queues[s][p][i].order_id = id
          /\ new <= Queues[s][p][i].quantity /\ Abstract!Resize(s, p, i, new)
    BY <1>5, <2>2, ReduceMaps, Zenon
  <2> QED
    BY <1>5, <2>3, AppliedMaps, SameVocabulary, Zenon
       DEF Abstract!Modify, Abstract!AtOrder, Queues
<1> QED
  BY <1>1, <1>2, <1>3, <1>4, <1>5 DEF modify_order

LEMMA ExecuteMaps ==
  ASSUME BookInv, NEW id \in OrderId, NEW executed \in Quantity, execute_order(id, executed)
  PROVE  Abstract!Execute(id, executed)
<1>1. CASE executed = 0 /\ Reject("InvalidQuantity")
  BY <1>1, RejectMaps, Zenon DEF Abstract!Execute
<1>2. CASE executed # 0 /\ id \notin DOMAIN order_lookup /\ Reject("MissingOrderId")
  BY <1>2, RejectMaps, LiveIdsAreIndexed, Zenon DEF Abstract!Execute
<1>3. CASE /\ id \in DOMAIN order_lookup
           /\ executed > order_lookup[id].quantity /\ Reject("InsufficientQuantity")
  <2>1. \E s \in Side, p \in Price : \E i \in DOMAIN Queues[s][p] :
          Queues[s][p][i].order_id = id /\ executed > Queues[s][p][i].quantity
    BY <1>3, LivePlace
  <2> QED
    BY <1>3, <2>1, RejectMaps, SameVocabulary, Zenon
       DEF Abstract!Execute, Abstract!AtOrder, Queues
<1>4. CASE /\ executed # 0 /\ id \in DOMAIN order_lookup
           /\ executed = order_lookup[id].quantity
           /\ remove_existing_order(id) /\ Applied
  <2>1. \E s \in Side, p \in Price : \E i \in DOMAIN Queues[s][p] :
          /\ Queues[s][p][i].order_id = id
          /\ executed = Queues[s][p][i].quantity /\ Abstract!Leave(s, p, i)
    BY <1>4, RemoveMaps, Zenon
  <2> QED
    BY <1>4, <2>1, AppliedMaps, SameVocabulary, Zenon
       DEF Abstract!Execute, Abstract!AtOrder, Queues
<1>5. CASE /\ executed # 0 /\ id \in DOMAIN order_lookup
           /\ executed < order_lookup[id].quantity
           /\ ReduceTo(id, executed, order_lookup[id].quantity - executed) /\ Applied
  <2>1. \E s \in Side, p \in Price : \E i \in DOMAIN Queues[s][p] :
          /\ Queues[s][p][i].order_id = id
          /\ Queues[s][p][i].quantity = order_lookup[id].quantity
          /\ Abstract!Resize(s, p, i, order_lookup[id].quantity - executed)
    BY <1>5, ReduceMaps, Zenon
  <2>2. \E s \in Side, p \in Price : \E i \in DOMAIN Queues[s][p] :
          /\ Queues[s][p][i].order_id = id
          /\ executed < Queues[s][p][i].quantity
          /\ Abstract!Resize(s, p, i, Queues[s][p][i].quantity - executed)
    BY <1>5, <2>1, Zenon
  <2> QED
    BY <1>5, <2>2, AppliedMaps, SameVocabulary, Zenon
       DEF Abstract!Execute, Abstract!AtOrder, Queues
<1> QED
  BY <1>1, <1>2, <1>3, <1>4, <1>5 DEF execute_order

LEMMA ClearMaps == clear => Abstract!Clear
BY SameVocabulary DEF clear, Abstract!Clear, LevelAt, EmptyLevel, NoEntries

LEMMA StepMaps == IInv /\ [Next]_vars => [Abstract!Next]_(Abstract!vars)
<1> SUFFICES ASSUME BookInv, [Next]_vars PROVE [Abstract!Next]_(Abstract!vars)
  BY DEF IInv
<1>1. CASE \E id \in OrderId, side \in Side, price \in Price, quantity \in Quantity,
              timestamp \in Timestamp : add_order(id, side, price, quantity, timestamp)
  <2>1. PICK id \in OrderId, side \in Side, price \in Price, quantity \in Quantity,
             timestamp \in Timestamp : add_order(id, side, price, quantity, timestamp)
    BY <1>1
  <2>2. Abstract!Add(id, side, price, quantity, timestamp)
    BY <2>1, AddMaps
  <2> QED
    BY <2>2, SameVocabulary, Zenon DEF Abstract!Next
<1>2. CASE \E id \in OrderId : cancel_order(id)
  BY <1>2, CancelMaps, Zenon DEF Abstract!Next
<1>3. CASE \E id \in OrderId, quantity \in Quantity :
             modify_order(id, quantity) \/ execute_order(id, quantity)
  <2>1. \E id \in OrderId, quantity \in Quantity :
          Abstract!Modify(id, quantity) \/ Abstract!Execute(id, quantity)
    BY <1>3, ModifyMaps, ExecuteMaps, Zenon
  <2> QED
    BY <2>1, SameVocabulary, Zenon DEF Abstract!Next
<1>4. CASE clear
  BY <1>4, ClearMaps DEF Abstract!Next
<1>5. CASE UNCHANGED vars
  BY <1>5 DEF vars, Abstract!vars, LevelAt
<1> QED
  BY <1>1, <1>2, <1>3, <1>4, <1>5 DEF Next

\* Hash index, level totals and the erasure of empty levels are invisible: for
\* any word size, prices and identifiers, add_order, cancel_order,
\* modify_order, execute_order and clear are the operations of PriceTimeBook.
THEOREM BookImplementsPriceTimeBook == Spec => ImplementsPriceTimeBook
<1>1. Init => Abstract!Init
  BY SameVocabulary DEF Init, Abstract!Init, LevelAt, EmptyLevel, NoEntries
<1> QED
  BY <1>1, StepMaps, InitEstablishesInv, NextPreservesInv, PTL
     DEF Spec, ImplementsPriceTimeBook, Abstract!Spec

-----------------------------------------------------------------------------
(* Live orders only shrink *)

\* A step that leaves every record but one alone, and takes at most units off
\* that one.
LEMMA OneRecordShrinks ==
  ASSUME BookInv, NEW id,
         \A x \in DOMAIN order_lookup \cap DOMAIN order_lookup' :
           /\ order_lookup'[x].quantity <= order_lookup[x].quantity
           /\ [order_lookup'[x] EXCEPT !.quantity = 0] = [order_lookup[x] EXCEPT !.quantity = 0]
           /\ x # id => order_lookup'[x].quantity = order_lookup[x].quantity
  PROVE  ShrinksOne
<1> DEFINE changed == {x \in DOMAIN order_lookup \cap DOMAIN order_lookup' :
                         order_lookup'[x].quantity # order_lookup[x].quantity}
<1>1. changed \subseteq {id}
  OBVIOUS
<1>2. IsFiniteSet({id}) /\ Cardinality({id}) = 1
  BY FS_Singleton
<1> HIDE DEF changed
<1>3. Cardinality(changed) <= 1
  BY <1>1, <1>2, FS_Subset
<1> QED
  BY <1>3, Zenon DEF ShrinksOne, changed

\* A step that leaves the records it keeps as they are.
LEMMA KeptRecordsShrink ==
  ASSUME BookInv,
         \A x \in DOMAIN order_lookup \cap DOMAIN order_lookup' :
           order_lookup'[x] = order_lookup[x]
  PROVE  ShrinksOne
<1>1. ASSUME NEW x \in DOMAIN order_lookup \cap DOMAIN order_lookup'
      PROVE  /\ order_lookup'[x].quantity <= order_lookup[x].quantity
             /\ [order_lookup'[x] EXCEPT !.quantity = 0] = [order_lookup[x] EXCEPT !.quantity = 0]
             /\ order_lookup'[x].quantity = order_lookup[x].quantity
  <2>1. order_lookup[x].quantity \in Int
    BY WordAssumption DEF BookInv, ContainersOK, IsMap, OrderRecord, Quantity
  <2> QED
    BY <2>1
<1> QED
  BY <1>1, OneRecordShrinks

LEMMA ReduceShrinks ==
  ASSUME BookInv, NEW id \in DOMAIN order_lookup, NEW units, NEW left \in Quantity,
         left <= order_lookup[id].quantity, ReduceTo(id, units, left)
  PROVE  ShrinksOne
<1>1. /\ DOMAIN order_lookup' = DOMAIN order_lookup
      /\ order_lookup'[id] = [order_lookup[id] EXCEPT !.quantity = left]
      /\ \A x \in DOMAIN order_lookup : x # id => order_lookup'[x] = order_lookup[x]
  BY DEF ReduceTo, BookInv, ContainersOK, IsMap
<1>2. order_lookup[id] \in OrderRecord
  BY DEF BookInv, ContainersOK, IsMap
<1>3. /\ order_lookup'[id].quantity = left
      /\ [order_lookup'[id] EXCEPT !.quantity = 0] = [order_lookup[id] EXCEPT !.quantity = 0]
  BY <1>1, <1>2 DEF OrderRecord
<1>4. ASSUME NEW x \in DOMAIN order_lookup \cap DOMAIN order_lookup'
      PROVE  /\ order_lookup'[x].quantity <= order_lookup[x].quantity
             /\ [order_lookup'[x] EXCEPT !.quantity = 0] = [order_lookup[x] EXCEPT !.quantity = 0]
             /\ x # id => order_lookup'[x].quantity = order_lookup[x].quantity
  <2>1. order_lookup[x].quantity \in Int
    BY WordAssumption DEF BookInv, ContainersOK, IsMap, OrderRecord, Quantity
  <2>2. CASE x = id
    BY <1>3, <2>2
  <2>3. CASE x # id
    BY <1>1, <2>1, <2>3
  <2> QED
    BY <2>2, <2>3
<1> QED
  BY <1>4, OneRecordShrinks

LEMMA StepShrinks == IInv /\ [Next]_vars => [ShrinksOne]_vars
<1> SUFFICES ASSUME BookInv, Next PROVE ShrinksOne
  BY DEF IInv
<1>1. ASSUME NEW id \in OrderId, NEW side \in Side, NEW price \in Price,
             NEW quantity \in Quantity, NEW timestamp \in Timestamp,
             add_order(id, side, price, quantity, timestamp)
      PROVE  ShrinksOne
  <2>1. \A x \in DOMAIN order_lookup \cap DOMAIN order_lookup' :
          order_lookup'[x] = order_lookup[x]
    BY <1>1 DEF add_order, Reject, InsertOrder, Put
  <2> QED
    BY <2>1, KeptRecordsShrink
<1>2. ASSUME NEW id \in OrderId, cancel_order(id)
      PROVE  ShrinksOne
  <2>1. \A x \in DOMAIN order_lookup \cap DOMAIN order_lookup' :
          order_lookup'[x] = order_lookup[x]
    BY <1>2 DEF cancel_order, Reject, remove_existing_order, Drop
  <2> QED
    BY <2>1, KeptRecordsShrink
<1>3. ASSUME NEW id \in DOMAIN order_lookup
      PROVE  order_lookup[id].quantity \in Quantity
  BY DEF BookInv, ContainersOK, IsMap, OrderRecord
<1>4. ASSUME NEW id \in OrderId, NEW quantity \in Quantity, modify_order(id, quantity)
      PROVE  ShrinksOne
  <2>1. CASE UNCHANGED order_lookup
    BY <2>1, KeptRecordsShrink
  <2>2. CASE /\ id \in DOMAIN order_lookup /\ quantity < order_lookup[id].quantity
             /\ ReduceTo(id, order_lookup[id].quantity - quantity, quantity)
    <3>1. quantity <= order_lookup[id].quantity
      BY <1>3, <2>2, WordAssumption DEF Quantity
    <3> QED
      BY <2>2, <3>1, ReduceShrinks
  <2> QED
    BY <1>4, <2>1, <2>2 DEF modify_order, Reject
<1>5. ASSUME NEW id \in OrderId, NEW quantity \in Quantity, execute_order(id, quantity)
      PROVE  ShrinksOne
  <2>1. CASE UNCHANGED order_lookup \/ remove_existing_order(id)
    <3>1. \A x \in DOMAIN order_lookup \cap DOMAIN order_lookup' :
            order_lookup'[x] = order_lookup[x]
      BY <2>1 DEF remove_existing_order, Drop
    <3> QED
      BY <3>1, KeptRecordsShrink
  <2>2. CASE /\ id \in DOMAIN order_lookup /\ quantity < order_lookup[id].quantity
             /\ ReduceTo(id, quantity, order_lookup[id].quantity - quantity)
    <3>1. /\ order_lookup[id].quantity - quantity \in Quantity
          /\ order_lookup[id].quantity - quantity <= order_lookup[id].quantity
      BY <1>3, <2>2, WordAssumption DEF Quantity
    <3> QED
      BY <2>2, <3>1, ReduceShrinks
  <2> QED
    BY <1>5, <2>1, <2>2 DEF execute_order, Reject
<1>6. CASE clear
  <2>1. DOMAIN order_lookup' = {}
    BY <1>6 DEF clear, NoEntries
  <2> QED
    BY <2>1, KeptRecordsShrink
<1> QED
  BY <1>1, <1>2, <1>4, <1>5, <1>6 DEF Next

\* However an order is modified, executed against or passed by while it is
\* live, it keeps its side, price and time stamp and never gains a unit.
THEOREM LiveOrdersOnlyShrink == Spec => OrdersOnlyShrink
BY StepShrinks, InitEstablishesInv, NextPreservesInv, PTL DEF Spec, OrdersOnlyShrink

-----------------------------------------------------------------------------
(* Price-time priority *)

\* ids are the order identifiers of queue, in its order, no two the same.
ShowsIds(ids, queue) ==
  /\ queue \in Seq(OrderEntry)
  /\ DOMAIN ids = 1 .. Len(queue)
  /\ \A i \in 1 .. Len(queue) : ids[i] = queue[i].order_id
  /\ \A i, j \in 1 .. Len(queue) : ids[i] = ids[j] => i = j

IdsShown ==
  \A s \in Side, p \in Price : ShowsIds(order_ids_at_price(s, p), Queues[s][p])

LEMMA IdsAreShown == BookInv => IdsShown
<1> SUFFICES ASSUME BookInv, NEW s \in Side, NEW p \in Price
             PROVE  ShowsIds(order_ids_at_price(s, p), Queues[s][p])
  BY DEF IdsShown
<1>1. CASE p \in DOMAIN levels[s]
  <2> DEFINE queue == levels[s][p].orders
  <2>1. queue \in Seq(OrderEntry) /\ Queues[s][p] = queue
    BY <1>1, QueueTyping DEF LevelAt
  <2>2. DOMAIN queue = 1 .. Len(queue)
    BY <2>1, LenProperties
  <2>3. order_ids_at_price(s, p) = IdsOf(queue)
    BY <1>1 DEF order_ids_at_price
  <2>4. \A i, j \in 1 .. Len(queue) : queue[i].order_id = queue[j].order_id => i = j
    BY <1>1, <2>2 DEF BookInv, IndexConsistent, IdsUnique
  <2> HIDE DEF queue
  <2> QED
    BY <2>1, <2>3, <2>4 DEF ShowsIds, IdsOf
<1>2. CASE p \notin DOMAIN levels[s]
  <2>1. order_ids_at_price(s, p) = << >> /\ Queues[s][p] = << >>
    BY <1>2, QueueTyping DEF order_ids_at_price, LevelAt, EmptyLevel
  <2> QED
    BY <2>1 DEF ShowsIds
<1> QED
  BY <1>1, <1>2

LEMMA IdsAreShownNext == BookInv' => IdsShown'
BY IdsAreShown, PTL

\* A queue whose orders all keep their identifiers keeps its turns.
LEMMA SameIdsKeepTurns ==
  ASSUME NEW before, NEW after, NEW queue, NEW next,
         ShowsIds(before, queue), ShowsIds(after, next),
         Len(next) = Len(queue),
         \A i \in 1 .. Len(queue) : next[i].order_id = queue[i].order_id
  PROVE  KeepsTurns(before, after)
<1>1. Len(queue) \in Nat
  BY LenProperties DEF ShowsIds
<1>2. DOMAIN before = 1 .. Len(queue) /\ DOMAIN after = 1 .. Len(queue)
  BY DEF ShowsIds
<1>3. \A i \in 1 .. Len(queue) : after[i] = before[i] /\ after[i] \in Range(before)
  BY <1>2 DEF ShowsIds, Range
<1>4. ASSUME NEW j \in 1 .. Len(queue), NEW l \in 1 .. Len(queue), after[j] = before[l],
             NEW i \in 1 .. (j - 1)
      PROVE  \E k \in 1 .. (l - 1) : before[k] = after[i]
  <2>1. l = j
    BY <1>3, <1>4 DEF ShowsIds
  <2>2. i \in 1 .. Len(queue)
    BY <1>1
  <2> QED
    BY <1>3, <2>1, <2>2
<1>5. \A j \in DOMAIN after, l \in DOMAIN before :
        after[j] = before[l] =>
          \A i \in 1 .. (j - 1) : \E k \in 1 .. (l - 1) : before[k] = after[i]
  BY <1>2, <1>4, Zenon
<1>6. \A i, j \in DOMAIN after : {after[i], after[j]} \cap Range(before) # {}
  BY <1>2, <1>3
<1> QED
  BY <1>5, <1>6, Zenon DEF KeepsTurns

\* An order appended to its queue stands last.
LEMMA AppendKeepsTurns ==
  ASSUME NEW before, NEW after, NEW queue, NEW entry \in OrderEntry,
         ShowsIds(before, queue), ShowsIds(after, Append(queue, entry))
  PROVE  KeepsTurns(before, after)
<1> DEFINE n == Len(queue)
<1>1. n \in Nat /\ DOMAIN before = 1 .. n
  BY LenProperties DEF ShowsIds
<1>2. /\ Len(Append(queue, entry)) = n + 1
      /\ \A i \in 1 .. n : Append(queue, entry)[i] = queue[i]
  BY AppendProperties DEF ShowsIds
<1> HIDE DEF n
<1>3. DOMAIN after = 1 .. (n + 1) /\ \A i \in 1 .. n : after[i] = before[i]
  BY <1>1, <1>2 DEF ShowsIds, n
<1>4. \A i, j \in 1 .. (n + 1) : after[i] = after[j] => i = j
  BY <1>2 DEF ShowsIds
<1>5. ASSUME NEW j \in 1 .. (n + 1), NEW l \in 1 .. n, after[j] = before[l],
             NEW i \in 1 .. (j - 1)
      PROVE  \E k \in 1 .. (l - 1) : before[k] = after[i]
  <2>1. l = j
    BY <1>1, <1>3, <1>4, <1>5
  <2>2. i \in 1 .. n /\ i \in 1 .. (l - 1)
    BY <1>1, <2>1
  <2> QED
    BY <1>3, <2>2
<1>6. ASSUME NEW i \in 1 .. (n + 1), after[i] \notin Range(before)
      PROVE  i = n + 1
  BY <1>1, <1>3, <1>6 DEF Range
<1> QED
  BY <1>1, <1>3, <1>5, <1>6 DEF KeepsTurns

\* An order taken out of its queue lets the ones behind it move up.
LEMMA RemoveKeepsTurns ==
  ASSUME NEW before, NEW after, NEW queue, NEW pos \in 1 .. Len(queue),
         ShowsIds(before, queue), ShowsIds(after, RemoveAt(queue, pos))
  PROVE  KeepsTurns(before, after)
<1> DEFINE n == Len(queue)
           From(i) == IF i < pos THEN i ELSE i + 1
<1>1. n \in Nat /\ DOMAIN before = 1 .. n
  BY LenProperties DEF ShowsIds
<1>2. /\ Len(RemoveAt(queue, pos)) = n - 1
      /\ \A i \in 1 .. (n - 1) : RemoveAt(queue, pos)[i] = queue[From(i)]
  BY RemoveAtProperties DEF ShowsIds
<1>3. \A i \in 1 .. (n - 1) : From(i) \in 1 .. n
  BY <1>1
<1>4. DOMAIN after = 1 .. (n - 1) /\ \A i \in 1 .. (n - 1) : after[i] = before[From(i)]
  <2> HIDE DEF From
  <2>1. DOMAIN after = 1 .. (n - 1)
    BY <1>2 DEF ShowsIds
  <2>2. ASSUME NEW i \in 1 .. (n - 1)
        PROVE  after[i] = before[From(i)]
    <3>1. after[i] = RemoveAt(queue, pos)[i].order_id
      BY <1>2 DEF ShowsIds
    <3>2. before[From(i)] = queue[From(i)].order_id
      BY <1>3 DEF ShowsIds
    <3> QED
      BY <1>2, <3>1, <3>2
  <2> QED
    BY <2>1, <2>2
<1>5. ASSUME NEW j \in 1 .. (n - 1), NEW l \in 1 .. n, after[j] = before[l],
             NEW i \in 1 .. (j - 1)
      PROVE  \E k \in 1 .. (l - 1) : before[k] = after[i]
  <2>1. i \in 1 .. (n - 1)
    BY <1>1
  <2>2. l = From(j)
    <3> HIDE DEF From
    <3> QED
      BY <1>3, <1>4, <1>5 DEF ShowsIds
  <2>3. From(i) \in 1 .. (From(j) - 1)
    BY <1>1
  <2> HIDE DEF From
  <2> QED
    BY <1>4, <2>1, <2>2, <2>3
<1>6. \A i \in 1 .. (n - 1) : after[i] \in Range(before)
  <2> HIDE DEF From
  <2> QED
    BY <1>1, <1>3, <1>4 DEF Range
<1> QED
  BY <1>1, <1>4, <1>5, <1>6 DEF KeepsTurns

\* What one call does to one queue.
QueueStep(queue, next) ==
  \/ next = queue
  \/ next = << >>
  \/ \E entry \in OrderEntry : next = Append(queue, entry)
  \/ \E pos \in 1 .. Len(queue) : next = RemoveAt(queue, pos)
  \/ \E pos \in 1 .. Len(queue), q \in Quantity : next = Resized(queue, pos, q)

LEMMA QueueStepKeepsTurns ==
  ASSUME NEW before, NEW after, NEW queue, NEW next,
         ShowsIds(before, queue), ShowsIds(after, next), QueueStep(queue, next)
  PROVE  KeepsTurns(before, after)
<1>1. CASE next = queue
  BY <1>1, SameIdsKeepTurns
<1>2. CASE next = << >>
  <2>1. DOMAIN after = {}
    BY <1>2 DEF ShowsIds
  <2> QED
    BY <2>1 DEF KeepsTurns
<1>3. CASE \E entry \in OrderEntry : next = Append(queue, entry)
  BY <1>3, AppendKeepsTurns
<1>4. CASE \E pos \in 1 .. Len(queue) : next = RemoveAt(queue, pos)
  BY <1>4, RemoveKeepsTurns
<1>5. ASSUME NEW pos \in 1 .. Len(queue), NEW q \in Quantity, next = Resized(queue, pos, q)
      PROVE  KeepsTurns(before, after)
  <2>1. queue \in Seq(OrderEntry) /\ queue[pos] \in OrderEntry
    BY ElementOfSeq DEF ShowsIds
  <2> DEFINE entry == [queue[pos] EXCEPT !.quantity = q]
  <2>2. entry \in OrderEntry /\ entry.order_id = queue[pos].order_id
    BY <2>1 DEF OrderEntry
  <2>3. next = [queue EXCEPT ![pos] = entry]
    BY <1>5, Zenon DEF Resized
  <2> HIDE DEF entry
  <2>4. /\ Len(next) = Len(queue)
        /\ \A i \in 1 .. Len(queue) : next[i].order_id = queue[i].order_id
    BY <2>1, <2>2, <2>3, ExceptSeq
  <2> QED
    BY <2>4, SameIdsKeepTurns
<1> QED
  BY <1>1, <1>2, <1>3, <1>4, <1>5 DEF QueueStep

LEMMA RemoveIsQueueStep ==
  ASSUME BookInv, NEW id \in DOMAIN order_lookup, remove_existing_order(id),
         NEW s \in Side, NEW p \in Price
  PROVE  QueueStep(Queues[s][p], Queues'[s][p])
<1>1. PICK side \in Side, price \in Price :
        side = order_lookup[id].side /\ price = order_lookup[id].price
  BY RecordLeadsToPlace
<1>2. PICK pos : pos = PositionOf(levels[side][price].orders, order_lookup[id].iterator)
  OBVIOUS
<1>3. pos \in 1 .. Len(Queues[side][price])
  <2>1. pos \in DOMAIN Queues[side][price]
    BY <1>1, <1>2, RecordLeadsToPlace
  <2>2. Queues[side][price] \in Seq(OrderEntry)
    BY QueueTyping
  <2> QED
    BY <2>1, <2>2, LenProperties
<1>4. Queues' = [Queues EXCEPT ![side][price] = RemoveAt(Queues[side][price], pos)]
  BY <1>1, <1>2, RemoveTakesOut
<1>5. Queues'[s][p] = IF s = side /\ p = price THEN RemoveAt(Queues[side][price], pos)
                      ELSE Queues[s][p]
  BY <1>4, QueuesShape
<1> QED
  BY <1>3, <1>5 DEF QueueStep

LEMMA ReduceIsQueueStep ==
  ASSUME BookInv, NEW id \in DOMAIN order_lookup, NEW units, NEW left \in Quantity,
         ReduceTo(id, units, left), NEW s \in Side, NEW p \in Price
  PROVE  QueueStep(Queues[s][p], Queues'[s][p])
<1>1. PICK side \in Side, price \in Price :
        side = order_lookup[id].side /\ price = order_lookup[id].price
  BY RecordLeadsToPlace
<1>2. PICK pos : pos = PositionOf(levels[side][price].orders, order_lookup[id].iterator)
  OBVIOUS
<1>3. pos \in 1 .. Len(Queues[side][price])
  <2>1. pos \in DOMAIN Queues[side][price]
    BY <1>1, <1>2, RecordLeadsToPlace
  <2>2. Queues[side][price] \in Seq(OrderEntry)
    BY QueueTyping
  <2> QED
    BY <2>1, <2>2, LenProperties
<1>4. Queues' = [Queues EXCEPT ![side][price] = Resized(Queues[side][price], pos, left)]
  BY <1>1, <1>2, ReduceResizes
<1>5. Queues'[s][p] = IF s = side /\ p = price THEN Resized(Queues[side][price], pos, left)
                      ELSE Queues[s][p]
  BY <1>4, QueuesShape
<1> QED
  BY <1>3, <1>5 DEF QueueStep

LEMMA NextIsQueueStep ==
  ASSUME BookInv, Next, NEW s \in Side, NEW p \in Price
  PROVE  QueueStep(Queues[s][p], Queues'[s][p])
<1>0. ASSUME UNCHANGED levels PROVE QueueStep(Queues[s][p], Queues'[s][p])
  BY <1>0 DEF QueueStep, Queues, LevelAt
<1>1. ASSUME NEW id \in OrderId, NEW side \in Side, NEW price \in Price,
             NEW quantity \in Quantity, NEW timestamp \in Timestamp,
             add_order(id, side, price, quantity, timestamp)
      PROVE  QueueStep(Queues[s][p], Queues'[s][p])
  <2>1. CASE InsertOrder(id, side, price, quantity, timestamp)
    <3> DEFINE entry == [order_id |-> id, timestamp |-> timestamp, quantity |-> quantity]
    <3>1. entry \in OrderEntry
      BY DEF OrderEntry
    <3>2. Queues' = [Queues EXCEPT ![side][price] = Append(Queues[side][price], entry)]
      BY <2>1, InsertAppends
    <3> HIDE DEF entry
    <3>3. Queues'[s][p] = IF s = side /\ p = price THEN Append(Queues[side][price], entry)
                          ELSE Queues[s][p]
      BY <3>2, QueuesShape
    <3> QED
      BY <3>1, <3>3 DEF QueueStep
  <2> QED
    BY <1>0, <1>1, <2>1 DEF add_order, Reject
<1>2. ASSUME NEW id \in OrderId, cancel_order(id)
      PROVE  QueueStep(Queues[s][p], Queues'[s][p])
  BY <1>0, <1>2, RemoveIsQueueStep DEF cancel_order, Reject
<1>3. ASSUME NEW id \in OrderId, NEW quantity \in Quantity, modify_order(id, quantity)
      PROVE  QueueStep(Queues[s][p], Queues'[s][p])
  BY <1>0, <1>3, ReduceIsQueueStep DEF modify_order, Reject
<1>4. ASSUME NEW id \in OrderId, NEW quantity \in Quantity, execute_order(id, quantity)
      PROVE  QueueStep(Queues[s][p], Queues'[s][p])
  <2>1. CASE /\ id \in DOMAIN order_lookup /\ quantity < order_lookup[id].quantity
             /\ ReduceTo(id, quantity, order_lookup[id].quantity - quantity)
    <3>1. order_lookup[id].quantity \in Quantity
      BY <2>1 DEF BookInv, ContainersOK, IsMap, OrderRecord
    <3>2. order_lookup[id].quantity - quantity \in Quantity
      BY <2>1, <3>1, WordAssumption DEF Quantity
    <3> QED
      BY <2>1, <3>2, ReduceIsQueueStep
  <2> QED
    BY <1>0, <1>4, <2>1, RemoveIsQueueStep DEF execute_order, Reject
<1>5. CASE clear
  <2>1. Queues'[s][p] = << >>
    BY <1>5 DEF clear, Queues, LevelAt, EmptyLevel, NoEntries
  <2> QED
    BY <2>1 DEF QueueStep
<1> QED
  BY <1>1, <1>2, <1>3, <1>4, <1>5 DEF Next

LEMMA StepKeepsTurns ==
  IInv /\ IInv' /\ [Next]_vars =>
    [\A s \in Side, p \in Price :
       KeepsTurns(order_ids_at_price(s, p), order_ids_at_price(s, p)')]_vars
<1> SUFFICES ASSUME BookInv, BookInv', Next, NEW s \in Side, NEW p \in Price
             PROVE  KeepsTurns(order_ids_at_price(s, p), order_ids_at_price(s, p)')
  BY DEF IInv
<1>1. ShowsIds(order_ids_at_price(s, p), Queues[s][p])
  BY IdsAreShown DEF IdsShown
<1>2. ShowsIds(order_ids_at_price(s, p)', Queues'[s][p])
  BY IdsAreShownNext DEF IdsShown, ShowsIds
<1> QED
  BY <1>1, <1>2, NextIsQueueStep, QueueStepKeepsTurns

\* No call ever lets an order overtake another of its side and price: the
\* queues keep their turns through any sequence of calls.
THEOREM TurnsAreKept == Spec => TimePriority
BY StepKeepsTurns, InitEstablishesInv, NextPreservesInv, PTL DEF Spec, TimePriority

-----------------------------------------------------------------------------
(* What the queries show *)

SideQueues(s) == [p \in DOMAIN levels[s] |-> levels[s][p].orders]

\* The levels of a side hold the orders on record for it and no others.
LEMMA SideHoldsRecords ==
  ASSUME BookInv, NEW s \in Side
  PROVE  QueuesHold(order_lookup, s, SideQueues(s))
<1>1. DOMAIN SideQueues(s) = DOMAIN levels[s] /\ DOMAIN levels[s] \in SUBSET Price
  BY DEF SideQueues, BookInv, ContainersOK, IsMap
<1>2. ASSUME NEW id \in DOMAIN order_lookup, order_lookup[id].side = s
      PROVE  /\ order_lookup[id].price \in DOMAIN levels[s]
             /\ id \in IdSet(levels[s][order_lookup[id].price].orders)
  BY <1>2, RecordLeadsToEntry DEF IdSet
<1>3. ASSUME NEW p \in DOMAIN levels[s]
      PROVE  QueueHolds(order_lookup, s, p, levels[s][p].orders)
  <2>1. PICK q \in Seq(OrderEntry) : q = levels[s][p].orders /\ DOMAIN q = 1 .. Len(q)
    BY LenProperties DEF BookInv, ContainersOK, IsMap, PriceLevel
  <2>2. q # << >> /\ \A i \in 1 .. Len(q) : EntryAgrees(s, p, q[i])
    BY <2>1 DEF BookInv, IndexConsistent, LevelsAgree
  <2>3. DistinctIds(q)
    BY <2>1 DEF BookInv, IndexConsistent, IdsUnique, DistinctIds
  <2>4. IdSet(q) = RecordedAt(order_lookup, s, p)
    <3>1. ASSUME NEW i \in 1 .. Len(q)
          PROVE  q[i].order_id \in RecordedAt(order_lookup, s, p)
      BY <2>2 DEF EntryAgrees, RecordedAt
    <3>2. ASSUME NEW id \in RecordedAt(order_lookup, s, p)
          PROVE  id \in IdSet(q)
      BY <1>2, <2>1 DEF RecordedAt
    <3> QED
      BY <3>1, <3>2 DEF IdSet
  <2>5. \A i \in 1 .. Len(q) : order_lookup[q[i].order_id].quantity = q[i].quantity
    BY <2>2 DEF EntryAgrees
  <2> QED
    BY <2>1, <2>2, <2>3, <2>4, <2>5 DEF QueueHolds
<1>4. \A p \in DOMAIN levels[s] : SideQueues(s)[p] = levels[s][p].orders
  BY DEF SideQueues
<1>5. \A p \in Price : p \notin DOMAIN levels[s] => RecordedAt(order_lookup, s, p) = {}
  BY <1>2 DEF RecordedAt
<1> QED
  BY <1>1, <1>3, <1>4, <1>5 DEF QueuesHold

LEMMA DepthIsShown ==
  ASSUME BookInv, TotalsAgree, NEW s \in Side, NEW n \in Nat
  PROVE  /\ ShowsRecords(depth(n)[s], order_lookup, s, n)
         /\ n = 1 => depth(n)[s] = top_of_book[s]
         /\ n > Cardinality(Price) => depth(n)[s] = LevelsOf(snapshot[s])
<1>1. PICK S \in SUBSET Price : S = DOMAIN levels[s] /\ S = DOMAIN SideQueues(s)
  BY DEF SideQueues, BookInv, ContainersOK, IsMap
<1>2. PICK prices : prices = BestFirst(s, S)
  OBVIOUS
<1>3. /\ PricesOf(s) = prices /\ Len(prices) = Cardinality(S) /\ Cardinality(S) \in Nat
      /\ Cardinality(S) <= Cardinality(Price) /\ (Cardinality(S) = 0 <=> S = {})
      /\ prices \in [1 .. Cardinality(S) -> S]
  BY <1>1, <1>2, BestFirstIsSeq DEF PricesOf, Lists
<1>4. PICK m \in Nat : m = (IF n < Len(prices) THEN n ELSE Len(prices)) /\ m <= Cardinality(S)
  BY <1>3
<1>5. depth(n)[s] = [i \in 1 .. m |-> make_price_level_view(prices[i], levels[s][prices[i]])]
  BY <1>3, <1>4 DEF depth, SideDepth
<1>6. ASSUME NEW i \in 1 .. Cardinality(S)
      PROVE  /\ make_price_level_view(prices[i], levels[s][prices[i]])
                  = QueueView(prices[i], SideQueues(s)[prices[i]])
             /\ levels[s][prices[i]].total_quantity = WordSum(levels[s][prices[i]].orders)
  <2>1. prices[i] \in DOMAIN levels[s]
    BY <1>1, <1>3
  <2>2. SideQueues(s)[prices[i]] = levels[s][prices[i]].orders
    BY <2>1 DEF SideQueues
  <2>3. WordSum(levels[s][prices[i]].orders) = levels[s][prices[i]].total_quantity
    BY <2>1 DEF TotalsAgree
  <2> QED
    BY <2>2, <2>3 DEF make_price_level_view, QueueView
<1>7. \A i \in 1 .. m : i \in 1 .. Cardinality(S)
  BY <1>3, <1>4
<1>8. ShowsRecords(depth(n)[s], order_lookup, s, n)
  <2>1. PICK queues, records : queues = SideQueues(s) /\ records = order_lookup
    OBVIOUS
  <2>2. PICK view : view = [i \in 1 .. m |-> QueueView(prices[i], queues[prices[i]])]
    OBVIOUS
  <2>3. depth(n)[s] = view
    BY <1>5, <1>6, <1>7, <2>1, <2>2
  <2>4. QueuesHold(records, s, queues) /\ prices = BestFirst(s, DOMAIN queues)
    BY <1>1, <1>2, <2>1, SideHoldsRecords
  <2>5. ShowsRecords(view, records, s, n)
    BY <1>4, <2>2, <2>4, ViewShowsRecords
  <2> QED
    BY <2>1, <2>3, <2>5, Zenon
<1>9. ASSUME n = 1 PROVE depth(n)[s] = top_of_book[s]
  <2>1. CASE S = {}
    <3>1. m = 0
      BY <1>3, <1>4, <1>9, <2>1
    <3>2. top_of_book[s] = << >>
      BY <1>1, <2>1 DEF top_of_book
    <3> DEFINE Shown(i) == make_price_level_view(prices[i], levels[s][prices[i]])
    <3>3. depth(n)[s] = [i \in 1 .. 0 |-> Shown(i)]
      BY <1>5, <3>1, Zenon
    <3> HIDE DEF Shown
    <3>4. [i \in 1 .. 0 |-> Shown(i)] \in [1 .. 0 -> {}]
      OBVIOUS
    <3>5. PICK view : view = depth(n)[s] /\ view \in [1 .. 0 -> {}]
      BY <3>3, <3>4, Zenon
    <3>6. view \in Seq({}) /\ Len(view) = 0
      BY <3>5, SeqDef
    <3> QED
      BY <3>2, <3>5, <3>6, EmptySeq
  <2>2. CASE S # {}
    <3>1. m = 1
      BY <1>3, <1>4, <1>9, <2>2
    <3>2. PICK top : top = make_price_level_view(prices[1], levels[s][prices[1]])
      OBVIOUS
    <3>3. top_of_book[s] = <<top>>
      BY <1>1, <1>3, <2>2, <3>2, Zenon DEF top_of_book
    <3>4. depth(n)[s] = [i \in 1 .. 1 |-> top]
      BY <1>5, <3>1, <3>2
    <3> QED
      BY <3>3, <3>4
  <2> QED
    BY <2>1, <2>2
<1>10. ASSUME n > Cardinality(Price) PROVE depth(n)[s] = LevelsOf(snapshot[s])
  <2>1. m = Cardinality(S)
    BY <1>3, <1>4, <1>10, PriceAssumption, FS_CardinalityType
  <2>2. snapshot[s] = [i \in 1 .. m |->
                         [price    |-> prices[i],
                          quantity |-> levels[s][prices[i]].total_quantity,
                          orders   |-> levels[s][prices[i]].orders]]
    BY <1>3, <2>1, Zenon DEF snapshot, SideSnapshot
  <2>3. LevelsOf(snapshot[s]) = [i \in 1 .. m |->
           [price       |-> prices[i],
            quantity    |-> levels[s][prices[i]].total_quantity,
            order_count |-> Len(levels[s][prices[i]].orders)]]
    BY <2>2 DEF LevelsOf
  <2> QED
    BY <1>5, <2>3 DEF make_price_level_view
<1> QED
  BY <1>8, <1>9, <1>10

LEMMA ViewsShown == BookInv /\ TotalsAgree => ViewsMatchIndex
<1> SUFFICES ASSUME BookInv, TotalsAgree, NEW s \in Side,
                    NEW n \in 0 .. Cardinality(Price) + 1
             PROVE  /\ ShowsRecords(depth(n)[s], order_lookup, s, n)
                    /\ n = 1 => depth(n)[s] = top_of_book[s]
                    /\ n > Cardinality(Price) => depth(n)[s] = LevelsOf(snapshot[s])
  BY Zenon DEF ViewsMatchIndex, ShowsRecords, RankOf, RecordedPrices, RecordedAt
<1>1. n \in Nat
  OBVIOUS
<1> QED
  BY <1>1, DepthIsShown

\* For every set of prices, identifiers and word size, what depth(),
\* top_of_book() and snapshot() show after any calls is what the index alone
\* says: the right prices in the right order, each with the number and the
\* units of the orders on record there.
THEOREM QueriesAreTrue == Spec => []ViewsMatchIndex
<1>1. Init => TotalsAgree
  BY DEF Init, NoEntries, TotalsAgree
<1>2. IInv => BookInv
  BY DEF IInv
<1> QED
  BY <1>1, <1>2, ViewsShown, TotalsKept, InitEstablishesInv, NextPreservesInv, PTL DEF Spec
=============================================================================
