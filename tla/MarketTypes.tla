---------------------------- MODULE MarketTypes ----------------------------
(***************************************************************************)
(* The domain types of core/types.hpp and the vocabulary both order books  *)
(* share.  Identifiers and timestamps are only ever compared for equality  *)
(* by the books, so they are arbitrary sets; prices are ordered; quantities *)
(* and counters are unsigned machine words.                                *)
(***************************************************************************)
EXTENDS Integers, Sequences, FiniteSets, SequencesExt

CONSTANTS
  OrderId,      \* values of OrderId::rep
  Price,        \* values of Price::rep, signed ticks
  Timestamp,    \* values of Timestamp::rep
  Word          \* 2^64 for the std::uint64_t of Quantity::rep and counters

\* An OrderId is a std::uint64_t: there are finitely many of them.
ASSUME OrderIdAssumption == IsFiniteSet(OrderId)
ASSUME PriceAssumption   == IsFiniteSet(Price) /\ Price \subseteq Int
ASSUME WordAssumption    == Word \in Nat /\ Word > 1

Side == {"Buy", "Sell"}

Quantity == 0 .. (Word - 1)

\* EventType::Trade is another name of Execute.
EventType == {"Add", "Modify", "Cancel", "Execute"}

\* Fields an event does not use have their default: Buy, price 0, quantity 0.
MarketEvent == [type : EventType, timestamp : Timestamp, order_id : OrderId,
                side : Side, price : Price \cup {0}, quantity : Quantity]

\* Unsigned addition and subtraction wrap around.
Plus(a, b)  == (a + b) % Word
Minus(a, b) == (a - b) % Word

\* Events as a feed makes them, up to fields that apply() does not read.
FeedEvent ==
  {e \in MarketEvent :
     IF e.type = "Add" THEN e.price \in Price
     ELSE e.side = "Buy" /\ e.price = 0 /\ (e.type = "Cancel" => e.quantity = 0)}

BookResult == {"Applied", "DuplicateOrderId", "MissingOrderId",
               "InvalidQuantity", "InsufficientQuantity",
               "UnsupportedModify", "CapacityExceeded"}

\* What a caller has seen returned; "none" before the first call.
Returned == BookResult \cup {"none"}

\* A resting order as it stands in a price level's queue.
OrderEntry == [order_id : OrderId, timestamp : Timestamp, quantity : Quantity]

\* Does price p come before price q when a side is walked from its best level?
Better(side, p, q) == IF side = "Buy" THEN p > q ELSE p < q

\* Prices in the order of a side, best first: how its std::map is iterated.
BestFirst(side, prices) ==
  CHOOSE seq \in [1 .. Cardinality(prices) -> prices] :
    \A i, j \in DOMAIN seq : i < j => Better(side, seq[i], seq[j])

(***************************************************************************)
(* std::map and std::unordered_map are functions whose domain is the set   *)
(* of present keys.                                                        *)
(***************************************************************************)
Put(f, k, v) == [x \in DOMAIN f \cup {k} |-> IF x = k THEN v ELSE f[x]]
Drop(f, k)   == [x \in DOMAIN f \ {k} |-> f[x]]
IsMap(f, K, V) == /\ DOMAIN f \subseteq K
                  /\ f \in [DOMAIN f -> V]

\* Position of an order in a queue that holds it.
PositionOf(queue, id) ==
  CHOOSE i \in 1 .. Len(queue) : queue[i].order_id = id

\* The order identifiers of a queue, front first.
IdsOf(queue) == [i \in 1 .. Len(queue) |-> queue[i].order_id]

\* The units of the first k entries of a queue, added up in machine words.
RunningSum(queue) ==
  LET sum[k \in 0 .. Len(queue)] ==
        IF k = 0 THEN 0 ELSE Plus(sum[k - 1], queue[k].quantity)
  IN  sum

WordSum(queue) == RunningSum(queue)[Len(queue)]

\* The units on record for some orders, added up in machine words.
UnitsOnRecord(records, ids) ==
  FoldSet(LAMBDA id, sum : Plus(sum, records[id].quantity), 0, ids)
=============================================================================
