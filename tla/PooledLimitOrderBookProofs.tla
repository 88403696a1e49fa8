--------------------- MODULE PooledLimitOrderBookProofs ---------------------
(***************************************************************************)
(* Proofs about PooledLimitOrderBook, for every value of its constants.    *)
(* The inductive invariant says that every level is the head, the tail and *)
(* the count of some chain of nodes linked both ways, that the nodes of    *)
(* the chain and the records of the level's orders point at each other,    *)
(* and that a node is on the free stack exactly when no record points at   *)
(* it.  What a caller sees follows from it: the loops along next and prev  *)
(* read a level's chain, both ways the same; the orders they read are the  *)
(* queues of PriceTimeBook and add up to the totals.                       *)
(***************************************************************************)
EXTENDS PooledLimitOrderBook, MarketTypesProofs

-----------------------------------------------------------------------------
(* Nodes, field by field *)

\* Everything of a node but its links.
SamePayload(a, b) ==
  /\ a.order_id = b.order_id /\ a.timestamp = b.timestamp
  /\ a.quantity = b.quantity /\ a.active = b.active

LEMMA LinkWords ==
  /\ npos \notin Index /\ npos \in Link
  /\ Index \subseteq Link /\ Index \subseteq Int
BY PoolAssumption DEF npos, Index, Link

\* A node with other links.
Relink(node, prev, next) == [node EXCEPT !.next = next, !.prev = prev]

LEMMA Relinked ==
  ASSUME NEW node \in OrderNode, NEW prev \in Link, NEW next \in Link
  PROVE  /\ Relink(node, prev, next) \in OrderNode
         /\ Relink(node, prev, next).prev = prev
         /\ Relink(node, prev, next).next = next
         /\ SamePayload(Relink(node, prev, next), node)
BY DEF OrderNode, SamePayload, Relink

\* What append_node() does to the nodes.
LEMMA AppendedFields ==
  ASSUME NEW ns \in [Index -> OrderNode], NEW level \in PriceLevel, NEW n \in Index,
         level.tail # n
  PROVE  LET after == AppendedNodes(ns, level, n)
         IN  /\ after \in [Index -> OrderNode]
             /\ \A i \in Index :
                  /\ after[i].prev = IF i = n THEN level.tail ELSE ns[i].prev
                  /\ after[i].next = IF i = n THEN npos
                                     ELSE IF i = level.tail THEN n ELSE ns[i].next
                  /\ SamePayload(after[i], ns[i])
<1> DEFINE linked == [ns EXCEPT ![n].prev = level.tail, ![n].next = npos]
           after  == AppendedNodes(ns, level, n)
<1>1. level.tail \in Link /\ npos \in Link /\ n \in Link
  BY LinkWords DEF PriceLevel
<1>2. /\ linked \in [Index -> OrderNode]
      /\ linked[n].prev = level.tail /\ linked[n].next = npos
      /\ SamePayload(linked[n], ns[n])
      /\ \A i \in Index \ {n} : linked[i] = ns[i]
  BY <1>1 DEF OrderNode, SamePayload
<1> HIDE DEF linked
<1>3. CASE level.tail = npos
  BY <1>2, <1>3, LinkWords DEF AppendedNodes, linked, SamePayload
<1>4. CASE level.tail # npos
  <2>1. level.tail \in Index
    BY <1>1, <1>4 DEF Link
  <2>2. after = [linked EXCEPT ![level.tail].next = n]
    BY <1>4 DEF AppendedNodes, linked
  <2>3. /\ after \in [Index -> OrderNode]
        /\ after[level.tail].next = n /\ after[level.tail].prev = linked[level.tail].prev
        /\ SamePayload(after[level.tail], linked[level.tail])
        /\ \A i \in Index \ {level.tail} : after[i] = linked[i]
    BY <1>1, <1>2, <2>1, <2>2 DEF OrderNode, SamePayload
  <2> QED
    BY <1>2, <2>1, <2>3 DEF SamePayload
<1> QED
  BY <1>3, <1>4

\* What unlink_node() does to the nodes.
LEMMA UnlinkedFields ==
  ASSUME NEW ns \in [Index -> OrderNode], NEW n \in Index
  PROVE  LET after == UnlinkedNodes(ns, n)
         IN  /\ after \in [Index -> OrderNode]
             /\ \A i \in Index :
                  /\ after[i].prev = IF i = ns[n].next THEN ns[n].prev ELSE ns[i].prev
                  /\ after[i].next = IF i = ns[n].prev THEN ns[n].next ELSE ns[i].next
                  /\ SamePayload(after[i], ns[i])
<1>1. ASSUME NEW i \in Index
      PROVE  /\ ns[i] \in OrderNode
             /\ (IF i = ns[n].next THEN ns[n].prev ELSE ns[i].prev) \in Link
             /\ (IF i = ns[n].prev THEN ns[n].next ELSE ns[i].next) \in Link
  BY DEF OrderNode
<1>2. ASSUME NEW i \in Index
      PROVE  UnlinkedNodes(ns, n)[i] =
               [ns[i] EXCEPT !.next = IF i = ns[n].prev THEN ns[n].next ELSE ns[i].next,
                             !.prev = IF i = ns[n].next THEN ns[n].prev ELSE ns[i].prev]
  BY Zenon DEF UnlinkedNodes
<1>3. ASSUME NEW i \in Index
      PROVE  LET after == UnlinkedNodes(ns, n)[i]
             IN  /\ after \in OrderNode
                 /\ after.prev = IF i = ns[n].next THEN ns[n].prev ELSE ns[i].prev
                 /\ after.next = IF i = ns[n].prev THEN ns[n].next ELSE ns[i].next
                 /\ SamePayload(after, ns[i])
  <2>1. PICK prev \in Link : prev = IF i = ns[n].next THEN ns[n].prev ELSE ns[i].prev
    BY <1>1
  <2>2. PICK next \in Link : next = IF i = ns[n].prev THEN ns[n].next ELSE ns[i].next
    BY <1>1
  <2>3. UnlinkedNodes(ns, n)[i] = Relink(ns[i], prev, next)
    BY <1>2, <2>1, <2>2, Zenon DEF Relink
  <2>4. LET after == UnlinkedNodes(ns, n)[i]
        IN  /\ after \in OrderNode /\ after.prev = prev /\ after.next = next
            /\ SamePayload(after, ns[i])
    BY <1>1, <2>3, Relinked
  <2> QED
    BY <2>1, <2>2, <2>4, Zenon
<1>4. UnlinkedNodes(ns, n) = [i \in Index |-> UnlinkedNodes(ns, n)[i]]
  BY Zenon DEF UnlinkedNodes
<1>5. UnlinkedNodes(ns, n) \in [Index -> OrderNode]
  BY <1>3, <1>4, Zenon
<1> QED
  BY <1>3, <1>5, Zenon

\* It leaves every node alone that is not a neighbour of n.
LEMMA UnlinkApart ==
  ASSUME NEW ns \in [Index -> OrderNode], NEW n, NEW i \in Index,
         i # ns[n].prev, i # ns[n].next
  PROVE  UnlinkedNodes(ns, n)[i] = ns[i]
<1>1. PICK node \in OrderNode : node = ns[i]
  OBVIOUS
<1>2. UnlinkedNodes(ns, n)[i] = [node EXCEPT !.next = node.next, !.prev = node.prev]
  BY <1>1, Zenon DEF UnlinkedNodes
<1>3. [node EXCEPT !.next = node.next, !.prev = node.prev] = node
  BY DEF OrderNode
<1> QED
  BY <1>1, <1>2, <1>3, Zenon

-----------------------------------------------------------------------------
(* Chains *)

\* The nodes of chain are linked in its order, both ways, and nowhere else.
Linked(ns, chain) ==
  /\ \A j, k \in 1 .. Len(chain) : chain[j] = chain[k] => j = k
  /\ \A k \in 1 .. Len(chain) :
       /\ ns[chain[k]].prev = IF k = 1 THEN npos ELSE chain[k - 1]
       /\ ns[chain[k]].next = IF k = Len(chain) THEN npos ELSE chain[k + 1]

LEMMA LinkedLocal ==
  ASSUME NEW ns, NEW after, NEW chain, Linked(ns, chain),
         \A k \in 1 .. Len(chain) : /\ after[chain[k]].prev = ns[chain[k]].prev
                                    /\ after[chain[k]].next = ns[chain[k]].next
  PROVE  Linked(after, chain)
BY DEF Linked

LEMMA LinkedAppend ==
  ASSUME NEW ns \in [Index -> OrderNode], NEW level \in PriceLevel, NEW n \in Index,
         NEW chain \in Seq(Index), Len(chain) # 0, Linked(ns, chain),
         level.tail = chain[Len(chain)], \A k \in 1 .. Len(chain) : chain[k] # n
  PROVE  Linked(AppendedNodes(ns, level, n), Append(chain, n))
<1> DEFINE L     == Len(chain)
           after == AppendedNodes(ns, level, n)
           grown == Append(chain, n)
<1>1. L \in Nat /\ L # 0
  BY LenProperties
<1>2. /\ Len(grown) = L + 1 /\ grown[L + 1] = n
      /\ \A k \in 1 .. L : grown[k] = chain[k] /\ chain[k] \in Index
  BY <1>1, AppendProperties, ElementOfSeq
<1>3. chain[L] \in Index /\ chain[L] # n
  BY <1>1, <1>2
<1>4. \A i \in Index :
        /\ after[i].prev = IF i = n THEN chain[L] ELSE ns[i].prev
        /\ after[i].next = IF i = n THEN npos ELSE IF i = chain[L] THEN n ELSE ns[i].next
  BY <1>3, AppendedFields
<1>5. /\ \A j, k \in 1 .. L : chain[j] = chain[k] => j = k
      /\ \A k \in 1 .. L :
           /\ ns[chain[k]].prev = IF k = 1 THEN npos ELSE chain[k - 1]
           /\ ns[chain[k]].next = IF k = L THEN npos ELSE chain[k + 1]
  BY DEF Linked
<1> HIDE DEF L, after, grown
<1>6. \A j, k \in 1 .. (L + 1) : grown[j] = grown[k] => j = k
  <2>1. \A k \in 1 .. L : grown[k] # n
    BY <1>2 DEF L
  <2> QED
    BY <2>1, <1>1, <1>2, <1>5
<1>7. ASSUME NEW k \in 1 .. (L + 1)
      PROVE  /\ after[grown[k]].prev = IF k = 1 THEN npos ELSE grown[k - 1]
             /\ after[grown[k]].next = IF k = L + 1 THEN npos ELSE grown[k + 1]
  <2>1. CASE k = L + 1
    <3>1. k # 1 /\ k - 1 = L /\ grown[k - 1] = chain[L] /\ grown[k] = n
      BY <2>1, <1>1, <1>2
    <3> QED
      BY <2>1, <3>1, <1>4
  <2>2. CASE k = L
    <3>1. grown[k] = chain[L] /\ grown[k + 1] = n /\ k # L + 1 /\ k \in 1 .. L
      BY <2>2, <1>1, <1>2
    <3>2. after[chain[L]].next = n /\ after[chain[L]].prev = ns[chain[L]].prev
      BY <1>3, <1>4
    <3>3. k # 1 => grown[k - 1] = chain[k - 1]
      BY <3>1, <1>1, <1>2
    <3> QED
      BY <2>2, <3>1, <3>2, <3>3, <1>5
  <2>3. CASE k < L
    <3>1. /\ k \in 1 .. L /\ k + 1 \in 1 .. L /\ grown[k] = chain[k]
          /\ grown[k + 1] = chain[k + 1] /\ k # L /\ k # L + 1 /\ L \in 1 .. L
          /\ k # 1 => grown[k - 1] = chain[k - 1]
      BY <2>3, <1>1, <1>2
    <3>2. chain[k] \in Index /\ chain[k] # n /\ chain[k] # chain[L]
      BY <3>1, <1>2, <1>5 DEF L
    <3>3. after[chain[k]].prev = ns[chain[k]].prev /\ after[chain[k]].next = ns[chain[k]].next
      BY <3>2, <1>4
    <3>4. /\ ns[chain[k]].prev = IF k = 1 THEN npos ELSE chain[k - 1]
          /\ ns[chain[k]].next = chain[k + 1]
      BY <3>1, <1>5
    <3> QED
      BY <3>1, <3>3, <3>4
  <2> QED
    BY <2>1, <2>2, <2>3, <1>1
<1>8. Len(grown) = L + 1
  BY <1>2
<1>9. Linked(after, grown)
  BY <1>6, <1>7, <1>8 DEF Linked
<1> QED
  BY <1>9 DEF grown, after

LEMMA LinkedFirst ==
  ASSUME NEW ns \in [Index -> OrderNode], NEW level \in PriceLevel, NEW n \in Index,
         level.tail = npos
  PROVE  Linked(AppendedNodes(ns, level, n), <<n>>)
<1>1. /\ AppendedNodes(ns, level, n)[n].prev = npos
      /\ AppendedNodes(ns, level, n)[n].next = npos
  BY LinkWords, AppendedFields
<1>2. Len(<<n>>) = 1 /\ <<n>>[1] = n /\ 1 .. 1 = {1}
  OBVIOUS
<1> QED
  BY <1>1, <1>2 DEF Linked

LEMMA LinkedRemove ==
  ASSUME NEW ns \in [Index -> OrderNode], NEW chain \in Seq(Index), Linked(ns, chain),
         NEW i \in 1 .. Len(chain)
  PROVE  /\ Linked(UnlinkedNodes(ns, chain[i]), RemoveAt(chain, i))
         /\ \A k \in 1 .. Len(RemoveAt(chain, i)) : RemoveAt(chain, i)[k] # chain[i]
<1> DEFINE L     == Len(chain)
           n     == chain[i]
           after == UnlinkedNodes(ns, n)
           rest  == RemoveAt(chain, i)
<1>1. L \in Nat /\ i \in 1 .. L
  BY LenProperties
<1>2. /\ Len(rest) = L - 1
      /\ \A k \in 1 .. (L - 1) : rest[k] = IF k < i THEN chain[k] ELSE chain[k + 1]
      /\ \A k \in 1 .. L : chain[k] \in Index
  BY <1>1, RemoveAtProperties, ElementOfSeq
<1>3. \A x \in Index :
        /\ after[x].prev = IF x = ns[n].next THEN ns[n].prev ELSE ns[x].prev
        /\ after[x].next = IF x = ns[n].prev THEN ns[n].next ELSE ns[x].next
  BY <1>1, <1>2, UnlinkedFields
<1>4. /\ \A j, k \in 1 .. L : chain[j] = chain[k] => j = k
      /\ \A k \in 1 .. L :
           /\ ns[chain[k]].prev = IF k = 1 THEN npos ELSE chain[k - 1]
           /\ ns[chain[k]].next = IF k = L THEN npos ELSE chain[k + 1]
  BY DEF Linked
<1>5. /\ ns[n].prev = IF i = 1 THEN npos ELSE chain[i - 1]
      /\ ns[n].next = IF i = L THEN npos ELSE chain[i + 1]
  BY <1>1, <1>4
<1> HIDE DEF L, n, after, rest
\* The neighbours of the node are its neighbours in the chain and no others.
<1>6. ASSUME NEW k \in 1 .. L
      PROVE  /\ chain[k] = ns[n].prev <=> k = i - 1
             /\ chain[k] = ns[n].next <=> k = i + 1
  <2>1. chain[k] # npos
    BY <1>2, LinkWords
  <2>2. CASE i = 1
    BY <2>1, <2>2, <1>1, <1>4, <1>5
  <2>3. CASE i # 1
    BY <2>1, <2>3, <1>1, <1>4, <1>5
  <2> QED
    BY <2>2, <2>3
<1>7. ASSUME NEW j \in 1 .. (L - 1), NEW k \in 1 .. (L - 1), rest[j] = rest[k]
      PROVE  j = k
  <2>1. j \in 1 .. L /\ j + 1 \in 1 .. L /\ k \in 1 .. L /\ k + 1 \in 1 .. L
    BY <1>1
  <2>2. /\ rest[j] = IF j < i THEN chain[j] ELSE chain[j + 1]
        /\ rest[k] = IF k < i THEN chain[k] ELSE chain[k + 1]
    BY <1>2
  <2>3. \A x, y \in 1 .. L : chain[x] = chain[y] => x = y
    BY <1>4
  <2>4. CASE j < i
    BY <2>1, <2>2, <2>3, <2>4, <1>1, <1>7
  <2>5. CASE ~(j < i)
    BY <2>1, <2>2, <2>3, <2>5, <1>1, <1>7
  <2> QED
    BY <2>4, <2>5
<1>8. ASSUME NEW k \in 1 .. (L - 1)
      PROVE  rest[k] # n
  <2>1. PICK m \in 1 .. L : rest[k] = chain[m] /\ m # i
    BY <1>1, <1>2
  <2> QED
    BY <2>1, <1>1, <1>4 DEF n
<1>9. ASSUME NEW k \in 1 .. (L - 1)
      PROVE  /\ after[rest[k]].prev = IF k = 1 THEN npos ELSE rest[k - 1]
             /\ after[rest[k]].next = IF k = L - 1 THEN npos ELSE rest[k + 1]
  <2>1. CASE k < i
    <3>1. /\ k \in 1 .. L /\ rest[k] = chain[k] /\ chain[k] \in Index /\ k # i + 1
          /\ k # 1 => k - 1 \in 1 .. (L - 1) /\ rest[k - 1] = chain[k - 1]
      BY <2>1, <1>1, <1>2
    <3>2. after[rest[k]].prev = IF k = 1 THEN npos ELSE rest[k - 1]
      BY <3>1, <1>3, <1>4, <1>6
    <3>3. CASE k = i - 1
      <4>1. after[rest[k]].next = ns[n].next
        BY <3>1, <3>3, <1>3, <1>6
      <4>2. (i = L) <=> (k = L - 1)
        BY <3>3, <1>1
      <4>3. k # L - 1 => rest[k + 1] = chain[i + 1]
        BY <3>3, <1>1, <1>2
      <4> QED
        BY <3>2, <4>1, <4>2, <4>3, <1>5
    <3>4. CASE k # i - 1
      <4>1. k # L /\ k # L - 1 /\ rest[k + 1] = chain[k + 1]
        BY <2>1, <3>4, <1>1, <1>2
      <4> QED
        BY <3>1, <3>2, <3>4, <4>1, <1>3, <1>4, <1>6
    <3> QED
      BY <3>3, <3>4
  <2>2. CASE k >= i
    <3>1. /\ k + 1 \in 1 .. L /\ rest[k] = chain[k + 1] /\ chain[k + 1] \in Index
          /\ k + 1 # i - 1 /\ k + 1 # 1 /\ (k + 1) - 1 = k
          /\ (k = L - 1) <=> (k + 1 = L)
          /\ k # L - 1 => rest[k + 1] = chain[(k + 1) + 1]
      BY <2>2, <1>1, <1>2
    <3>2. after[rest[k]].next = IF k = L - 1 THEN npos ELSE rest[k + 1]
      BY <3>1, <1>3, <1>4, <1>6
    <3>3. CASE k = i
      <4>1. after[rest[k]].prev = ns[n].prev
        BY <3>1, <3>3, <1>3, <1>6
      <4>2. k # 1 => rest[k - 1] = chain[i - 1]
        BY <3>3, <1>1, <1>2
      <4> QED
        BY <3>2, <3>3, <4>1, <4>2, <1>5
    <3>4. CASE k # i
      <4>1. k # 1 /\ rest[k - 1] = chain[k] /\ k + 1 # i + 1
        BY <2>2, <3>4, <1>1, <1>2
      <4>2. chain[k + 1] # ns[n].next
        BY <3>1, <4>1, <1>6
      <4>3. after[rest[k]].prev = ns[chain[k + 1]].prev
        BY <3>1, <4>2, <1>3
      <4>4. ns[chain[k + 1]].prev = chain[k]
        BY <3>1, <1>4
      <4> QED
        BY <3>2, <4>1, <4>3, <4>4
    <3> QED
      BY <3>3, <3>4
  <2> QED
    BY <2>1, <2>2, <1>1
<1> QED
  BY <1>2, <1>7, <1>8, <1>9 DEF Linked, n, after, rest

-----------------------------------------------------------------------------
(* The inductive invariant *)

\* Node n holds an order of side s and price p whose record leads back to it.
Backed(ns, index, s, p, n) ==
  /\ ns[n].quantity # 0
  /\ ns[n].order_id \in DOMAIN index
  /\ LET record == index[ns[n].order_id]
     IN  /\ record.side = s /\ record.price = p /\ record.node_index = n
         /\ record.timestamp = ns[n].timestamp /\ record.quantity = ns[n].quantity

\* chain is the list of the level at side s and price p: its ends and count are
\* the level's, and its nodes hold the orders recorded there, each of them.
IsChain(ns, level, index, s, p, chain) ==
  /\ Len(chain) # 0 /\ level.order_count = Len(chain)
  /\ level.head = chain[1] /\ level.tail = chain[Len(chain)]
  /\ Linked(ns, chain)
  /\ \A k \in 1 .. Len(chain) : Backed(ns, index, s, p, chain[k])
  /\ \A id \in DOMAIN index :
       index[id].side = s /\ index[id].price = p =>
         \E k \in 1 .. Len(chain) : chain[k] = index[id].node_index

ContainersOK ==
  /\ nodes \in [Index -> OrderNode]
  /\ free_indices \in Seq(Index)
  /\ DOMAIN levels = Side
  /\ \A s \in Side : IsMap(levels[s], Price, PriceLevel)
  /\ IsMap(order_lookup, OrderId, OrderRecord)

CountersOK == events_applied \in 0 .. (Word - 1) /\ result \in Returned

LevelsChained ==
  \A s \in Side : \A p \in DOMAIN levels[s] : \E chain \in Seq(Index) :
    IsChain(nodes, levels[s][p], order_lookup, s, p, chain)

RecordsLead ==
  \A id \in DOMAIN order_lookup :
    /\ order_lookup[id].price \in DOMAIN levels[order_lookup[id].side]
    /\ nodes[order_lookup[id].node_index].order_id = id

OnStack(stack, i) == \E k \in 1 .. Len(stack) : stack[k] = i
Owned(index, i) == \E id \in DOMAIN index : index[id].node_index = i

StackOK ==
  /\ \A j, k \in 1 .. Len(free_indices) : free_indices[j] = free_indices[k] => j = k
  /\ \A i \in Index :
       /\ OnStack(free_indices, i) <=> ~Owned(order_lookup, i)
       /\ nodes[i].active <=> Owned(order_lookup, i)
       /\ OnStack(free_indices, i) => nodes[i] = UnusedNode

PoolInv == ContainersOK /\ LevelsChained /\ RecordsLead /\ StackOK

IInv == PoolInv /\ CountersOK

\* A chain whose nodes and records a step does not touch stays one.
LEMMA ChainElsewhere ==
  ASSUME NEW ns, NEW after, NEW level, NEW index, NEW indexAfter, NEW s, NEW p, NEW chain,
         IsChain(ns, level, index, s, p, chain),
         \A k \in 1 .. Len(chain) : after[chain[k]] = ns[chain[k]],
         \A id \in DOMAIN index : index[id].side = s /\ index[id].price = p =>
            id \in DOMAIN indexAfter /\ indexAfter[id] = index[id],
         \A id \in DOMAIN indexAfter : indexAfter[id].side = s /\ indexAfter[id].price = p =>
            id \in DOMAIN index /\ indexAfter[id] = index[id]
  PROVE  IsChain(after, level, indexAfter, s, p, chain)
<1>1. Linked(after, chain)
  BY LinkedLocal DEF IsChain
<1>2. ASSUME NEW k \in 1 .. Len(chain)
      PROVE  Backed(after, indexAfter, s, p, chain[k])
  BY DEF IsChain, Backed
<1>3. ASSUME NEW id \in DOMAIN indexAfter, indexAfter[id].side = s, indexAfter[id].price = p
      PROVE  \E k \in 1 .. Len(chain) : chain[k] = indexAfter[id].node_index
  BY <1>3 DEF IsChain
<1> QED
  BY <1>1, <1>2, <1>3 DEF IsChain

\* The chains of different levels share no node.
LEMMA ChainsDisjoint ==
  ASSUME NEW ns, NEW index, NEW l1, NEW l2, NEW s1, NEW s2, NEW p1, NEW p2, NEW c1, NEW c2,
         IsChain(ns, l1, index, s1, p1, c1), IsChain(ns, l2, index, s2, p2, c2),
         ~(s1 = s2 /\ p1 = p2),
         NEW j \in 1 .. Len(c1), NEW k \in 1 .. Len(c2)
  PROVE  c1[j] # c2[k]
<1>1. Backed(ns, index, s1, p1, c1[j]) /\ Backed(ns, index, s2, p2, c2[k])
  BY DEF IsChain
<1> QED
  BY <1>1 DEF Backed

\* A chain has no more nodes than the pool.
LEMMA ChainFits ==
  ASSUME NEW chain \in Seq(Index),
         \A j, k \in 1 .. Len(chain) : chain[j] = chain[k] => j = k
  PROVE  Len(chain) \in 0 .. MaxLiveOrders
<1> DEFINE L == Len(chain)
<1>1. L \in Nat /\ chain \in [1 .. L -> Index]
  BY LenProperties
<1>2. IsFiniteSet(Index) /\ Cardinality(Index) = MaxLiveOrders
  <2>1. 0 \in Int /\ MaxLiveOrders - 1 \in Int
    BY PoolAssumption
  <2>2. /\ IsFiniteSet(0 .. (MaxLiveOrders - 1))
        /\ Cardinality(0 .. (MaxLiveOrders - 1)) =
             IF 0 > MaxLiveOrders - 1 THEN 0 ELSE (MaxLiveOrders - 1) - 0 + 1
    BY <2>1, FS_Interval
  <2> QED
    BY <2>2, PoolAssumption DEF Index
<1>3. IsFiniteSet(1 .. L) /\ Cardinality(1 .. L) = L
  <2>1. 1 \in Int /\ L \in Int
    BY <1>1
  <2>2. IsFiniteSet(1 .. L) /\ Cardinality(1 .. L) = IF 1 > L THEN 0 ELSE L - 1 + 1
    BY <2>1, FS_Interval
  <2> QED
    BY <2>2, <1>1
<1>4. chain \in Injection(1 .. L, Index)
  BY <1>1 DEF Injection, IsInjective
<1>5. Cardinality(1 .. L) <= Cardinality(Index)
  BY <1>2, <1>3, <1>4, FS_Injection
<1> QED
  BY <1>1, <1>2, <1>3, <1>5, PoolAssumption

\* A record leads to its level and to a node of the level's chain.
LEMMA RecordLocates ==
  ASSUME PoolInv, NEW id \in DOMAIN order_lookup
  PROVE  LET record == order_lookup[id]
             s == record.side
             p == record.price
             n == record.node_index
         IN  /\ id \in OrderId /\ record \in OrderRecord
             /\ s \in Side /\ p \in Price /\ n \in Index /\ p \in DOMAIN levels[s]
             /\ levels[s][p] \in PriceLevel
             /\ nodes[n] \in OrderNode /\ nodes[n].order_id = id
             /\ \E chain \in Seq(Index) :
                  /\ IsChain(nodes, levels[s][p], order_lookup, s, p, chain)
                  /\ \E i \in 1 .. Len(chain) : chain[i] = n
<1> DEFINE record == order_lookup[id]
<1>1. id \in OrderId /\ record \in OrderRecord
  BY DEF PoolInv, ContainersOK, IsMap
<1>2. record.side \in Side /\ record.price \in Price /\ record.node_index \in Index
  BY <1>1 DEF OrderRecord
<1>3. record.price \in DOMAIN levels[record.side] /\ nodes[record.node_index].order_id = id
  BY DEF PoolInv, RecordsLead
<1>4. levels[record.side][record.price] \in PriceLevel /\ nodes[record.node_index] \in OrderNode
  BY <1>2, <1>3 DEF PoolInv, ContainersOK, IsMap
<1>5. PICK chain \in Seq(Index) :
        IsChain(nodes, levels[record.side][record.price], order_lookup,
                record.side, record.price, chain)
  BY <1>2, <1>3 DEF PoolInv, LevelsChained
<1>6. \E i \in 1 .. Len(chain) : chain[i] = record.node_index
  BY <1>5 DEF IsChain
<1> QED
  BY <1>1, <1>2, <1>3, <1>4, <1>5, <1>6

\* A level with other ends and another count, and one with another total.
Reshape(level, head, tail, count) ==
  [level EXCEPT !.head = head, !.tail = tail, !.order_count = count]

Retotal(level, total) == [level EXCEPT !.total_quantity = total]

LEMMA Reshaped ==
  ASSUME NEW level \in PriceLevel, NEW head \in Link, NEW tail \in Link,
         NEW count \in 0 .. MaxLiveOrders
  PROVE  /\ Reshape(level, head, tail, count) \in PriceLevel
         /\ Reshape(level, head, tail, count).head = head
         /\ Reshape(level, head, tail, count).tail = tail
         /\ Reshape(level, head, tail, count).order_count = count
         /\ Reshape(level, head, tail, count).total_quantity = level.total_quantity
BY DEF PriceLevel, Reshape

LEMMA Retotalled ==
  ASSUME NEW level \in PriceLevel, NEW total \in Quantity
  PROVE  /\ Retotal(level, total) \in PriceLevel
         /\ Retotal(level, total).head = level.head
         /\ Retotal(level, total).tail = level.tail
         /\ Retotal(level, total).order_count = level.order_count
         /\ Retotal(level, total).total_quantity = total
BY DEF PriceLevel, Retotal

\* Totals stay words.
LEMMA TotalsClosed ==
  ASSUME NEW level \in PriceLevel, NEW units \in Quantity
  PROVE  /\ Plus(level.total_quantity, units) \in Quantity
         /\ Minus(level.total_quantity, units) \in Quantity
<1>1. level.total_quantity \in Int /\ units \in Int
  BY WordAssumption DEF PriceLevel, Quantity
<1> QED
  BY <1>1, WordClosed

\* What unlink_node() and the subtraction do to the level of a node in the
\* middle or at an end of its chain.
LevelWithout(ns, level, n, units) ==
  [UnlinkedLevel(ns, level, n) EXCEPT !.total_quantity = Minus(@, units)]

LEMMA UnlinkedLevelFields ==
  ASSUME NEW ns, NEW level \in PriceLevel, NEW n, NEW units \in Quantity,
         ns[n].prev \in Link, ns[n].next \in Link, level.order_count # 0
  PROVE  LET after == LevelWithout(ns, level, n, units)
         IN  /\ after \in PriceLevel
             /\ after.order_count = level.order_count - 1
             /\ after.head = IF ns[n].prev # npos THEN level.head ELSE ns[n].next
             /\ after.tail = IF ns[n].next # npos THEN level.tail ELSE ns[n].prev
             /\ after.total_quantity = Minus(level.total_quantity, units)
<1>1. PICK head \in Link : head = IF ns[n].prev # npos THEN level.head ELSE ns[n].next
  BY DEF PriceLevel
<1>2. PICK tail \in Link : tail = IF ns[n].next # npos THEN level.tail ELSE ns[n].prev
  BY DEF PriceLevel
<1>3. PICK count \in 0 .. MaxLiveOrders : count = level.order_count - 1
  BY PoolAssumption DEF PriceLevel
<1>4. UnlinkedLevel(ns, level, n) = Reshape(level, head, tail, count)
  BY <1>1, <1>2, <1>3, Zenon DEF UnlinkedLevel, Reshape
<1>5. PICK unlinked \in PriceLevel :
        /\ unlinked = UnlinkedLevel(ns, level, n)
        /\ unlinked.head = head /\ unlinked.tail = tail /\ unlinked.order_count = count
        /\ unlinked.total_quantity = level.total_quantity
  <2>1. LET shape == Reshape(level, head, tail, count)
        IN  /\ shape \in PriceLevel /\ shape.head = head /\ shape.tail = tail
            /\ shape.order_count = count /\ shape.total_quantity = level.total_quantity
    BY Reshaped
  <2> QED
    BY <1>4, <2>1, Zenon
<1>6. LevelWithout(ns, level, n, units)
        = Retotal(unlinked, Minus(unlinked.total_quantity, units))
  BY <1>5, Zenon DEF Retotal, LevelWithout
<1>7. Minus(unlinked.total_quantity, units) \in Quantity
  BY TotalsClosed
<1>8. LET after == Retotal(unlinked, Minus(unlinked.total_quantity, units))
      IN  /\ after \in PriceLevel /\ after.order_count = count
          /\ after.head = head /\ after.tail = tail
          /\ after.total_quantity = Minus(level.total_quantity, units)
  BY <1>5, <1>7, Retotalled
<1> QED
  BY <1>1, <1>2, <1>3, <1>6, <1>8

-----------------------------------------------------------------------------
(* Removing an order *)

\* What remove_existing_order() leaves of each container, if the record of id
\* leads to node n of the level at side s and price p with count orders.
Removal(id, s, p, n, count) ==
  /\ nodes' \in [Index -> OrderNode]
  /\ nodes'[n] = UnusedNode
  /\ \A x \in Index \ {n} : nodes'[x] = UnlinkedNodes(nodes, n)[x]
  /\ DOMAIN order_lookup' = DOMAIN order_lookup \ {id}
  /\ \A x \in DOMAIN order_lookup' : order_lookup'[x] = order_lookup[x]
  /\ IsMap(order_lookup', OrderId, OrderRecord)
  /\ DOMAIN levels' = Side
  /\ \A t \in Side : IsMap(levels'[t], Price, PriceLevel)
  /\ \A t \in Side, x \in Price : ~(t = s /\ x = p) =>
       /\ x \in DOMAIN levels'[t] <=> x \in DOMAIN levels[t]
       /\ x \in DOMAIN levels[t] => levels'[t][x] = levels[t][x]
  /\ p \in DOMAIN levels'[s] <=> count # 1
  /\ count # 1 =>
       /\ levels'[s][p].order_count = count - 1
       /\ levels'[s][p].head =
            IF nodes[n].prev # npos THEN levels[s][p].head ELSE nodes[n].next
       /\ levels'[s][p].tail =
            IF nodes[n].next # npos THEN levels[s][p].tail ELSE nodes[n].prev
       /\ levels'[s][p].total_quantity =
            Minus(levels[s][p].total_quantity, order_lookup[id].quantity)
  /\ free_indices' = Append(free_indices, n)

LEMMA RemoveEffect ==
  ASSUME PoolInv, NEW id \in DOMAIN order_lookup, remove_existing_order(id),
         NEW s, NEW p, NEW n, NEW chain \in Seq(Index),
         order_lookup[id].side = s, order_lookup[id].price = p,
         order_lookup[id].node_index = n,
         IsChain(nodes, levels[s][p], order_lookup, s, p, chain)
  PROVE  Removal(id, s, p, n, Len(chain))
<1>1. /\ s \in Side /\ p \in Price /\ n \in Index /\ p \in DOMAIN levels[s]
      /\ levels[s][p] \in PriceLevel /\ nodes[n] \in OrderNode
      /\ order_lookup[id] \in OrderRecord
  BY RecordLocates
<1>2. /\ nodes[n].prev \in Link /\ nodes[n].next \in Link
      /\ order_lookup[id].quantity \in Quantity
      /\ levels[s][p].order_count = Len(chain) /\ Len(chain) # 0 /\ Len(chain) \in Nat
  BY <1>1, LenProperties DEF OrderNode, OrderRecord, IsChain
<1>3. PICK level \in PriceLevel :
        /\ level = LevelWithout(nodes, levels[s][p], n, order_lookup[id].quantity)
        /\ level.order_count = Len(chain) - 1
        /\ level.head = IF nodes[n].prev # npos THEN levels[s][p].head ELSE nodes[n].next
        /\ level.tail = IF nodes[n].next # npos THEN levels[s][p].tail ELSE nodes[n].prev
        /\ level.total_quantity =
             Minus(levels[s][p].total_quantity, order_lookup[id].quantity)
  <2>1. LET level == LevelWithout(nodes, levels[s][p], n, order_lookup[id].quantity)
        IN  /\ level \in PriceLevel
            /\ level.order_count = levels[s][p].order_count - 1
            /\ level.head = IF nodes[n].prev # npos THEN levels[s][p].head ELSE nodes[n].next
            /\ level.tail = IF nodes[n].next # npos THEN levels[s][p].tail ELSE nodes[n].prev
            /\ level.total_quantity =
                 Minus(levels[s][p].total_quantity, order_lookup[id].quantity)
    BY <1>1, <1>2, UnlinkedLevelFields
  <2> QED
    BY <2>1, <1>2, Zenon
<1>4. /\ nodes' = [UnlinkedNodes(nodes, n) EXCEPT ![n] = UnusedNode]
      /\ free_indices' = Append(free_indices, n)
      /\ levels' = [levels EXCEPT ![s] = IF level.order_count = 0
                                         THEN Drop(levels[s], p) ELSE Put(levels[s], p, level)]
      /\ order_lookup' = Drop(order_lookup, id)
  BY <1>3, Zenon DEF remove_existing_order, LevelWithout
<1>5. UnusedNode \in OrderNode
  BY LinkWords, WordAssumption DEF UnusedNode, OrderNode, Quantity
<1>6. UnlinkedNodes(nodes, n) \in [Index -> OrderNode]
  BY <1>1, UnlinkedFields DEF PoolInv, ContainersOK
<1>7. /\ nodes' \in [Index -> OrderNode] /\ nodes'[n] = UnusedNode
      /\ \A x \in Index \ {n} : nodes'[x] = UnlinkedNodes(nodes, n)[x]
  BY <1>1, <1>4, <1>5, <1>6
<1>8. /\ DOMAIN order_lookup' = DOMAIN order_lookup \ {id}
      /\ \A x \in DOMAIN order_lookup' : order_lookup'[x] = order_lookup[x]
      /\ IsMap(order_lookup', OrderId, OrderRecord)
  BY <1>4 DEF Drop, IsMap, PoolInv, ContainersOK
<1>9. DOMAIN levels = Side /\ \A t \in Side : IsMap(levels[t], Price, PriceLevel)
  BY DEF PoolInv, ContainersOK
<1>10. level.order_count = 0 <=> Len(chain) = 1
  BY <1>2, <1>3
<1>11. CASE Len(chain) = 1
  <2>1. levels' = [levels EXCEPT ![s] = Drop(levels[s], p)]
    BY <1>4, <1>10, <1>11
  <2>2. /\ DOMAIN Drop(levels[s], p) = DOMAIN levels[s] \ {p}
        /\ \A x \in DOMAIN levels[s] \ {p} : Drop(levels[s], p)[x] = levels[s][x]
        /\ IsMap(Drop(levels[s], p), Price, PriceLevel)
    BY <1>1, <1>9 DEF Drop, IsMap
  <2> QED
    BY <2>1, <2>2, <1>1, <1>4, <1>7, <1>8, <1>9, <1>11 DEF Removal
<1>12. CASE Len(chain) # 1
  <2>1. levels' = [levels EXCEPT ![s] = Put(levels[s], p, level)]
    BY <1>4, <1>10, <1>12
  <2>2. /\ DOMAIN Put(levels[s], p, level) = DOMAIN levels[s] \cup {p}
        /\ Put(levels[s], p, level)[p] = level
        /\ \A x \in DOMAIN levels[s] \ {p} : Put(levels[s], p, level)[x] = levels[s][x]
        /\ IsMap(Put(levels[s], p, level), Price, PriceLevel)
    BY <1>1, <1>9 DEF Put, IsMap
  <2> HIDE DEF PriceLevel
  <2>3. /\ DOMAIN levels' = Side
        /\ \A t \in Side : IsMap(levels'[t], Price, PriceLevel)
        /\ \A t \in Side, x \in Price : ~(t = s /\ x = p) =>
              /\ x \in DOMAIN levels'[t] <=> x \in DOMAIN levels[t]
              /\ x \in DOMAIN levels[t] => levels'[t][x] = levels[t][x]
        /\ p \in DOMAIN levels'[s] /\ levels'[s][p] = level
    BY <2>1, <2>2, <1>1, <1>9
  <2> QED
    BY <2>3, <1>3, <1>4, <1>7, <1>8, <1>12 DEF Removal
<1> QED
  BY <1>11, <1>12

\* The chain without its i-th node is the chain of the level that is left.
LEMMA RemoveShortensChain ==
  ASSUME PoolInv, NEW id \in DOMAIN order_lookup, remove_existing_order(id),
         NEW s, NEW p, NEW n, NEW chain \in Seq(Index), NEW i \in 1 .. Len(chain),
         order_lookup[id].side = s, order_lookup[id].price = p,
         order_lookup[id].node_index = n, chain[i] = n,
         IsChain(nodes, levels[s][p], order_lookup, s, p, chain), Len(chain) # 1
  PROVE  /\ RemoveAt(chain, i) \in Seq(Index)
         /\ IsChain(nodes', levels'[s][p], order_lookup', s, p, RemoveAt(chain, i))
<1> DEFINE L    == Len(chain)
           rest == RemoveAt(chain, i)
<1>0. Removal(id, s, p, n, L)
  BY RemoveEffect
<1>1. /\ s \in Side /\ p \in Price /\ n \in Index /\ nodes[n].order_id = id
      /\ nodes \in [Index -> OrderNode]
  BY RecordLocates DEF PoolInv, ContainersOK
<1>2. L \in Nat /\ L > 1 /\ i \in 1 .. L
  <2>1. L \in Nat /\ L # 0 /\ L # 1 /\ i \in 1 .. L
    BY LenProperties DEF IsChain
  <2> HIDE DEF L
  <2> QED
    BY <2>1
<1>3. /\ rest \in Seq(Index) /\ Len(rest) = L - 1
      /\ \A k \in 1 .. (L - 1) : rest[k] = IF k < i THEN chain[k] ELSE chain[k + 1]
      /\ \A k \in 1 .. L : chain[k] \in Index
  BY <1>2, RemoveAtProperties, ElementOfSeq
<1>4. /\ Linked(UnlinkedNodes(nodes, n), rest)
      /\ \A k \in 1 .. (L - 1) : rest[k] # n
  BY <1>1, <1>3, LinkedRemove DEF IsChain
<1>5. \A k \in 1 .. (L - 1) : /\ rest[k] \in Index
                              /\ nodes'[rest[k]] = UnlinkedNodes(nodes, n)[rest[k]]
  BY <1>0, <1>2, <1>3, <1>4 DEF Removal
<1>6. Linked(nodes', rest)
  BY <1>3, <1>4, <1>5, LinkedLocal
<1>7. \A k \in 1 .. (L - 1) : SamePayload(nodes'[rest[k]], nodes[rest[k]])
  BY <1>1, <1>5, UnlinkedFields
<1>8. ASSUME NEW k \in 1 .. (L - 1)
      PROVE  Backed(nodes', order_lookup', s, p, rest[k])
  <2>1. Backed(nodes, order_lookup, s, p, rest[k])
    <3>1. \A j \in 1 .. L : Backed(nodes, order_lookup, s, p, chain[j])
      BY DEF IsChain
    <3>2. k \in 1 .. L /\ k + 1 \in 1 .. L
      BY <1>2
    <3> QED
      BY <1>3, <3>1, <3>2
  <2>2. nodes[rest[k]].order_id # id
    BY <2>1, <1>4 DEF Backed
  <2>3. DOMAIN order_lookup' = DOMAIN order_lookup \ {id}
        /\ \A x \in DOMAIN order_lookup' : order_lookup'[x] = order_lookup[x]
    BY <1>0 DEF Removal
  <2> QED
    BY <2>1, <2>2, <2>3, <1>7 DEF Backed, SamePayload
<1>9. ASSUME NEW x \in DOMAIN order_lookup', order_lookup'[x].side = s,
             order_lookup'[x].price = p
      PROVE  \E k \in 1 .. (L - 1) : rest[k] = order_lookup'[x].node_index
  <2>1. x \in DOMAIN order_lookup /\ x # id /\ order_lookup'[x] = order_lookup[x]
    BY <1>0 DEF Removal
  <2>2. PICK m \in 1 .. L : chain[m] = order_lookup[x].node_index
    BY <2>1, <1>9 DEF IsChain
  <2>3. m # i
    BY <2>1, <2>2, <1>1 DEF PoolInv, RecordsLead
  <2>4. CASE m < i
    <3>1. m \in 1 .. (L - 1)
      BY <2>4, <1>2
    <3>2. rest[m] = chain[m]
      BY <3>1, <2>4, <1>3
    <3> QED
      BY <2>1, <2>2, <3>1, <3>2
  <2>5. CASE m > i
    <3>1. m - 1 \in 1 .. (L - 1) /\ (m - 1) + 1 = m /\ ~(m - 1 < i)
      BY <2>5, <1>2
    <3>2. rest[m - 1] = chain[m]
      BY <3>1, <1>3
    <3> QED
      BY <2>1, <2>2, <3>1, <3>2
  <2> QED
    BY <2>3, <2>4, <2>5, <1>2
<1>10. /\ levels'[s][p].head = rest[1] /\ levels'[s][p].tail = rest[L - 1]
       /\ levels'[s][p].order_count = L - 1
  <2>1. /\ nodes[n].prev = IF i = 1 THEN npos ELSE chain[i - 1]
        /\ nodes[n].next = IF i = L THEN npos ELSE chain[i + 1]
        /\ levels[s][p].head = chain[1] /\ levels[s][p].tail = chain[L]
    BY <1>2 DEF IsChain, Linked
  <2>2. /\ levels'[s][p].order_count = L - 1
        /\ levels'[s][p].head =
             IF nodes[n].prev # npos THEN levels[s][p].head ELSE nodes[n].next
        /\ levels'[s][p].tail =
             IF nodes[n].next # npos THEN levels[s][p].tail ELSE nodes[n].prev
    BY <1>0 DEF Removal
  <2>3. /\ i # 1 => chain[i - 1] # npos
        /\ i # L => chain[i + 1] # npos
    BY <1>2, <1>3, LinkWords
  <2>4. levels'[s][p].head = rest[1]
    <3>1. rest[1] = IF i = 1 THEN chain[2] ELSE chain[1]
      BY <1>2, <1>3
    <3> QED
      BY <2>1, <2>2, <2>3, <3>1, <1>2
  <2>5. levels'[s][p].tail = rest[L - 1]
    <3>1. rest[L - 1] = IF i = L THEN chain[L - 1] ELSE chain[L]
      BY <1>2, <1>3
    <3> QED
      BY <2>1, <2>2, <2>3, <3>1, <1>2
  <2> QED
    BY <2>2, <2>4, <2>5
<1> QED
  BY <1>2, <1>3, <1>6, <1>8, <1>9, <1>10 DEF IsChain

\* Every other chain stays as it is.
LEMMA RemoveElsewhere ==
  ASSUME PoolInv, NEW id \in DOMAIN order_lookup, remove_existing_order(id),
         NEW s, NEW p, NEW t \in Side, NEW x \in DOMAIN levels[t], NEW other \in Seq(Index),
         order_lookup[id].side = s, order_lookup[id].price = p, ~(t = s /\ x = p),
         IsChain(nodes, levels[t][x], order_lookup, t, x, other)
  PROVE  IsChain(nodes', levels'[t][x], order_lookup', t, x, other)
<1>n. PICK n \in Index : order_lookup[id].node_index = n
  BY RecordLocates
<1>c. PICK chain \in Seq(Index) :
        /\ IsChain(nodes, levels[s][p], order_lookup, s, p, chain)
        /\ \E i \in 1 .. Len(chain) : chain[i] = n
  BY <1>n, RecordLocates
<1>1. PICK i \in 1 .. Len(chain) :
        /\ order_lookup[id].node_index = n /\ chain[i] = n
        /\ IsChain(nodes, levels[s][p], order_lookup, s, p, chain)
  BY <1>n, <1>c
<1>0. Removal(id, s, p, n, Len(chain))
  BY <1>1, RemoveEffect
<1>2. nodes \in [Index -> OrderNode] /\ \A k \in 1 .. Len(other) : other[k] \in Index
  BY ElementOfSeq DEF PoolInv, ContainersOK
<1>3. ASSUME NEW k \in 1 .. Len(other)
      PROVE  nodes'[other[k]] = nodes[other[k]]
  <2>1. \A j \in 1 .. Len(chain) : other[k] # chain[j]
    BY <1>1, ChainsDisjoint
  <2>2. /\ nodes[n].prev = IF i = 1 THEN npos ELSE chain[i - 1]
        /\ nodes[n].next = IF i = Len(chain) THEN npos ELSE chain[i + 1]
    BY <1>1 DEF IsChain, Linked
  <2>3. other[k] # nodes[n].prev /\ other[k] # nodes[n].next /\ other[k] # n
    <3>1. /\ i # 1 => i - 1 \in 1 .. Len(chain)
          /\ i # Len(chain) => i + 1 \in 1 .. Len(chain)
      BY LenProperties
    <3> QED
      BY <2>1, <2>2, <3>1, <1>1, <1>2, LinkWords
  <2>4. nodes'[other[k]] = UnlinkedNodes(nodes, n)[other[k]]
    BY <2>3, <1>0, <1>2 DEF Removal
  <2>5. UnlinkedNodes(nodes, n)[other[k]] = nodes[other[k]]
    BY <2>3, <1>2, UnlinkApart
  <2> QED
    BY <2>4, <2>5
<1>4. /\ x \in Price /\ levels'[t][x] = levels[t][x]
      /\ DOMAIN order_lookup' = DOMAIN order_lookup \ {id}
      /\ \A y \in DOMAIN order_lookup' : order_lookup'[y] = order_lookup[y]
  <2>1. x \in Price
    BY DEF PoolInv, ContainersOK, IsMap
  <2> QED
    BY <2>1, <1>0 DEF Removal
<1> QED
  BY <1>3, <1>4, ChainElsewhere

LEMMA RemoveKeeps ==
  ASSUME PoolInv, NEW id \in DOMAIN order_lookup, remove_existing_order(id)
  PROVE  PoolInv'
<1>s. PICK s \in Side : order_lookup[id].side = s
  BY RecordLocates
<1>p. PICK p \in Price : order_lookup[id].price = p
  BY RecordLocates
<1>n. PICK n \in Index : order_lookup[id].node_index = n
  BY RecordLocates
<1>c. PICK chain \in Seq(Index) :
        /\ IsChain(nodes, levels[s][p], order_lookup, s, p, chain)
        /\ \E i \in 1 .. Len(chain) : chain[i] = n
  BY <1>s, <1>p, <1>n, RecordLocates
<1>i. PICK i \in 1 .. Len(chain) : chain[i] = n
  BY <1>c
<1>1. Removal(id, s, p, n, Len(chain))
  BY <1>s, <1>p, <1>n, <1>c, RemoveEffect
<1>2. nodes[n].order_id = id /\ nodes \in [Index -> OrderNode] /\ free_indices \in Seq(Index)
  BY <1>n, RecordLocates DEF PoolInv, ContainersOK
\* The node of another order is another node and keeps its payload.
<1>3. ASSUME NEW x \in DOMAIN order_lookup'
      PROVE  /\ x \in DOMAIN order_lookup /\ x # id /\ order_lookup'[x] = order_lookup[x]
             /\ order_lookup[x].node_index \in Index /\ order_lookup[x].node_index # n
             /\ nodes[order_lookup[x].node_index].order_id = x
  <2>1. x \in DOMAIN order_lookup /\ x # id /\ order_lookup'[x] = order_lookup[x]
    BY <1>1 DEF Removal
  <2> QED
    BY <2>1, <1>2, RecordLocates
<1>4. ASSUME NEW y \in Index, y # n
      PROVE  SamePayload(nodes'[y], nodes[y])
  BY <1>1, <1>2, <1>4, UnlinkedFields DEF Removal
<1>5. ContainersOK'
  <2>1. free_indices' \in Seq(Index)
    BY <1>1, <1>2, AppendProperties DEF Removal
  <2> QED
    BY <2>1, <1>1 DEF Removal, ContainersOK
<1>6. LevelsChained'
  <2> SUFFICES ASSUME NEW t \in Side, NEW x \in DOMAIN levels'[t]
               PROVE  \E c \in Seq(Index) : IsChain(nodes', levels'[t][x], order_lookup', t, x, c)
    BY DEF LevelsChained
  <2>1. CASE t = s /\ x = p
    <3>1. Len(chain) # 1
      BY <2>1, <1>1 DEF Removal
    <3> QED
      BY <2>1, <3>1, <1>s, <1>p, <1>n, <1>c, <1>i, RemoveShortensChain
  <2>2. CASE ~(t = s /\ x = p)
    <3>1. x \in Price /\ x \in DOMAIN levels[t]
      BY <2>2, <1>1 DEF Removal, IsMap
    <3>2. PICK other \in Seq(Index) : IsChain(nodes, levels[t][x], order_lookup, t, x, other)
      BY <3>1 DEF PoolInv, LevelsChained
    <3> QED
      BY <2>2, <3>1, <3>2, <1>s, <1>p, RemoveElsewhere
  <2> QED
    BY <2>1, <2>2
<1>7. RecordsLead'
  <2> SUFFICES ASSUME NEW x \in DOMAIN order_lookup'
               PROVE  /\ order_lookup'[x].price \in DOMAIN levels'[order_lookup'[x].side]
                      /\ nodes'[order_lookup'[x].node_index].order_id = x
    BY DEF RecordsLead
  <2>1. nodes'[order_lookup'[x].node_index].order_id = x
    BY <1>3, <1>4 DEF SamePayload
  <2>2. PICK t \in Side : order_lookup[x].side = t
    BY <1>3, RecordLocates
  <2>3. PICK q \in Price : order_lookup[x].price = q /\ q \in DOMAIN levels[t]
    BY <1>3, <2>2, RecordLocates
  <2>4. CASE t = s /\ q = p
    <3>1. PICK k \in 1 .. Len(chain) : chain[k] = order_lookup[x].node_index
      BY <2>2, <2>3, <2>4, <1>3, <1>c DEF IsChain
    <3>2. k # i
      BY <3>1, <1>3, <1>i
    <3>3. Len(chain) # 1
      <4> DEFINE L == Len(chain)
      <4>1. k \in 1 .. L /\ i \in 1 .. L /\ L \in Nat
        BY LenProperties
      <4> HIDE DEF L
      <4>2. L # 1
        BY <4>1, <3>2
      <4> QED
        BY <4>2 DEF L
    <3> QED
      BY <2>1, <2>2, <2>3, <2>4, <3>3, <1>1, <1>3 DEF Removal
  <2>5. CASE ~(t = s /\ q = p)
    BY <2>1, <2>2, <2>3, <2>5, <1>1, <1>3 DEF Removal
  <2> QED
    BY <2>4, <2>5
<1>8. StackOK'
  <2> DEFINE F == Len(free_indices)
  <2>1. /\ F \in Nat /\ Len(free_indices') = F + 1 /\ free_indices'[F + 1] = n
        /\ \A k \in 1 .. F : free_indices'[k] = free_indices[k]
    BY <1>1, <1>2, AppendProperties, LenProperties DEF Removal
  <2>2. Owned(order_lookup, n) /\ ~OnStack(free_indices, n)
    BY <1>n DEF Owned, PoolInv, StackOK
  <2>3. \A k \in 1 .. F : free_indices[k] # n
    BY <2>2 DEF OnStack
  <2> HIDE DEF F
  <2>4. \A j, k \in 1 .. F : free_indices[j] = free_indices[k] => j = k
    BY DEF F, PoolInv, StackOK
  <2>5. \A j, k \in 1 .. (F + 1) : free_indices'[j] = free_indices'[k] => j = k
    BY <2>1, <2>3, <2>4
  <2>6. ASSUME NEW y \in Index
        PROVE  /\ OnStack(free_indices', y) <=> y = n \/ OnStack(free_indices, y)
               /\ Owned(order_lookup', y) <=> y # n /\ Owned(order_lookup, y)
    <3>1. OnStack(free_indices', y) <=> y = n \/ OnStack(free_indices, y)
      BY <2>1 DEF OnStack, F
    <3>2. Owned(order_lookup', y) => y # n /\ Owned(order_lookup, y)
      BY <1>3 DEF Owned
    <3>3. y # n /\ Owned(order_lookup, y) => Owned(order_lookup', y)
      BY <1>n, <1>1 DEF Owned, Removal
    <3> QED
      BY <3>1, <3>2, <3>3
  <2>7. ASSUME NEW y \in Index
        PROVE  /\ OnStack(free_indices', y) <=> ~Owned(order_lookup', y)
               /\ nodes'[y].active <=> Owned(order_lookup', y)
               /\ OnStack(free_indices', y) => nodes'[y] = UnusedNode
    <3>1. /\ OnStack(free_indices, y) <=> ~Owned(order_lookup, y)
          /\ nodes[y].active <=> Owned(order_lookup, y)
          /\ OnStack(free_indices, y) => nodes[y] = UnusedNode
      BY DEF PoolInv, StackOK
    <3>2. CASE y = n
      BY <3>2, <2>6, <1>1 DEF Removal, UnusedNode
    <3>3. CASE y # n /\ Owned(order_lookup, y)
      BY <3>1, <3>3, <2>6, <1>4 DEF SamePayload
    <3>4. CASE y # n /\ ~Owned(order_lookup, y)
      <4>1. nodes[y] = UnusedNode
        BY <3>1, <3>4
      <4>2. nodes'[y] = nodes[y]
        <5>1. \A k \in 1 .. Len(chain) : chain[k] # y
          BY <3>4, <1>c DEF IsChain, Backed, Owned
        <5>2. /\ nodes[n].prev = IF i = 1 THEN npos ELSE chain[i - 1]
              /\ nodes[n].next = IF i = Len(chain) THEN npos ELSE chain[i + 1]
          BY <1>c, <1>i DEF IsChain, Linked
        <5>3. /\ i # 1 => i - 1 \in 1 .. Len(chain)
              /\ i # Len(chain) => i + 1 \in 1 .. Len(chain)
          BY LenProperties
        <5>4. y # nodes[n].prev /\ y # nodes[n].next
          BY <5>1, <5>2, <5>3, LinkWords
        <5> QED
          BY <5>4, <3>4, <1>1, <1>2, UnlinkApart DEF Removal
      <4> QED
        BY <3>1, <3>4, <4>1, <4>2, <2>6
    <3> QED
      BY <3>2, <3>3, <3>4
  <2> QED
    BY <2>1, <2>5, <2>7 DEF StackOK
<1> QED
  BY <1>5, <1>6, <1>7, <1>8 DEF PoolInv

-----------------------------------------------------------------------------
(* Adding an order *)

\* Two nodes that agree in every field are the same.
LEMMA SameNode ==
  ASSUME NEW a \in OrderNode, NEW b \in OrderNode, SamePayload(a, b),
         a.prev = b.prev, a.next = b.next
  PROVE  a = b
BY DEF OrderNode, SamePayload

\* A node with the order written into it.
Filled(node, id, timestamp, quantity) ==
  [node EXCEPT !.order_id = id, !.timestamp = timestamp, !.quantity = quantity,
               !.active = TRUE]

LEMMA FilledFields ==
  ASSUME NEW node \in OrderNode, NEW id \in OrderId, NEW timestamp \in Timestamp,
         NEW quantity \in Quantity
  PROVE  LET after == Filled(node, id, timestamp, quantity)
         IN  /\ after \in OrderNode /\ after.prev = node.prev /\ after.next = node.next
             /\ after.order_id = id /\ after.timestamp = timestamp
             /\ after.quantity = quantity /\ after.active
BY DEF OrderNode, Filled

\* What append_node() and the addition do to the level.
LevelWith(level, n, units) ==
  [AppendedLevel(level, n) EXCEPT !.total_quantity = Plus(@, units)]

LEMMA AppendedLevelFields ==
  ASSUME NEW level \in PriceLevel, NEW n \in Index, NEW units \in Quantity,
         level.order_count + 1 \in 0 .. MaxLiveOrders
  PROVE  LET after == LevelWith(level, n, units)
         IN  /\ after \in PriceLevel
             /\ after.order_count = level.order_count + 1
             /\ after.head = IF level.tail # npos THEN level.head ELSE n
             /\ after.tail = n
             /\ after.total_quantity = Plus(level.total_quantity, units)
<1>1. PICK head \in Link : head = IF level.tail # npos THEN level.head ELSE n
  BY LinkWords DEF PriceLevel
<1>2. n \in Link
  BY LinkWords
<1>3. PICK count \in 0 .. MaxLiveOrders : count = level.order_count + 1
  OBVIOUS
<1>4. AppendedLevel(level, n) = Reshape(level, head, n, count)
  BY <1>1, <1>3, Zenon DEF AppendedLevel, Reshape
<1>5. PICK appended \in PriceLevel :
        /\ appended = AppendedLevel(level, n)
        /\ appended.head = head /\ appended.tail = n /\ appended.order_count = count
        /\ appended.total_quantity = level.total_quantity
  <2>1. LET shape == Reshape(level, head, n, count)
        IN  /\ shape \in PriceLevel /\ shape.head = head /\ shape.tail = n
            /\ shape.order_count = count /\ shape.total_quantity = level.total_quantity
    BY <1>2, Reshaped
  <2> QED
    BY <1>4, <2>1, Zenon
<1>6. LevelWith(level, n, units)
        = Retotal(appended, Plus(appended.total_quantity, units))
  BY <1>5, Zenon DEF Retotal, LevelWith
<1>7. Plus(appended.total_quantity, units) \in Quantity
  BY TotalsClosed
<1>8. LET after == Retotal(appended, Plus(appended.total_quantity, units))
      IN  /\ after \in PriceLevel /\ after.order_count = count
          /\ after.head = head /\ after.tail = n
          /\ after.total_quantity = Plus(level.total_quantity, units)
  BY <1>5, <1>7, Retotalled
<1> QED
  BY <1>1, <1>3, <1>6, <1>8

\* The chain of a level, present or not.
ChainAt(s, p, chain) ==
  IF p \in DOMAIN levels[s]
  THEN IsChain(nodes, levels[s][p], order_lookup, s, p, chain)
  ELSE chain = << >>

\* A node from the free stack fits at the end of any chain.
LEMMA RoomAtLevel ==
  ASSUME PoolInv, NEW s \in Side, NEW p \in Price, NEW n \in Index,
         ~Owned(order_lookup, n)
  PROVE  /\ LevelAt(s, p) \in PriceLevel
         /\ LevelAt(s, p).tail # n
         /\ LevelAt(s, p).order_count + 1 \in 0 .. MaxLiveOrders
         /\ \E chain \in Seq(Index) :
              /\ ChainAt(s, p, chain)
              /\ LevelAt(s, p).order_count = Len(chain)
              /\ \A k \in 1 .. Len(chain) : chain[k] # n
<1>1. CASE p \in DOMAIN levels[s]
  <2>1. PICK chain \in Seq(Index) :
          IsChain(nodes, levels[s][p], order_lookup, s, p, chain)
    BY <1>1 DEF PoolInv, LevelsChained
  <2>2. LevelAt(s, p) = levels[s][p] /\ levels[s][p] \in PriceLevel
    BY <1>1 DEF LevelAt, PoolInv, ContainersOK, IsMap
  <2>3. \A k \in 1 .. Len(chain) : chain[k] # n
    BY <2>1 DEF IsChain, Backed, Owned
  <2> DEFINE L     == Len(chain)
             grown == Append(chain, n)
  <2>4. /\ L \in Nat /\ L # 0 /\ grown \in Seq(Index) /\ Len(grown) = L + 1
        /\ grown[L + 1] = n /\ \A k \in 1 .. L : grown[k] = chain[k]
        /\ levels[s][p].order_count = L /\ levels[s][p].tail = chain[L]
    BY <2>1, AppendProperties, LenProperties DEF IsChain
  <2>5. \A j, k \in 1 .. L : chain[j] = chain[k] => j = k
    BY <2>1 DEF IsChain, Linked
  <2>6. \A k \in 1 .. L : chain[k] # n
    BY <2>3
  <2> HIDE DEF L, grown
  <2>7. \A j, k \in 1 .. (L + 1) : grown[j] = grown[k] => j = k
    BY <2>4, <2>5, <2>6
  <2>8. L + 1 \in 0 .. MaxLiveOrders
    BY <2>4, <2>7, ChainFits
  <2>9. chain[L] # n
    BY <2>4, <2>6
  <2> QED
    BY <1>1, <2>1, <2>2, <2>4, <2>3, <2>8, <2>9 DEF ChainAt, L
<1>2. CASE p \notin DOMAIN levels[s]
  <2>1. LevelAt(s, p) = EmptyLevel
    BY <1>2 DEF LevelAt
  <2>2. /\ EmptyLevel \in PriceLevel /\ EmptyLevel.order_count = 0
        /\ EmptyLevel.tail = npos
    BY LinkWords, WordAssumption, PoolAssumption DEF EmptyLevel, PriceLevel, Quantity
  <2>3. /\ npos # n /\ 0 + 1 \in 0 .. MaxLiveOrders
    BY LinkWords, PoolAssumption DEF Index
  <2>4. /\ << >> \in Seq(Index) /\ Len(<< >>) = 0 /\ 1 .. 0 = {}
    OBVIOUS
  <2> QED
    BY <1>2, <2>1, <2>2, <2>3, <2>4 DEF ChainAt
<1> QED
  BY <1>1, <1>2

\* What a successful add_order() leaves of each container, if n is the index on
\* top of the free stack and level the level found or created.
Addition(id, s, p, quantity, timestamp, n, level) ==
  /\ nodes' \in [Index -> OrderNode]
  /\ nodes'[n].order_id = id /\ nodes'[n].timestamp = timestamp
  /\ nodes'[n].quantity = quantity /\ nodes'[n].active
  /\ \A x \in Index \ {n} : /\ SamePayload(nodes'[x], nodes[x])
                            /\ x # level.tail => nodes'[x] = nodes[x]
  /\ DOMAIN order_lookup' = DOMAIN order_lookup \cup {id}
  /\ \A x \in DOMAIN order_lookup : order_lookup'[x] = order_lookup[x]
  /\ order_lookup'[id] = [side |-> s, price |-> p, timestamp |-> timestamp,
                          quantity |-> quantity, node_index |-> n]
  /\ IsMap(order_lookup', OrderId, OrderRecord)
  /\ DOMAIN levels' = Side
  /\ \A t \in Side : IsMap(levels'[t], Price, PriceLevel)
  /\ \A t \in Side, x \in Price : ~(t = s /\ x = p) =>
       /\ x \in DOMAIN levels'[t] <=> x \in DOMAIN levels[t]
       /\ x \in DOMAIN levels[t] => levels'[t][x] = levels[t][x]
  /\ p \in DOMAIN levels'[s]
  /\ levels'[s][p].order_count = level.order_count + 1
  /\ levels'[s][p].head = IF level.tail # npos THEN level.head ELSE n
  /\ levels'[s][p].tail = n
  /\ levels'[s][p].total_quantity = Plus(level.total_quantity, quantity)
  /\ free_indices' = Front(free_indices)

LEMMA AddEffect ==
  ASSUME PoolInv, NEW id \in OrderId, NEW s \in Side, NEW p \in Price,
         NEW quantity \in Quantity, NEW timestamp \in Timestamp,
         quantity # 0, id \notin DOMAIN order_lookup, free_indices # << >>,
         add_order(id, s, p, quantity, timestamp),
         NEW n \in Index, n = Last(free_indices),
         NEW level \in PriceLevel, level = LevelAt(s, p), level.tail # n,
         level.order_count + 1 \in 0 .. MaxLiveOrders
  PROVE  /\ Addition(id, s, p, quantity, timestamp, n, level)
         /\ \E filled \in [Index -> OrderNode] :
              /\ nodes' = AppendedNodes(filled, level, n)
              /\ \A x \in Index \ {n} : filled[x] = nodes[x]
<1>1. nodes \in [Index -> OrderNode] /\ IsMap(order_lookup, OrderId, OrderRecord)
  BY DEF PoolInv, ContainersOK
<1>2. PICK node \in OrderNode : node = Filled(nodes[n], id, timestamp, quantity)
  BY <1>1, FilledFields
<1>3. /\ node.order_id = id /\ node.timestamp = timestamp
      /\ node.quantity = quantity /\ node.active
  BY <1>1, <1>2, FilledFields
<1>4. PICK filled \in [Index -> OrderNode] : filled = [nodes EXCEPT ![n] = node]
  BY <1>1
<1>5. filled[n] = node /\ \A x \in Index \ {n} : filled[x] = nodes[x]
  BY <1>1, <1>4
<1>6. PICK grown \in PriceLevel :
        /\ grown = LevelWith(level, n, quantity)
        /\ grown.order_count = level.order_count + 1
        /\ grown.head = IF level.tail # npos THEN level.head ELSE n
        /\ grown.tail = n
        /\ grown.total_quantity = Plus(level.total_quantity, quantity)
  BY AppendedLevelFields
<1>r. PICK record \in OrderRecord :
        record = [side |-> s, price |-> p, timestamp |-> timestamp,
                  quantity |-> quantity, node_index |-> n]
  BY DEF OrderRecord
<1>7. /\ free_indices' = Front(free_indices)
      /\ nodes' = AppendedNodes(filled, level, n)
      /\ levels' = [levels EXCEPT ![s] = Put(levels[s], p, grown)]
      /\ order_lookup' = Put(order_lookup, id, record)
  BY <1>2, <1>4, <1>6, <1>r, Zenon DEF add_order, Filled, LevelWith
<1>8. /\ nodes' \in [Index -> OrderNode]
      /\ \A x \in Index :
           /\ nodes'[x].prev = IF x = n THEN level.tail ELSE filled[x].prev
           /\ nodes'[x].next = IF x = n THEN npos
                               ELSE IF x = level.tail THEN n ELSE filled[x].next
           /\ SamePayload(nodes'[x], filled[x])
  BY <1>7, AppendedFields
<1>9. ASSUME NEW x \in Index \ {n}
      PROVE  /\ SamePayload(nodes'[x], nodes[x])
             /\ x # level.tail => nodes'[x] = nodes[x]
  <2>1. SamePayload(nodes'[x], nodes[x])
    BY <1>5, <1>8
  <2>2. ASSUME x # level.tail
        PROVE  nodes'[x] = nodes[x]
    BY <2>1, <2>2, <1>1, <1>5, <1>8, SameNode
  <2> QED
    BY <2>1, <2>2
<1>10. /\ nodes'[n].order_id = id /\ nodes'[n].timestamp = timestamp
       /\ nodes'[n].quantity = quantity /\ nodes'[n].active
  BY <1>3, <1>5, <1>8 DEF SamePayload
<1>11. /\ DOMAIN order_lookup' = DOMAIN order_lookup \cup {id}
       /\ \A x \in DOMAIN order_lookup : order_lookup'[x] = order_lookup[x]
       /\ order_lookup'[id] = record
       /\ IsMap(order_lookup', OrderId, OrderRecord)
  <2> HIDE DEF OrderRecord
  <2> QED
    BY <1>1, <1>7 DEF Put, IsMap
<1>12. DOMAIN levels = Side /\ \A t \in Side : IsMap(levels[t], Price, PriceLevel)
  BY DEF PoolInv, ContainersOK
<1>13. /\ DOMAIN Put(levels[s], p, grown) = DOMAIN levels[s] \cup {p}
       /\ Put(levels[s], p, grown)[p] = grown
       /\ \A x \in DOMAIN levels[s] \ {p} : Put(levels[s], p, grown)[x] = levels[s][x]
       /\ IsMap(Put(levels[s], p, grown), Price, PriceLevel)
  BY <1>12 DEF Put, IsMap
<1>14. /\ DOMAIN levels' = Side
       /\ \A t \in Side : IsMap(levels'[t], Price, PriceLevel)
       /\ \A t \in Side, x \in Price : ~(t = s /\ x = p) =>
             /\ x \in DOMAIN levels'[t] <=> x \in DOMAIN levels[t]
             /\ x \in DOMAIN levels[t] => levels'[t][x] = levels[t][x]
       /\ p \in DOMAIN levels'[s] /\ levels'[s][p] = grown
  BY <1>7, <1>12, <1>13
<1>15. Addition(id, s, p, quantity, timestamp, n, level)
  BY <1>6, <1>r, <1>7, <1>8, <1>9, <1>10, <1>11, <1>14 DEF Addition
<1> QED
  BY <1>5, <1>7, <1>15

\* The index on top of the free stack, and the stack without it.
LEMMA TopOfStack ==
  ASSUME PoolInv, free_indices # << >>
  PROVE  LET F == Len(free_indices)
         IN  /\ F \in Nat /\ F # 0 /\ free_indices[F] = Last(free_indices)
             /\ Last(free_indices) \in Index
             /\ Front(free_indices) \in Seq(Index) /\ Len(Front(free_indices)) = F - 1
             /\ \A k \in 1 .. (F - 1) : Front(free_indices)[k] = free_indices[k]
             /\ OnStack(free_indices, Last(free_indices))
             /\ ~Owned(order_lookup, Last(free_indices))
<1> DEFINE F == Len(free_indices)
<1>0. free_indices \in Seq(Index)
  BY DEF PoolInv, ContainersOK
<1>1. F \in Nat /\ F # 0
  BY <1>0, EmptySeq, LenProperties
<1>2. F \in 1 .. F /\ free_indices[F] = Last(free_indices) /\ Last(free_indices) \in Index
  BY <1>0, <1>1, ElementOfSeq DEF Last
<1>3. /\ Front(free_indices) \in Seq(Index) /\ Len(Front(free_indices)) = F - 1
      /\ \A k \in 1 .. (F - 1) : Front(free_indices)[k] = free_indices[k]
  <2>1. Front(free_indices) = SubSeq(free_indices, 1, F - 1)
    BY DEF Front
  <2>2. 1 \in 1 .. (F + 1) /\ F - 1 \in 0 .. F
    BY <1>1
  <2>3. /\ SubSeq(free_indices, 1, F - 1) \in Seq(Index)
        /\ Len(SubSeq(free_indices, 1, F - 1)) =
             IF 1 <= F - 1 THEN (F - 1) - 1 + 1 ELSE 0
        /\ \A k \in 1 .. ((F - 1) - 1 + 1) :
             SubSeq(free_indices, 1, F - 1)[k] = free_indices[1 + k - 1]
    BY <1>0, <2>2, SubSeqProperties
  <2> HIDE DEF F
  <2>4. /\ SubSeq(free_indices, 1, F - 1) \in Seq(Index)
        /\ Len(SubSeq(free_indices, 1, F - 1)) = F - 1
        /\ \A k \in 1 .. (F - 1) : SubSeq(free_indices, 1, F - 1)[k] = free_indices[k]
    BY <1>1, <2>3
  <2> QED
    BY <2>1, <2>4
<1>4. OnStack(free_indices, Last(free_indices))
  BY <1>2 DEF OnStack
<1>5. ~Owned(order_lookup, Last(free_indices))
  BY <1>2, <1>4 DEF PoolInv, StackOK
<1> QED
  BY <1>1, <1>2, <1>3, <1>4, <1>5

\* The chain with n at its end is the chain of the level added to.
LEMMA AddExtendsChain ==
  ASSUME PoolInv, NEW id \in OrderId, NEW s \in Side, NEW p \in Price,
         NEW quantity \in Quantity, NEW timestamp \in Timestamp,
         quantity # 0, id \notin DOMAIN order_lookup,
         NEW n \in Index, NEW level \in PriceLevel, level = LevelAt(s, p),
         Addition(id, s, p, quantity, timestamp, n, level),
         NEW filled \in [Index -> OrderNode], nodes' = AppendedNodes(filled, level, n),
         \A x \in Index \ {n} : filled[x] = nodes[x],
         NEW chain \in Seq(Index), ChainAt(s, p, chain), level.order_count = Len(chain),
         \A k \in 1 .. Len(chain) : chain[k] # n
  PROVE  /\ Append(chain, n) \in Seq(Index)
         /\ IsChain(nodes', levels'[s][p], order_lookup', s, p, Append(chain, n))
<1> DEFINE L     == Len(chain)
           grown == Append(chain, n)
<1>1. /\ L \in Nat /\ grown \in Seq(Index) /\ Len(grown) = L + 1 /\ grown[L + 1] = n
      /\ \A k \in 1 .. L : grown[k] = chain[k] /\ chain[k] \in Index /\ chain[k] # n
  BY AppendProperties, LenProperties, ElementOfSeq
<1>2. L # 0 <=> p \in DOMAIN levels[s]
  BY DEF ChainAt, IsChain
<1>5. /\ Linked(nodes', grown)
      /\ \A k \in 1 .. L : Backed(nodes, order_lookup, s, p, chain[k])
      /\ \A x \in DOMAIN order_lookup : order_lookup[x].side = s /\ order_lookup[x].price = p =>
           \E k \in 1 .. L : chain[k] = order_lookup[x].node_index
      /\ levels'[s][p].head = grown[1] /\ levels'[s][p].tail = n
      /\ levels'[s][p].order_count = L + 1
  <2>1. CASE L # 0
    <3>1. /\ level = levels[s][p]
          /\ IsChain(nodes, level, order_lookup, s, p, chain)
      BY <1>2, <2>1 DEF LevelAt, ChainAt
    <3>2. Linked(filled, chain)
      BY <1>1, <3>1, LinkedLocal DEF IsChain
    <3>3. level.tail = chain[L] /\ level.head = chain[1] /\ level.tail \in Index
      BY <3>1, <1>1, <2>1 DEF IsChain
    <3>4. Linked(nodes', grown)
      BY <2>1, <3>2, <3>3, LinkedAppend
    <3>5. \A k \in 1 .. L : Backed(nodes, order_lookup, s, p, chain[k])
      BY <3>1 DEF IsChain
    <3>6. \A x \in DOMAIN order_lookup : order_lookup[x].side = s /\ order_lookup[x].price = p =>
            \E k \in 1 .. L : chain[k] = order_lookup[x].node_index
      BY <3>1 DEF IsChain
    <3>7. /\ levels'[s][p].head = chain[1] /\ levels'[s][p].tail = n
          /\ levels'[s][p].order_count = L + 1
      BY <3>3, LinkWords DEF Addition
    <3>8. grown[1] = chain[1]
      BY <1>1, <2>1
    <3> QED
      BY <3>4, <3>5, <3>6, <3>7, <3>8
  <2>2. CASE L = 0
    <3>1. level = EmptyLevel /\ chain = << >>
      BY <1>2, <2>2 DEF LevelAt, ChainAt
    <3>2. level.tail = npos
      BY <3>1 DEF EmptyLevel
    <3>3. Linked(nodes', grown)
      <4>1. grown = <<n>>
        BY <3>1
      <4> QED
        BY <3>2, <4>1, LinkedFirst
    <3>4. \A k \in 1 .. L : Backed(nodes, order_lookup, s, p, chain[k])
      BY <2>2
    <3>5. \A x \in DOMAIN order_lookup : order_lookup[x].side = s /\ order_lookup[x].price = p =>
            \E k \in 1 .. L : chain[k] = order_lookup[x].node_index
      BY <1>2, <2>2, RecordLocates
    <3>6. /\ levels'[s][p].head = n /\ levels'[s][p].tail = n
          /\ levels'[s][p].order_count = L + 1
      BY <3>2 DEF Addition
    <3>7. grown[1] = n
      BY <1>1, <2>2
    <3> QED
      BY <3>3, <3>4, <3>5, <3>6, <3>7
  <2> QED
    BY <2>1, <2>2
<1> HIDE DEF L, grown
<1>6. ASSUME NEW k \in 1 .. (L + 1)
      PROVE  Backed(nodes', order_lookup', s, p, grown[k])
  <2>1. CASE k = L + 1
    <3>1. grown[k] = n
      BY <1>1, <2>1
    <3>2. Backed(nodes', order_lookup', s, p, n)
      BY DEF Backed, Addition
    <3> QED
      BY <3>1, <3>2
  <2>2. CASE k \in 1 .. L
    <3>1. /\ Backed(nodes, order_lookup, s, p, chain[k]) /\ grown[k] = chain[k]
          /\ chain[k] \in Index \ {n}
      BY <2>2, <1>1, <1>5
    <3>2. SamePayload(nodes'[chain[k]], nodes[chain[k]])
      BY <3>1 DEF Addition
    <3>3. \A x \in DOMAIN order_lookup : /\ x \in DOMAIN order_lookup'
                                         /\ order_lookup'[x] = order_lookup[x]
      BY DEF Addition
    <3> QED
      BY <3>1, <3>2, <3>3 DEF Backed, SamePayload
  <2> QED
    BY <2>1, <2>2, <1>1
<1>7. ASSUME NEW x \in DOMAIN order_lookup', order_lookup'[x].side = s,
             order_lookup'[x].price = p
      PROVE  \E k \in 1 .. (L + 1) : grown[k] = order_lookup'[x].node_index
  <2>1. CASE x = id
    <3>1. order_lookup'[x].node_index = n
      BY <2>1 DEF Addition
    <3>2. L + 1 \in 1 .. (L + 1)
      BY <1>1
    <3> QED
      BY <3>1, <3>2, <1>1
  <2>2. CASE x # id
    <3>1. x \in DOMAIN order_lookup /\ order_lookup'[x] = order_lookup[x]
      BY <2>2 DEF Addition
    <3>2. PICK k \in 1 .. L : chain[k] = order_lookup[x].node_index
      BY <3>1, <1>5, <1>7
    <3>3. k \in 1 .. (L + 1)
      BY <1>1
    <3> QED
      BY <3>1, <3>2, <3>3, <1>1
  <2> QED
    BY <2>1, <2>2
<1>8. L + 1 # 0 /\ Len(grown) = L + 1 /\ grown[Len(grown)] = n
  BY <1>1
<1> QED
  BY <1>1, <1>5, <1>6, <1>7, <1>8 DEF IsChain, grown

LEMMA AddElsewhere ==
  ASSUME PoolInv, NEW id \in OrderId, NEW s \in Side, NEW p \in Price,
         NEW quantity \in Quantity, NEW timestamp \in Timestamp,
         id \notin DOMAIN order_lookup,
         NEW n \in Index, NEW level \in PriceLevel, level = LevelAt(s, p),
         ~Owned(order_lookup, n),
         Addition(id, s, p, quantity, timestamp, n, level),
         NEW t \in Side, NEW x \in DOMAIN levels[t], NEW other \in Seq(Index),
         ~(t = s /\ x = p), IsChain(nodes, levels[t][x], order_lookup, t, x, other)
  PROVE  IsChain(nodes', levels'[t][x], order_lookup', t, x, other)
<1>1. \A k \in 1 .. Len(other) : other[k] \in Index /\ other[k] # n
  BY ElementOfSeq DEF IsChain, Backed, Owned
<1>2. \A k \in 1 .. Len(other) : other[k] # level.tail
  <2>1. CASE p \in DOMAIN levels[s]
    <3>1. PICK chain \in Seq(Index) :
            IsChain(nodes, levels[s][p], order_lookup, s, p, chain)
      BY <2>1 DEF PoolInv, LevelsChained
    <3>2. Len(chain) \in 1 .. Len(chain)
      BY <3>1, LenProperties DEF IsChain
    <3>3. level.tail = chain[Len(chain)]
      BY <2>1, <3>1 DEF LevelAt, IsChain
    <3>4. \A k \in 1 .. Len(other) : \A j \in 1 .. Len(chain) : other[k] # chain[j]
      BY <3>1, ChainsDisjoint
    <3> QED
      BY <3>2, <3>3, <3>4
  <2>2. CASE p \notin DOMAIN levels[s]
    BY <2>2, <1>1, LinkWords DEF LevelAt, EmptyLevel
  <2> QED
    BY <2>1, <2>2
<1>3. \A k \in 1 .. Len(other) : nodes'[other[k]] = nodes[other[k]]
  BY <1>1, <1>2 DEF Addition
<1>4. x \in Price /\ levels'[t][x] = levels[t][x]
  <2>1. x \in Price
    BY DEF PoolInv, ContainersOK, IsMap
  <2> QED
    BY <2>1 DEF Addition
<1>5. /\ \A y \in DOMAIN order_lookup : /\ y \in DOMAIN order_lookup'
                                        /\ order_lookup'[y] = order_lookup[y]
      /\ \A y \in DOMAIN order_lookup' :
           order_lookup'[y].side = t /\ order_lookup'[y].price = x =>
             y \in DOMAIN order_lookup /\ order_lookup'[y] = order_lookup[y]
  BY DEF Addition
<1> QED
  BY <1>3, <1>4, <1>5, ChainElsewhere

LEMMA AddKeeps ==
  ASSUME PoolInv, NEW id \in OrderId, NEW s \in Side, NEW p \in Price,
         NEW quantity \in Quantity, NEW timestamp \in Timestamp,
         quantity # 0, id \notin DOMAIN order_lookup, free_indices # << >>,
         add_order(id, s, p, quantity, timestamp)
  PROVE  PoolInv'
<1>n. PICK n \in Index : n = Last(free_indices)
  BY TopOfStack
<1>1. ~Owned(order_lookup, n)
  BY <1>n, TopOfStack
<1>l. PICK level \in PriceLevel : level = LevelAt(s, p)
  BY <1>1, RoomAtLevel
<1>2. level.tail # n /\ level.order_count + 1 \in 0 .. MaxLiveOrders
  BY <1>1, <1>l, RoomAtLevel
<1>c. PICK chain \in Seq(Index) :
        /\ ChainAt(s, p, chain) /\ level.order_count = Len(chain)
        /\ \A k \in 1 .. Len(chain) : chain[k] # n
  BY <1>1, <1>l, RoomAtLevel
<1>3. Addition(id, s, p, quantity, timestamp, n, level)
  BY <1>n, <1>l, <1>2, AddEffect
<1>f. PICK filled \in [Index -> OrderNode] :
        /\ nodes' = AppendedNodes(filled, level, n)
        /\ \A x \in Index \ {n} : filled[x] = nodes[x]
  BY <1>n, <1>l, <1>2, AddEffect
<1>4. ContainersOK'
  <2>1. free_indices' \in Seq(Index)
    BY <1>3, TopOfStack DEF Addition
  <2> QED
    BY <2>1, <1>3 DEF Addition, ContainersOK
<1>5. LevelsChained'
  <2> SUFFICES ASSUME NEW t \in Side, NEW x \in DOMAIN levels'[t]
               PROVE  \E c \in Seq(Index) : IsChain(nodes', levels'[t][x], order_lookup', t, x, c)
    BY DEF LevelsChained
  <2>1. CASE t = s /\ x = p
    <3>1. /\ Append(chain, n) \in Seq(Index)
          /\ IsChain(nodes', levels'[s][p], order_lookup', s, p, Append(chain, n))
      BY <1>l, <1>c, <1>3, <1>f, AddExtendsChain
    <3> QED
      BY <2>1, <3>1
  <2>2. CASE ~(t = s /\ x = p)
    <3>1. x \in Price /\ x \in DOMAIN levels[t]
      BY <2>2, <1>3 DEF Addition, IsMap
    <3>2. PICK other \in Seq(Index) : IsChain(nodes, levels[t][x], order_lookup, t, x, other)
      BY <3>1 DEF PoolInv, LevelsChained
    <3> QED
      BY <2>2, <3>1, <3>2, <1>1, <1>l, <1>3, AddElsewhere
  <2> QED
    BY <2>1, <2>2
<1>6. RecordsLead'
  <2> SUFFICES ASSUME NEW x \in DOMAIN order_lookup'
               PROVE  /\ order_lookup'[x].price \in DOMAIN levels'[order_lookup'[x].side]
                      /\ nodes'[order_lookup'[x].node_index].order_id = x
    BY DEF RecordsLead
  <2>1. CASE x = id
    BY <2>1, <1>3 DEF Addition
  <2>2. CASE x # id
    <3>1. x \in DOMAIN order_lookup /\ order_lookup'[x] = order_lookup[x]
      BY <2>2, <1>3 DEF Addition
    <3>2. PICK t \in Side : order_lookup[x].side = t
      BY <3>1, RecordLocates
    <3>3. PICK q \in Price : order_lookup[x].price = q /\ q \in DOMAIN levels[t]
      BY <3>1, <3>2, RecordLocates
    <3>4. PICK m \in Index : order_lookup[x].node_index = m /\ nodes[m].order_id = x
      BY <3>1, RecordLocates
    <3>5. m # n
      BY <3>1, <3>4, <1>1 DEF Owned
    <3>6. nodes'[m].order_id = x
      BY <3>4, <3>5, <1>3 DEF Addition, SamePayload
    <3>7. q \in DOMAIN levels'[t]
      BY <3>3, <1>3 DEF Addition
    <3> QED
      BY <3>1, <3>2, <3>3, <3>4, <3>6, <3>7
  <2> QED
    BY <2>1, <2>2
<1>7. StackOK'
  <2> DEFINE F == Len(free_indices)
  <2>1. /\ F \in Nat /\ F # 0 /\ free_indices[F] = n /\ Len(free_indices') = F - 1
        /\ \A k \in 1 .. (F - 1) : free_indices'[k] = free_indices[k]
    BY <1>n, <1>3, TopOfStack DEF Addition
  <2> HIDE DEF F
  <2>2. \A j, k \in 1 .. F : free_indices[j] = free_indices[k] => j = k
    BY DEF F, PoolInv, StackOK
  <2>3. \A j, k \in 1 .. (F - 1) : free_indices'[j] = free_indices'[k] => j = k
    BY <2>1, <2>2
  <2>4. ASSUME NEW y \in Index
        PROVE  /\ OnStack(free_indices', y) <=> y # n /\ OnStack(free_indices, y)
               /\ Owned(order_lookup', y) <=> y = n \/ Owned(order_lookup, y)
    <3>1. OnStack(free_indices', y) => y # n /\ OnStack(free_indices, y)
      <4> SUFFICES ASSUME NEW k \in 1 .. (F - 1), free_indices'[k] = y
                   PROVE  y # n /\ OnStack(free_indices, y)
        BY <2>1 DEF OnStack
      <4>1. free_indices[k] = y /\ k \in 1 .. F /\ F \in 1 .. F /\ k # F
        BY <2>1
      <4> QED
        BY <4>1, <2>1, <2>2 DEF OnStack, F
    <3>2. y # n /\ OnStack(free_indices, y) => OnStack(free_indices', y)
      <4> SUFFICES ASSUME NEW k \in 1 .. F, free_indices[k] = y, y # n
                   PROVE  OnStack(free_indices', y)
        BY DEF OnStack, F
      <4>1. k \in 1 .. (F - 1)
        BY <2>1
      <4> QED
        BY <4>1, <2>1 DEF OnStack
    <3>3. Owned(order_lookup', y) <=> y = n \/ Owned(order_lookup, y)
      BY <1>3 DEF Owned, Addition
    <3> QED
      BY <3>1, <3>2, <3>3
  <2>5. ASSUME NEW y \in Index
        PROVE  /\ OnStack(free_indices', y) <=> ~Owned(order_lookup', y)
               /\ nodes'[y].active <=> Owned(order_lookup', y)
               /\ OnStack(free_indices', y) => nodes'[y] = UnusedNode
    <3>1. /\ OnStack(free_indices, y) <=> ~Owned(order_lookup, y)
          /\ nodes[y].active <=> Owned(order_lookup, y)
          /\ OnStack(free_indices, y) => nodes[y] = UnusedNode
      BY DEF PoolInv, StackOK
    <3>2. CASE y = n
      BY <3>2, <2>4, <1>3 DEF Addition
    <3>3. CASE y # n /\ Owned(order_lookup, y)
      BY <3>1, <3>3, <2>4, <1>3 DEF SamePayload, Addition
    <3>4. CASE y # n /\ ~Owned(order_lookup, y)
      <4>1. y # level.tail
        <5>1. CASE p \in DOMAIN levels[s]
          <6>1. IsChain(nodes, level, order_lookup, s, p, chain)
            BY <5>1, <1>l, <1>c DEF ChainAt, LevelAt
          <6>2. Len(chain) \in 1 .. Len(chain)
            BY <6>1, LenProperties DEF IsChain
          <6> QED
            BY <6>1, <6>2, <3>4 DEF IsChain, Backed, Owned
        <5>2. CASE p \notin DOMAIN levels[s]
          BY <5>2, <1>l, LinkWords DEF LevelAt, EmptyLevel
        <5> QED
          BY <5>1, <5>2
      <4>2. nodes'[y] = nodes[y]
        BY <3>4, <4>1, <1>3 DEF Addition
      <4> QED
        BY <3>1, <3>4, <4>2, <2>4
    <3> QED
      BY <3>2, <3>3, <3>4
  <2> QED
    BY <2>1, <2>3, <2>5 DEF StackOK
<1> QED
  BY <1>4, <1>5, <1>6, <1>7 DEF PoolInv

-----------------------------------------------------------------------------
(* Reducing an order *)

\* A record and a node with another quantity.
Requantify(x, quantity) == [x EXCEPT !.quantity = quantity]

LEMMA RequantifiedNode ==
  ASSUME NEW node \in OrderNode, NEW quantity \in Quantity
  PROVE  LET after == Requantify(node, quantity)
         IN  /\ after \in OrderNode /\ after.quantity = quantity
             /\ after.prev = node.prev /\ after.next = node.next
             /\ after.order_id = node.order_id /\ after.timestamp = node.timestamp
             /\ after.active = node.active
BY DEF OrderNode, Requantify

LEMMA RequantifiedRecord ==
  ASSUME NEW record \in OrderRecord, NEW quantity \in Quantity
  PROVE  LET after == Requantify(record, quantity)
         IN  /\ after \in OrderRecord /\ after.quantity = quantity
             /\ after.side = record.side /\ after.price = record.price
             /\ after.timestamp = record.timestamp /\ after.node_index = record.node_index
BY DEF OrderRecord, Requantify

\* What ReduceTo() leaves of each container, if the record of id leads to node n
\* of the level at side s and price p.
Reduction(id, s, p, n, quantity) ==
  /\ nodes' \in [Index -> OrderNode]
  /\ nodes'[n] = Requantify(nodes[n], quantity)
  /\ \A x \in Index \ {n} : nodes'[x] = nodes[x]
  /\ DOMAIN order_lookup' = DOMAIN order_lookup
  /\ order_lookup'[id] = Requantify(order_lookup[id], quantity)
  /\ \A x \in DOMAIN order_lookup \ {id} : order_lookup'[x] = order_lookup[x]
  /\ IsMap(order_lookup', OrderId, OrderRecord)
  /\ DOMAIN levels' = Side
  /\ \A t \in Side : /\ DOMAIN levels'[t] = DOMAIN levels[t]
                     /\ IsMap(levels'[t], Price, PriceLevel)
  /\ \A t \in Side : \A x \in DOMAIN levels[t] :
       /\ levels'[t][x].head = levels[t][x].head
       /\ levels'[t][x].tail = levels[t][x].tail
       /\ levels'[t][x].order_count = levels[t][x].order_count
       /\ ~(t = s /\ x = p) => levels'[t][x] = levels[t][x]
  /\ free_indices' = free_indices

LEMMA ReduceEffect ==
  ASSUME PoolInv, NEW id \in DOMAIN order_lookup, NEW units \in Quantity,
         NEW quantity \in Quantity, ReduceTo(id, units, quantity),
         NEW s, NEW p, NEW n, order_lookup[id].side = s,
         order_lookup[id].price = p, order_lookup[id].node_index = n
  PROVE  /\ Reduction(id, s, p, n, quantity)
         /\ levels'[s][p].total_quantity = Minus(levels[s][p].total_quantity, units)
<1>1. /\ s \in Side /\ p \in Price /\ n \in Index /\ p \in DOMAIN levels[s]
      /\ levels[s][p] \in PriceLevel /\ nodes[n] \in OrderNode
      /\ order_lookup[id] \in OrderRecord
  BY RecordLocates
<1>2. /\ nodes \in [Index -> OrderNode] /\ DOMAIN levels = Side
      /\ \A t \in Side : IsMap(levels[t], Price, PriceLevel)
      /\ IsMap(order_lookup, OrderId, OrderRecord)
  BY DEF PoolInv, ContainersOK
<1>3. PICK level \in PriceLevel :
        /\ level = Retotal(levels[s][p], Minus(levels[s][p].total_quantity, units))
        /\ level.head = levels[s][p].head /\ level.tail = levels[s][p].tail
        /\ level.order_count = levels[s][p].order_count
        /\ level.total_quantity = Minus(levels[s][p].total_quantity, units)
  <2>1. Minus(levels[s][p].total_quantity, units) \in Quantity
    BY <1>1, TotalsClosed
  <2>2. LET level == Retotal(levels[s][p], Minus(levels[s][p].total_quantity, units))
        IN  /\ level \in PriceLevel
            /\ level.head = levels[s][p].head /\ level.tail = levels[s][p].tail
            /\ level.order_count = levels[s][p].order_count
            /\ level.total_quantity = Minus(levels[s][p].total_quantity, units)
    BY <1>1, <2>1, Retotalled
  <2> QED
    BY <2>2, Zenon
<1>4. PICK node \in OrderNode : node = Requantify(nodes[n], quantity)
  BY <1>1, RequantifiedNode
<1>5. PICK record \in OrderRecord : record = Requantify(order_lookup[id], quantity)
  BY <1>1, RequantifiedRecord
<1>6. /\ levels' = [levels EXCEPT ![s] = [levels[s] EXCEPT ![p] = level]]
      /\ order_lookup' = [order_lookup EXCEPT ![id] = record]
      /\ nodes' = [nodes EXCEPT ![n] = node]
      /\ free_indices' = free_indices
  BY <1>3, <1>4, <1>5, Zenon DEF ReduceTo, Retotal, Requantify
<1>7. /\ nodes' \in [Index -> OrderNode] /\ nodes'[n] = node
      /\ \A x \in Index \ {n} : nodes'[x] = nodes[x]
  BY <1>1, <1>2, <1>6
<1>8. /\ DOMAIN order_lookup' = DOMAIN order_lookup /\ order_lookup'[id] = record
      /\ \A x \in DOMAIN order_lookup \ {id} : order_lookup'[x] = order_lookup[x]
      /\ IsMap(order_lookup', OrderId, OrderRecord)
  BY <1>2, <1>6 DEF IsMap
<1>9. /\ DOMAIN [levels[s] EXCEPT ![p] = level] = DOMAIN levels[s]
      /\ [levels[s] EXCEPT ![p] = level][p] = level
      /\ \A x \in DOMAIN levels[s] \ {p} : [levels[s] EXCEPT ![p] = level][x] = levels[s][x]
      /\ IsMap([levels[s] EXCEPT ![p] = level], Price, PriceLevel)
  BY <1>1, <1>2 DEF IsMap
<1>10. /\ DOMAIN levels' = Side
       /\ levels'[s] = [levels[s] EXCEPT ![p] = level]
       /\ \A t \in Side \ {s} : levels'[t] = levels[t]
  BY <1>1, <1>2, <1>6
<1>11. ASSUME NEW t \in Side
       PROVE  /\ DOMAIN levels'[t] = DOMAIN levels[t]
              /\ IsMap(levels'[t], Price, PriceLevel)
              /\ \A x \in DOMAIN levels[t] :
                   /\ levels'[t][x].head = levels[t][x].head
                   /\ levels'[t][x].tail = levels[t][x].tail
                   /\ levels'[t][x].order_count = levels[t][x].order_count
                   /\ ~(t = s /\ x = p) => levels'[t][x] = levels[t][x]
  <2>1. CASE t = s
    BY <2>1, <1>3, <1>9, <1>10
  <2>2. CASE t # s
    BY <2>2, <1>2, <1>10
  <2> QED
    BY <2>1, <2>2
<1>12. levels'[s][p].total_quantity = Minus(levels[s][p].total_quantity, units)
  BY <1>3, <1>9, <1>10
<1> QED
  BY <1>4, <1>5, <1>6, <1>7, <1>8, <1>10, <1>11, <1>12 DEF Reduction

\* Every chain stays the chain of its level.
LEMMA ReduceKeepsChains ==
  ASSUME PoolInv, NEW id \in DOMAIN order_lookup, NEW quantity \in Quantity, quantity # 0,
         NEW s, NEW p, NEW n, order_lookup[id].side = s,
         order_lookup[id].price = p, order_lookup[id].node_index = n,
         Reduction(id, s, p, n, quantity),
         NEW t \in Side, NEW x \in DOMAIN levels[t], NEW chain \in Seq(Index),
         IsChain(nodes, levels[t][x], order_lookup, t, x, chain)
  PROVE  IsChain(nodes', levels'[t][x], order_lookup', t, x, chain)
<1>1. /\ n \in Index /\ nodes[n].order_id = id /\ nodes \in [Index -> OrderNode]
      /\ order_lookup[id] \in OrderRecord /\ nodes[n] \in OrderNode
  BY RecordLocates DEF PoolInv, ContainersOK
<1>2. \A k \in 1 .. Len(chain) : chain[k] \in Index
  BY ElementOfSeq
<1>3. /\ nodes'[n].quantity = quantity
      /\ \A y \in Index : /\ nodes'[y].prev = nodes[y].prev
                          /\ nodes'[y].next = nodes[y].next
                          /\ nodes'[y].order_id = nodes[y].order_id
                          /\ nodes'[y].timestamp = nodes[y].timestamp
                          /\ y # n => nodes'[y].quantity = nodes[y].quantity
  <2>1. /\ nodes'[n].quantity = quantity
        /\ nodes'[n].prev = nodes[n].prev /\ nodes'[n].next = nodes[n].next
        /\ nodes'[n].order_id = nodes[n].order_id
        /\ nodes'[n].timestamp = nodes[n].timestamp
    BY <1>1, RequantifiedNode DEF Reduction
  <2>2. \A y \in Index \ {n} : nodes'[y] = nodes[y]
    BY DEF Reduction
  <2> QED
    BY <2>1, <2>2
<1>4. /\ DOMAIN order_lookup' = DOMAIN order_lookup
      /\ order_lookup'[id].quantity = quantity
      /\ \A y \in DOMAIN order_lookup :
           /\ order_lookup'[y].side = order_lookup[y].side
           /\ order_lookup'[y].price = order_lookup[y].price
           /\ order_lookup'[y].timestamp = order_lookup[y].timestamp
           /\ order_lookup'[y].node_index = order_lookup[y].node_index
           /\ y # id => order_lookup'[y].quantity = order_lookup[y].quantity
  <2>1. /\ order_lookup'[id].quantity = quantity
        /\ order_lookup'[id].side = order_lookup[id].side
        /\ order_lookup'[id].price = order_lookup[id].price
        /\ order_lookup'[id].timestamp = order_lookup[id].timestamp
        /\ order_lookup'[id].node_index = order_lookup[id].node_index
    BY <1>1, RequantifiedRecord DEF Reduction
  <2>2. /\ DOMAIN order_lookup' = DOMAIN order_lookup
        /\ \A y \in DOMAIN order_lookup \ {id} : order_lookup'[y] = order_lookup[y]
    BY DEF Reduction
  <2> QED
    BY <2>1, <2>2
<1>5. Linked(nodes', chain)
  BY <1>2, <1>3, LinkedLocal DEF IsChain
<1>6. ASSUME NEW k \in 1 .. Len(chain)
      PROVE  Backed(nodes', order_lookup', t, x, chain[k])
  <2>1. Backed(nodes, order_lookup, t, x, chain[k]) /\ chain[k] \in Index
    BY <1>2 DEF IsChain
  <2>2. CASE chain[k] = n
    BY <2>1, <2>2, <1>1, <1>3, <1>4 DEF Backed
  <2>3. CASE chain[k] # n
    <3>1. nodes[chain[k]].order_id # id
      BY <2>1, <2>3 DEF Backed
    <3> QED
      BY <2>1, <2>3, <3>1, <1>3, <1>4 DEF Backed
  <2> QED
    BY <2>2, <2>3
<1>7. ASSUME NEW y \in DOMAIN order_lookup', order_lookup'[y].side = t,
             order_lookup'[y].price = x
      PROVE  \E k \in 1 .. Len(chain) : chain[k] = order_lookup'[y].node_index
  BY <1>4, <1>7 DEF IsChain
<1>8. /\ levels'[t][x].head = levels[t][x].head
      /\ levels'[t][x].tail = levels[t][x].tail
      /\ levels'[t][x].order_count = levels[t][x].order_count
  BY DEF Reduction
<1> QED
  BY <1>5, <1>6, <1>7, <1>8 DEF IsChain

LEMMA ReduceKeeps ==
  ASSUME PoolInv, NEW id \in DOMAIN order_lookup, NEW units \in Quantity,
         NEW quantity \in Quantity, quantity # 0, ReduceTo(id, units, quantity)
  PROVE  PoolInv'
<1>s. PICK s \in Side : order_lookup[id].side = s
  BY RecordLocates
<1>p. PICK p \in Price : order_lookup[id].price = p
  BY RecordLocates
<1>n. PICK n \in Index : order_lookup[id].node_index = n /\ nodes[n].order_id = id
  BY RecordLocates
<1>1. Reduction(id, s, p, n, quantity)
  BY <1>s, <1>p, <1>n, ReduceEffect
<1>2. nodes[n] \in OrderNode /\ order_lookup[id] \in OrderRecord
  BY <1>n, RecordLocates
<1>3. /\ \A y \in Index \ {n} : nodes'[y] = nodes[y]
      /\ nodes'[n].order_id = nodes[n].order_id /\ nodes'[n].active = nodes[n].active
  BY <1>1, <1>2, RequantifiedNode DEF Reduction
<1>4. /\ DOMAIN order_lookup' = DOMAIN order_lookup
      /\ \A y \in DOMAIN order_lookup :
           /\ order_lookup'[y].side = order_lookup[y].side
           /\ order_lookup'[y].price = order_lookup[y].price
           /\ order_lookup'[y].node_index = order_lookup[y].node_index
  <2>1. /\ order_lookup'[id].side = order_lookup[id].side
        /\ order_lookup'[id].price = order_lookup[id].price
        /\ order_lookup'[id].node_index = order_lookup[id].node_index
    BY <1>1, <1>2, RequantifiedRecord DEF Reduction
  <2>2. /\ DOMAIN order_lookup' = DOMAIN order_lookup
        /\ \A y \in DOMAIN order_lookup \ {id} : order_lookup'[y] = order_lookup[y]
    BY <1>1 DEF Reduction
  <2> QED
    BY <2>1, <2>2
<1>5. ContainersOK'
  BY <1>1 DEF Reduction, ContainersOK, PoolInv
<1>6. LevelsChained'
  <2> SUFFICES ASSUME NEW t \in Side, NEW x \in DOMAIN levels'[t]
               PROVE  \E c \in Seq(Index) : IsChain(nodes', levels'[t][x], order_lookup', t, x, c)
    BY DEF LevelsChained
  <2>1. x \in DOMAIN levels[t]
    BY <1>1 DEF Reduction
  <2>2. PICK chain \in Seq(Index) : IsChain(nodes, levels[t][x], order_lookup, t, x, chain)
    BY <2>1 DEF PoolInv, LevelsChained
  <2>3. IsChain(nodes', levels'[t][x], order_lookup', t, x, chain)
    BY <2>1, <2>2, <1>s, <1>p, <1>n, <1>1, ReduceKeepsChains
  <2> QED
    BY <2>3
<1>7. RecordsLead'
  <2> SUFFICES ASSUME NEW x \in DOMAIN order_lookup'
               PROVE  /\ order_lookup'[x].price \in DOMAIN levels'[order_lookup'[x].side]
                      /\ nodes'[order_lookup'[x].node_index].order_id = x
    BY DEF RecordsLead
  <2>1. /\ order_lookup'[x].side = order_lookup[x].side
        /\ order_lookup'[x].price = order_lookup[x].price
        /\ order_lookup'[x].node_index = order_lookup[x].node_index
        /\ x \in DOMAIN order_lookup
    BY <1>4
  <2>2. /\ order_lookup[x].side \in Side
        /\ order_lookup[x].price \in DOMAIN levels[order_lookup[x].side]
        /\ order_lookup[x].node_index \in Index
        /\ nodes[order_lookup[x].node_index].order_id = x
    BY <2>1, RecordLocates
  <2>3. nodes'[order_lookup[x].node_index].order_id = x
    BY <2>2, <1>3
  <2>4. order_lookup[x].price \in DOMAIN levels'[order_lookup[x].side]
    BY <2>2, <1>1 DEF Reduction
  <2> QED
    BY <2>1, <2>3, <2>4
<1>8. StackOK'
  <2>1. ASSUME NEW y \in Index
        PROVE  /\ OnStack(free_indices', y) <=> OnStack(free_indices, y)
               /\ Owned(order_lookup', y) <=> Owned(order_lookup, y)
    BY <1>1, <1>4 DEF OnStack, Owned, Reduction
  <2>2. Owned(order_lookup, n)
    BY <1>n DEF Owned
  <2>3. ASSUME NEW y \in Index
        PROVE  /\ OnStack(free_indices', y) <=> ~Owned(order_lookup', y)
               /\ nodes'[y].active <=> Owned(order_lookup', y)
               /\ OnStack(free_indices', y) => nodes'[y] = UnusedNode
    <3>1. /\ OnStack(free_indices, y) <=> ~Owned(order_lookup, y)
          /\ nodes[y].active <=> Owned(order_lookup, y)
          /\ OnStack(free_indices, y) => nodes[y] = UnusedNode
      BY DEF PoolInv, StackOK
    <3>2. nodes'[y].active = nodes[y].active /\ (y # n => nodes'[y] = nodes[y])
      BY <1>3
    <3> QED
      BY <3>1, <3>2, <2>1, <2>2
  <2>4. free_indices' = free_indices
    BY <1>1 DEF Reduction
  <2> QED
    BY <2>3, <2>4 DEF StackOK, PoolInv
<1> QED
  BY <1>5, <1>6, <1>7, <1>8 DEF PoolInv

-----------------------------------------------------------------------------
(* The invariant is inductive *)

\* reset_free_list() puts every index on the stack once.
LEMMA StackFull ==
  /\ FullFreeStack \in Seq(Index) /\ Len(FullFreeStack) = MaxLiveOrders
  /\ \A j, k \in 1 .. MaxLiveOrders : FullFreeStack[j] = FullFreeStack[k] => j = k
  /\ \A i \in Index : OnStack(FullFreeStack, i)
<1>1. MaxLiveOrders \in Nat
  BY PoolAssumption
<1>2. ASSUME NEW k \in 1 .. MaxLiveOrders
      PROVE  FullFreeStack[k] = MaxLiveOrders - k /\ MaxLiveOrders - k \in Index
  BY <1>1 DEF FullFreeStack, Index
<1>3. FullFreeStack \in [1 .. MaxLiveOrders -> Index]
  BY <1>2 DEF FullFreeStack
<1>4. FullFreeStack \in Seq(Index) /\ Len(FullFreeStack) = MaxLiveOrders
  <2>1. FullFreeStack \in Seq(Index)
    BY <1>1, <1>3, SeqDef
  <2>2. DOMAIN FullFreeStack = 1 .. MaxLiveOrders
    BY <1>3
  <2> QED
    BY <1>1, <2>1, <2>2, LenProperties
<1>5. \A j, k \in 1 .. MaxLiveOrders : FullFreeStack[j] = FullFreeStack[k] => j = k
  BY <1>1, <1>2
<1>6. ASSUME NEW i \in Index
      PROVE  OnStack(FullFreeStack, i)
  <2>1. MaxLiveOrders - i \in 1 .. MaxLiveOrders /\ MaxLiveOrders - (MaxLiveOrders - i) = i
    BY <1>1 DEF Index
  <2>2. FullFreeStack[MaxLiveOrders - i] = i
    BY <2>1, <1>2
  <2> QED
    BY <2>1, <2>2, <1>4 DEF OnStack
<1> QED
  BY <1>4, <1>5, <1>6

\* The empty book, as the constructor and clear() leave it.
EmptyBook ==
  /\ nodes = UnusedNodes /\ free_indices = FullFreeStack
  /\ levels = [s \in Side |-> NoEntries] /\ order_lookup = NoEntries

LEMMA EmptyBookInv == EmptyBook => PoolInv
<1> SUFFICES ASSUME EmptyBook PROVE PoolInv
  OBVIOUS
<1>1. UnusedNode \in OrderNode /\ ~UnusedNode.active
  BY LinkWords, WordAssumption DEF UnusedNode, OrderNode, Quantity
<1>2. nodes \in [Index -> OrderNode] /\ \A i \in Index : nodes[i] = UnusedNode
  BY <1>1 DEF EmptyBook, UnusedNodes
<1>3. DOMAIN order_lookup = {} /\ IsMap(order_lookup, OrderId, OrderRecord)
  BY DEF EmptyBook, NoEntries, IsMap
<1>4. /\ DOMAIN levels = Side
      /\ \A s \in Side : DOMAIN levels[s] = {} /\ IsMap(levels[s], Price, PriceLevel)
  BY DEF EmptyBook, NoEntries, IsMap
<1>5. ContainersOK
  BY <1>2, <1>3, <1>4, StackFull DEF ContainersOK, EmptyBook
<1>6. LevelsChained /\ RecordsLead
  BY <1>3, <1>4 DEF LevelsChained, RecordsLead
<1>7. StackOK
  BY <1>1, <1>2, <1>3, StackFull DEF StackOK, EmptyBook, Owned
<1> QED
  BY <1>5, <1>6, <1>7 DEF PoolInv

\* A step that leaves the containers alone.
LEMMA ContainersKept ==
  PoolInv /\ UNCHANGED <<nodes, free_indices, levels, order_lookup>> => PoolInv'
BY DEF PoolInv, ContainersOK, LevelsChained, RecordsLead, StackOK

LEMMA RejectKeeps ==
  ASSUME PoolInv, NEW res, Reject(res)
  PROVE  PoolInv'
BY ContainersKept DEF Reject

LEMMA AddInv ==
  ASSUME PoolInv, NEW id \in OrderId, NEW s \in Side, NEW p \in Price,
         NEW quantity \in Quantity, NEW timestamp \in Timestamp,
         add_order(id, s, p, quantity, timestamp)
  PROVE  PoolInv'
<1>1. CASE quantity # 0 /\ id \notin DOMAIN order_lookup /\ free_indices # << >>
  BY <1>1, AddKeeps
<1>2. CASE ~(quantity # 0 /\ id \notin DOMAIN order_lookup /\ free_indices # << >>)
  <2>1. UNCHANGED <<nodes, free_indices, levels, order_lookup>>
    BY <1>2, Zenon DEF add_order, Reject
  <2> QED
    BY <2>1, ContainersKept
<1> QED
  BY <1>1, <1>2

LEMMA CancelInv ==
  ASSUME PoolInv, NEW id \in OrderId, cancel_order(id)
  PROVE  PoolInv'
BY RejectKeeps, RemoveKeeps DEF cancel_order

\* The quantity of a live order is a positive word.
LEMMA OpenQuantity ==
  ASSUME PoolInv, NEW id \in DOMAIN order_lookup
  PROVE  order_lookup[id].quantity \in Quantity
BY RecordLocates DEF OrderRecord

LEMMA ModifyInv ==
  ASSUME PoolInv, NEW id \in OrderId, NEW quantity \in Quantity, modify_order(id, quantity)
  PROVE  PoolInv'
<1>1. CASE UNCHANGED <<nodes, free_indices, levels, order_lookup>>
  BY <1>1, ContainersKept
<1>2. CASE ~ UNCHANGED <<nodes, free_indices, levels, order_lookup>>
  <2>1. /\ id \in DOMAIN order_lookup /\ quantity # 0
        /\ quantity < order_lookup[id].quantity
        /\ ReduceTo(id, order_lookup[id].quantity - quantity, quantity)
    BY <1>2, Zenon DEF modify_order, Reject
  <2>2. PICK open \in Quantity : open = order_lookup[id].quantity
    BY <2>1, OpenQuantity
  <2>3. open - quantity \in Quantity
    BY <2>1, <2>2, WordAssumption DEF Quantity
  <2> QED
    BY <2>1, <2>2, <2>3, ReduceKeeps
<1> QED
  BY <1>1, <1>2

LEMMA ExecuteInv ==
  ASSUME PoolInv, NEW id \in OrderId, NEW quantity \in Quantity, execute_order(id, quantity)
  PROVE  PoolInv'
<1>1. CASE UNCHANGED <<nodes, free_indices, levels, order_lookup>>
  BY <1>1, ContainersKept
<1>2. CASE ~ UNCHANGED <<nodes, free_indices, levels, order_lookup>>
  <2>1. /\ id \in DOMAIN order_lookup
        /\ \/ remove_existing_order(id)
           \/ /\ quantity < order_lookup[id].quantity
              /\ ReduceTo(id, quantity, order_lookup[id].quantity - quantity)
    BY <1>2, Zenon DEF execute_order, Reject
  <2>2. CASE remove_existing_order(id)
    BY <2>1, <2>2, RemoveKeeps
  <2>3. CASE /\ quantity < order_lookup[id].quantity
             /\ ReduceTo(id, quantity, order_lookup[id].quantity - quantity)
    <3>1. PICK open \in Quantity : open = order_lookup[id].quantity
      BY <2>1, OpenQuantity
    <3>2. open - quantity \in Quantity /\ open - quantity # 0
      BY <2>3, <3>1, WordAssumption DEF Quantity
    <3> QED
      BY <2>1, <2>3, <3>1, <3>2, ReduceKeeps
  <2> QED
    BY <2>1, <2>2, <2>3
<1> QED
  BY <1>1, <1>2

LEMMA ClearInv == clear => PoolInv'
<1>1. clear => EmptyBook'
  BY DEF clear, EmptyBook
<1>2. EmptyBook' => PoolInv'
  BY EmptyBookInv, PTL
<1> QED
  BY <1>1, <1>2

\* What a call returns and the counter it advances.
LEMMA CountersKept ==
  ASSUME CountersOK, Next
  PROVE  CountersOK'
<1>1. Plus(events_applied, 1) \in 0 .. (Word - 1)
  BY WordClosed DEF CountersOK, Quantity
<1>2. ASSUME NEW res \in Returned, Reject(res)
      PROVE  CountersOK'
  BY <1>2, Zenon DEF Reject, CountersOK
<1>3. Applied => CountersOK'
  BY <1>1, Zenon DEF Applied, CountersOK, Returned, BookResult
<1>4. /\ "InvalidQuantity" \in Returned /\ "DuplicateOrderId" \in Returned
      /\ "CapacityExceeded" \in Returned /\ "MissingOrderId" \in Returned
      /\ "UnsupportedModify" \in Returned /\ "InsufficientQuantity" \in Returned
  BY DEF Returned, BookResult
<1>5. ASSUME NEW id \in OrderId, NEW s \in Side, NEW p \in Price,
             NEW quantity \in Quantity, NEW timestamp \in Timestamp,
             add_order(id, s, p, quantity, timestamp)
      PROVE  CountersOK'
  BY <1>2, <1>3, <1>4, <1>5, Zenon DEF add_order
<1>6. ASSUME NEW id \in OrderId, cancel_order(id)
      PROVE  CountersOK'
  BY <1>2, <1>3, <1>4, <1>6, Zenon DEF cancel_order
<1>7. ASSUME NEW id \in OrderId, NEW quantity \in Quantity, modify_order(id, quantity)
      PROVE  CountersOK'
  BY <1>2, <1>3, <1>4, <1>7, Zenon DEF modify_order
<1>8. ASSUME NEW id \in OrderId, NEW quantity \in Quantity, execute_order(id, quantity)
      PROVE  CountersOK'
  BY <1>2, <1>3, <1>4, <1>8, Zenon DEF execute_order
<1>9. clear => CountersOK'
  BY WordAssumption DEF clear, CountersOK
<1> QED
  BY <1>5, <1>6, <1>7, <1>8, <1>9 DEF Next

LEMMA InitInv == Init => IInv
<1> SUFFICES ASSUME Init PROVE IInv
  OBVIOUS
<1>1. EmptyBook
  BY DEF Init, EmptyBook
<1>2. CountersOK
  BY WordAssumption DEF Init, CountersOK, Returned
<1> QED
  BY <1>1, <1>2, EmptyBookInv DEF IInv

LEMMA NextInv == IInv /\ [Next]_vars => IInv'
<1> SUFFICES ASSUME IInv, [Next]_vars PROVE IInv'
  OBVIOUS
<1>0. PoolInv /\ CountersOK
  BY DEF IInv
<1>1. CASE UNCHANGED vars
  <2>1. PoolInv'
    BY <1>0, <1>1, ContainersKept DEF vars
  <2>2. CountersOK'
    BY <1>0, <1>1 DEF vars, CountersOK
  <2> QED
    BY <2>1, <2>2 DEF IInv
<1>2. CASE Next
  <2>1. PoolInv'
    BY <1>0, <1>2, AddInv, CancelInv, ModifyInv, ExecuteInv, ClearInv DEF Next
  <2>2. CountersOK'
    BY <1>0, <1>2, CountersKept
  <2> QED
    BY <2>1, <2>2 DEF IInv
<1> QED
  BY <1>1, <1>2

LEMMA InvariantHolds == Spec => []IInv
BY InitInv, NextInv, PTL DEF Spec

\* Type correctness of the pooled book, for any pool and any set of orders:
\* add_order(), cancel_order(), modify_order(), execute_order() and clear()
\* only ever index nodes_ inside its bounds, and no order_count underflows.
THEOREM TypeCorrect == Spec => []TypeOK
<1>1. IInv => TypeOK
  BY DEF IInv, PoolInv, ContainersOK, CountersOK, TypeOK
<1> QED
  BY <1>1, InvariantHolds, PTL

-----------------------------------------------------------------------------
(* The pool *)

\* A set that a function maps one to one onto has the size of its domain.
LEMMA ImageSize ==
  ASSUME NEW S, IsFiniteSet(S), NEW f, DOMAIN f = S, f \in [S -> Range(f)],
         \A a, b \in S : f[a] = f[b] => a = b
  PROVE  Cardinality(Range(f)) = Cardinality(S)
<1>1. f \in Bijection(S, Range(f))
  BY DEF Bijection, Injection, Surjection, IsInjective, Range
<1> QED
  BY <1>1, FS_Bijection DEF ExistsBijection

LEMMA Partitioned ==
  ASSUME PoolInv
  PROVE  PoolPartition
<1> DEFINE ids  == DOMAIN order_lookup
           node == [id \in ids |-> order_lookup[id].node_index]
           used == {order_lookup[id].node_index : id \in ids}
           free == Range(free_indices)
           F    == Len(free_indices)
<1>1. Cardinality(used) = Cardinality(ids)
  <2>1. IsFiniteSet(ids)
    BY OrderIdAssumption, FS_Subset DEF PoolInv, ContainersOK, IsMap
  <2>2. \A a, b \in ids : node[a] = node[b] => a = b
    BY DEF PoolInv, RecordsLead
  <2>3. Range(node) = used /\ DOMAIN node = ids /\ node \in [ids -> Range(node)]
    BY DEF Range
  <2> HIDE DEF node, used, ids
  <2> QED
    BY <2>1, <2>2, <2>3, ImageSize
<1>2. free_indices \in Seq(Index) /\ F \in Nat /\ DOMAIN free_indices = 1 .. F
  BY LenProperties DEF PoolInv, ContainersOK
<1>3. Cardinality(free) = F
  <2>1. IsFiniteSet(1 .. F) /\ Cardinality(1 .. F) = F
    <3>1. 1 \in Int /\ F \in Int
      BY <1>2
    <3>2. IsFiniteSet(1 .. F) /\ Cardinality(1 .. F) = IF 1 > F THEN 0 ELSE F - 1 + 1
      BY <3>1, FS_Interval
    <3> QED
      BY <3>2, <1>2
  <2>2. \A j, k \in 1 .. F : free_indices[j] = free_indices[k] => j = k
    BY DEF PoolInv, StackOK
  <2>3. free_indices \in [1 .. F -> Range(free_indices)]
    BY <1>2 DEF Range
  <2> QED
    BY <1>2, <2>1, <2>2, <2>3, ImageSize
<1>4. \A i \in Index : /\ i \in free <=> OnStack(free_indices, i)
                       /\ i \in used <=> Owned(order_lookup, i)
  BY <1>2 DEF Range, OnStack, Owned
<1>5. free \subseteq Index /\ used \subseteq Index
  <2>1. free \subseteq Index
    BY <1>2, ElementOfSeq DEF Range
  <2>2. used \subseteq Index
    BY RecordLocates
  <2> QED
    BY <2>1, <2>2
<1>6. \A i \in Index : /\ OnStack(free_indices, i) <=> ~Owned(order_lookup, i)
                       /\ nodes[i].active <=> Owned(order_lookup, i)
                       /\ OnStack(free_indices, i) => nodes[i] = UnusedNode
  BY DEF PoolInv, StackOK
<1>7. \A i \in Index : nodes[i].active \in BOOLEAN
  BY DEF PoolInv, ContainersOK, OrderNode
<1> HIDE DEF free, used, F, ids
<1>8. /\ used \cap free = {} /\ used \cup free = Index
      /\ \A i \in free : nodes[i] = UnusedNode
  BY <1>4, <1>5, <1>6
<1>9. \A i \in Index : nodes[i].active = (i \in used)
  BY <1>4, <1>6, <1>7
<1> QED
  BY <1>1, <1>3, <1>8, <1>9 DEF PoolPartition, used, free, F, ids

\* No node of the pool is leaked, held by two orders or handed out twice:
\* allocate_node() and release_node() keep the nodes split between the live
\* orders and the free stack, so add_order() answers CapacityExceeded exactly
\* when MaxLiveOrders orders rest.
THEOREM PoolNeverLeaks == Spec => []PoolPartition
<1>1. IInv => PoolPartition
  BY Partitioned DEF IInv
<1> QED
  BY <1>1, InvariantHolds, PTL

-----------------------------------------------------------------------------
(* Loops over a chain *)

\* One turn of a loop along dir, as a function of the turns before it.
Turn(f, start, dir, k) ==
  IF k = 0 THEN start
  ELSE LET prior == f[k - 1]
       IN  IF prior = npos THEN npos ELSE nodes[prior][dir]

TakesTurns(f, start, dir, M) == \A k \in 0 .. M : f[k] = Turn(f, start, dir, k)

\* Two functions that take the same turns agree.
LEMMA TurnsAgree ==
  ASSUME NEW f, NEW g, NEW start, NEW dir, NEW M \in Nat,
         TakesTurns(f, start, dir, M), TakesTurns(g, start, dir, M)
  PROVE  \A k \in 0 .. M : f[k] = g[k]
<1> DEFINE T == {k \in 0 .. M : f[k] # g[k]}
<1> SUFFICES ASSUME T # {} PROVE FALSE
  OBVIOUS
<1>1. T \subseteq Nat
  OBVIOUS
<1>2. PICK k \in T : \A j \in T : ~(<<j, k>> \in OpToRel(<, Nat))
  BY <1>1, NatLessThanWellFounded, WFMin
<1>3. k \in 0 .. M /\ f[k] # g[k]
  OBVIOUS
<1>4. CASE k = 0
  BY <1>3, <1>4 DEF Turn, TakesTurns
<1>5. CASE k # 0
  <2>1. k - 1 \in 0 .. M /\ k - 1 < k /\ k - 1 \in Nat /\ k \in Nat
    BY <1>3, <1>5
  <2>2. <<k - 1, k>> \in OpToRel(<, Nat)
    BY <2>1 DEF OpToRel
  <2>3. f[k - 1] = g[k - 1]
    BY <1>2, <2>1, <2>2
  <2> QED
    BY <1>3, <2>3 DEF Turn, TakesTurns
<1> QED
  BY <1>4, <1>5

\* path is what a loop along dir from start meets.
IsPath(start, dir, path) ==
  /\ path \in Seq(Index) /\ Len(path) <= MaxLiveOrders
  /\ start = IF Len(path) = 0 THEN npos ELSE path[1]
  /\ \A k \in 1 .. Len(path) :
       nodes[path[k]][dir] = IF k = Len(path) THEN npos ELSE path[k + 1]

LEMMA ReachedAlongPath ==
  ASSUME NEW start, NEW dir, NEW path, IsPath(start, dir, path)
  PROVE  \A k \in 0 .. MaxLiveOrders :
           Reached(start, dir)[k] = IF k < Len(path) THEN path[k + 1] ELSE npos
<1> DEFINE M == MaxLiveOrders
           L == Len(path)
           g == [k \in 0 .. M |-> IF k < L THEN path[k + 1] ELSE npos]
           Solves(f) == f = [k \in 0 .. M |-> Turn(f, start, dir, k)]
<1>1. M \in Nat /\ L \in Nat
  BY PoolAssumption, LenProperties DEF IsPath
<1>2. ASSUME NEW k \in 0 .. M
      PROVE  g[k] = Turn(g, start, dir, k)
  <2>0. g[k] = IF k < L THEN path[k + 1] ELSE npos
    OBVIOUS
  <2>1. CASE k = 0
    BY <2>0, <2>1, <1>1 DEF IsPath, Turn
  <2>2. CASE k # 0
    <3>1. k - 1 \in 0 .. M /\ (k - 1) + 1 = k
      BY <2>2, <1>1
    <3>2. g[k - 1] = IF k - 1 < L THEN path[k] ELSE npos
      BY <3>1
    <3> HIDE DEF g
    <3>3. CASE k - 1 < L
      <4>1. k \in 1 .. L /\ (k = L <=> ~(k < L))
        BY <2>2, <3>3, <1>1
      <4>2. path[k] \in Index /\ path[k] # npos
        BY <4>1, ElementOfSeq, LinkWords DEF IsPath
      <4>3. nodes[path[k]][dir] = IF k = L THEN npos ELSE path[k + 1]
        BY <4>1 DEF IsPath
      <4> QED
        BY <2>0, <2>2, <3>2, <3>3, <4>1, <4>2, <4>3 DEF Turn
    <3>4. CASE ~(k - 1 < L)
      <4>1. ~(k < L)
        BY <3>4, <1>1
      <4> QED
        BY <2>0, <2>2, <3>2, <3>4, <4>1 DEF Turn
    <3> QED
      BY <3>3, <3>4
  <2> QED
    BY <2>1, <2>2
<1>3. Solves(g)
  BY <1>2
<1> HIDE DEF g
<1>4. Reached(start, dir) = CHOOSE f : Solves(f)
  BY Zenon DEF Reached, Turn
<1>5. Solves(Reached(start, dir))
  BY <1>3, <1>4, Zenon
<1>6. \A k \in 0 .. M : Reached(start, dir)[k] = Turn(Reached(start, dir), start, dir, k)
  BY <1>5, Zenon
<1>7. \A k \in 0 .. M : Reached(start, dir)[k] = g[k]
  <2>1. PICK f : f = Reached(start, dir)
    OBVIOUS
  <2>2. TakesTurns(f, start, dir, M)
    BY <1>6, <2>1, Zenon DEF TakesTurns
  <2>3. TakesTurns(g, start, dir, M)
    BY <1>2 DEF TakesTurns
  <2> HIDE DEF M
  <2>4. \A k \in 0 .. M : f[k] = g[k]
    BY <1>1, <2>2, <2>3, TurnsAgree
  <2> QED
    BY <2>1, <2>4, Zenon
<1> QED
  BY <1>7 DEF g

\* The loop meets the nodes of the path, in its order, and stops.
LEMMA WalkIsPath ==
  ASSUME NEW start, NEW dir, NEW path, IsPath(start, dir, path)
  PROVE  Walk(start, dir) = path
<1> DEFINE M  == MaxLiveOrders
           L  == Len(path)
           at == Reached(start, dir)
           steps == {k \in 0 .. M : at[k] # npos}
<1>1. M \in Nat /\ L \in Nat /\ L <= M /\ path \in Seq(Index)
  BY PoolAssumption, LenProperties DEF IsPath
<1>2. \A k \in 0 .. M : at[k] = IF k < L THEN path[k + 1] ELSE npos
  BY ReachedAlongPath
<1>3. \A k \in 1 .. L : path[k] # npos
  BY <1>1, ElementOfSeq, LinkWords
<1> HIDE DEF at, L, M
<1>4. steps = 0 .. (L - 1)
  BY <1>1, <1>2, <1>3
<1>5. Cardinality(steps) = L
  <2>1. 0 \in Int /\ L - 1 \in Int
    BY <1>1
  <2>2. Cardinality(0 .. (L - 1)) = IF 0 > L - 1 THEN 0 ELSE (L - 1) - 0 + 1
    BY <2>1, FS_Interval
  <2> HIDE DEF steps
  <2> QED
    BY <1>1, <1>4, <2>2
<1>6. Walk(start, dir) = [k \in 1 .. L |-> at[k - 1]]
  BY <1>5 DEF Walk, at, M
<1>7. \A k \in 1 .. L : at[k - 1] = path[k]
  BY <1>1, <1>2
<1>8. path = [k \in 1 .. L |-> path[k]]
  BY <1>1, LenProperties DEF L
<1> QED
  BY <1>6, <1>7, <1>8

\* The chain of a level is the path of both loops over it.
LEMMA ChainIsPath ==
  ASSUME PoolInv, NEW s \in Side, NEW p \in DOMAIN levels[s], NEW chain \in Seq(Index),
         IsChain(nodes, levels[s][p], order_lookup, s, p, chain)
  PROVE  /\ IsPath(levels[s][p].head, "next", chain)
         /\ IsPath(levels[s][p].tail, "prev", Reverse(chain))
<1> DEFINE L    == Len(chain)
           back == Reverse(chain)
<1>1. /\ L \in Nat /\ L # 0 /\ L <= MaxLiveOrders
      /\ \A k \in 1 .. L : chain[k] \in Index
  <2>1. L \in 0 .. MaxLiveOrders
    BY ChainFits DEF IsChain, Linked
  <2> QED
    BY <2>1, PoolAssumption, ElementOfSeq DEF IsChain
<1>2. /\ levels[s][p].head = chain[1] /\ levels[s][p].tail = chain[L]
      /\ \A k \in 1 .. L :
           /\ nodes[chain[k]].prev = IF k = 1 THEN npos ELSE chain[k - 1]
           /\ nodes[chain[k]].next = IF k = L THEN npos ELSE chain[k + 1]
  BY DEF IsChain, Linked
<1>3. /\ back \in Seq(Index) /\ Len(back) = L
      /\ \A k \in 1 .. L : back[k] = chain[L - k + 1]
  <2>1. back = [k \in 1 .. L |-> chain[(L - k) + 1]]
    BY DEF Reverse
  <2>2. \A k \in 1 .. L : (L - k) + 1 \in 1 .. L
    BY <1>1
  <2>3. \A k \in 1 .. L : chain[(L - k) + 1] \in Index
    BY <1>1, <2>2
  <2> HIDE DEF L, back
  <2>4. back \in [1 .. L -> Index] /\ \A k \in 1 .. L : back[k] = chain[(L - k) + 1]
    BY <2>1, <2>3
  <2>5. back \in Seq(Index)
    BY <1>1, <2>4, SeqDef
  <2>6. DOMAIN back = 1 .. L
    BY <2>4
  <2>7. Len(back) = L
    BY <1>1, <2>5, <2>6, LenProperties
  <2> QED
    BY <2>4, <2>5, <2>7
<1>4. nodes \in [Index -> OrderNode]
  BY DEF PoolInv, ContainersOK
<1> HIDE DEF L, back
<1>5. \A x \in Index : nodes[x]["next"] = nodes[x].next /\ nodes[x]["prev"] = nodes[x].prev
  BY Zenon
<1>6. IsPath(levels[s][p].head, "next", chain)
  BY <1>1, <1>2, <1>5 DEF IsPath, L
<1>7. ASSUME NEW k \in 1 .. L
      PROVE  nodes[back[k]]["prev"] = IF k = L THEN npos ELSE back[k + 1]
  <2>1. /\ L - k + 1 \in 1 .. L /\ (L - k + 1 = 1 <=> k = L)
        /\ (L - k + 1) - 1 = L - (k + 1) + 1
        /\ k # L => k + 1 \in 1 .. L
    BY <1>1
  <2>2. back[k] = chain[L - k + 1] /\ (k # L => back[k + 1] = chain[(L - k + 1) - 1])
    BY <1>3, <2>1
  <2> QED
    BY <1>1, <1>2, <1>5, <2>1, <2>2
<1>8. back[1] = chain[L]
  BY <1>1, <1>3
<1> QED
  BY <1>1, <1>2, <1>3, <1>6, <1>7, <1>8 DEF IsPath, back

\* unlink_node() never leaves the two directions of a level's list telling
\* different stories: validate_invariants() checks prev along next, and the
\* list read from its tail is the same list, for every pool and every history
\* of calls.
THEOREM ChainsReadBothWays == Spec => []ChainsMirror
<1>1. IInv => ChainsMirror
  <2> SUFFICES ASSUME PoolInv, NEW s \in Side, NEW p \in DOMAIN levels[s]
               PROVE  Walk(levels[s][p].tail, "prev")
                        = Reverse(Walk(levels[s][p].head, "next"))
    BY DEF IInv, ChainsMirror
  <2>1. PICK chain \in Seq(Index) :
          IsChain(nodes, levels[s][p], order_lookup, s, p, chain)
    BY DEF PoolInv, LevelsChained
  <2>2. /\ IsPath(levels[s][p].head, "next", chain)
        /\ IsPath(levels[s][p].tail, "prev", Reverse(chain))
    BY <2>1, ChainIsPath
  <2>3. /\ Walk(levels[s][p].head, "next") = chain
        /\ Walk(levels[s][p].tail, "prev") = Reverse(chain)
    BY <2>2, WalkIsPath
  <2> QED
    BY <2>3, Zenon
<1> QED
  BY <1>1, InvariantHolds, PTL

-----------------------------------------------------------------------------
(* The queues the loops read *)

\* The refinement mapping: the queue of orders at every side and price.
Queues == [s \in Side |-> [p \in Price |-> OrdersAt(s, p)]]

\* The orders in the nodes of a chain.
QueueOf(ns, chain) == [k \in 1 .. Len(chain) |-> OrderView(ns[chain[k]])]

ChainsRead ==
  \A s \in Side, p \in Price : \A chain \in Seq(Index) :
    ChainAt(s, p, chain) => /\ OrdersAt(s, p) = QueueOf(nodes, chain)
                            /\ OrdersAt(s, p) \in Seq(OrderEntry)
                            /\ Len(OrdersAt(s, p)) = Len(chain)

LEMMA ChainExists ==
  ASSUME PoolInv, NEW s \in Side, NEW p \in Price
  PROVE  \E chain \in Seq(Index) : ChainAt(s, p, chain)
<1>1. CASE p \in DOMAIN levels[s]
  BY <1>1 DEF ChainAt, PoolInv, LevelsChained
<1>2. CASE p \notin DOMAIN levels[s]
  <2>1. << >> \in Seq(Index)
    OBVIOUS
  <2> QED
    BY <1>2, <2>1 DEF ChainAt
<1> QED
  BY <1>1, <1>2

\* A node of a chain shows an order entry.
LEMMA NodeShowsEntry ==
  ASSUME PoolInv, NEW s, NEW p, NEW n \in Index, Backed(nodes, order_lookup, s, p, n)
  PROVE  OrderView(nodes[n]) \in OrderEntry
<1>1. nodes[n].order_id \in DOMAIN order_lookup
  BY DEF Backed
<1>2. order_lookup[nodes[n].order_id] \in OrderRecord /\ nodes[n].order_id \in OrderId
  BY <1>1, RecordLocates
<1>3. nodes[n].timestamp \in Timestamp /\ nodes[n].quantity \in Quantity
  BY <1>2 DEF Backed, OrderRecord
<1> QED
  BY <1>2, <1>3 DEF OrderView, OrderEntry

LEMMA ChainsAreRead == PoolInv => ChainsRead
<1> SUFFICES ASSUME PoolInv, NEW s \in Side, NEW p \in Price, NEW chain \in Seq(Index),
                    ChainAt(s, p, chain)
             PROVE  /\ OrdersAt(s, p) = QueueOf(nodes, chain)
                    /\ OrdersAt(s, p) \in Seq(OrderEntry)
                    /\ Len(OrdersAt(s, p)) = Len(chain)
  BY DEF ChainsRead
<1>1. Walk(LevelAt(s, p).head, "next") = chain
  <2>1. CASE p \in DOMAIN levels[s]
    <3>1. LevelAt(s, p) = levels[s][p]
      BY <2>1 DEF LevelAt
    <3>2. IsPath(levels[s][p].head, "next", chain)
      BY <2>1, ChainIsPath DEF ChainAt
    <3> QED
      BY <3>1, <3>2, WalkIsPath
  <2>2. CASE p \notin DOMAIN levels[s]
    <3>1. LevelAt(s, p).head = npos /\ chain = << >>
      BY <2>2 DEF LevelAt, EmptyLevel, ChainAt
    <3>2. IsPath(npos, "next", << >>)
      BY PoolAssumption DEF IsPath
    <3> QED
      BY <3>1, <3>2, WalkIsPath
  <2> QED
    BY <2>1, <2>2
<1>2. OrdersAt(s, p) = QueueOf(nodes, chain)
  BY <1>1, Zenon DEF OrdersAt, QueueOf
<1>3. \A k \in 1 .. Len(chain) : Backed(nodes, order_lookup, s, p, chain[k])
  BY DEF ChainAt, IsChain
<1>4. \A k \in 1 .. Len(chain) : OrderView(nodes[chain[k]]) \in OrderEntry
  BY <1>3, ElementOfSeq, NodeShowsEntry
<1>5. Len(chain) \in Nat /\ QueueOf(nodes, chain) \in [1 .. Len(chain) -> OrderEntry]
  BY <1>4, LenProperties DEF QueueOf
<1>6. QueueOf(nodes, chain) \in Seq(OrderEntry)
  BY <1>5, SeqDef
<1>7. DOMAIN QueueOf(nodes, chain) = 1 .. Len(chain)
  BY DEF QueueOf
<1>8. Len(QueueOf(nodes, chain)) = Len(chain)
  BY <1>5, <1>6, <1>7, LenProperties
<1> QED
  BY <1>2, <1>6, <1>8

LEMMA ChainsAreReadNext == PoolInv' => ChainsRead'
BY ChainsAreRead, PTL

\* What is read at a level before and after a step, from its chains.
LEMMA ReadBefore ==
  ASSUME PoolInv, NEW s \in Side, NEW p \in Price, NEW chain \in Seq(Index),
         ChainAt(s, p, chain)
  PROVE  /\ OrdersAt(s, p) \in Seq(OrderEntry) /\ Len(OrdersAt(s, p)) = Len(chain)
         /\ \A k \in 1 .. Len(chain) : OrdersAt(s, p)[k] = OrderView(nodes[chain[k]])
BY ChainsAreRead DEF ChainsRead, QueueOf

LEMMA ReadAfter ==
  ASSUME PoolInv', NEW s \in Side, NEW p \in Price, NEW chain \in Seq(Index),
         ChainAt(s, p, chain)'
  PROVE  /\ OrdersAt(s, p)' \in Seq(OrderEntry) /\ Len(OrdersAt(s, p)') = Len(chain)
         /\ \A k \in 1 .. Len(chain) : OrdersAt(s, p)'[k] = OrderView(nodes'[chain[k]])
BY ChainsAreReadNext DEF ChainsRead, QueueOf

LEMMA SameView ==
  ASSUME NEW a, NEW b, SamePayload(a, b)
  PROVE  OrderView(a) = OrderView(b)
BY DEF SamePayload, OrderView

\* A level whose chain stays and whose nodes keep their orders is read the same.
LEMMA ReadTheSame ==
  ASSUME PoolInv, PoolInv', NEW s \in Side, NEW p \in Price, NEW chain \in Seq(Index),
         ChainAt(s, p, chain), ChainAt(s, p, chain)',
         \A k \in 1 .. Len(chain) : OrderView(nodes'[chain[k]]) = OrderView(nodes[chain[k]])
  PROVE  OrdersAt(s, p)' = OrdersAt(s, p)
<1>1. PICK before : before = OrdersAt(s, p)
  OBVIOUS
<1>2. PICK after : after = OrdersAt(s, p)'
  OBVIOUS
<1>3. /\ before \in Seq(OrderEntry) /\ Len(before) = Len(chain)
      /\ \A k \in 1 .. Len(chain) : before[k] = OrderView(nodes[chain[k]])
  BY <1>1, ReadBefore
<1>4. /\ after \in Seq(OrderEntry) /\ Len(after) = Len(chain)
      /\ \A k \in 1 .. Len(chain) : after[k] = OrderView(nodes'[chain[k]])
  BY <1>2, ReadAfter
<1>5. after = before
  BY <1>3, <1>4, SeqEqual
<1> QED
  BY <1>1, <1>2, <1>5

\* The queues after a step that touches one level only.
LEMMA OneQueueChanges ==
  ASSUME NEW side \in Side, NEW price \in Price, NEW queue,
         OrdersAt(side, price)' = queue,
         \A s \in Side, p \in Price :
           ~(s = side /\ p = price) => OrdersAt(s, p)' = OrdersAt(s, p)
  PROVE  Queues' = [Queues EXCEPT ![side][price] = queue]
<1> DEFINE new == [Queues EXCEPT ![side][price] = queue]
<1>1. Queues' = [s \in Side |-> [p \in Price |-> OrdersAt(s, p)']]
  BY DEF Queues
<1>2. ASSUME NEW s \in Side
      PROVE  new[s] = [p \in Price |-> OrdersAt(s, p)']
  <2>1. CASE s = side
    <3>1. new[s] = [Queues[side] EXCEPT ![price] = queue]
      BY <2>1 DEF Queues
    <3>2. Queues[side] = [p \in Price |-> OrdersAt(side, p)]
      BY DEF Queues
    <3> HIDE DEF new
    <3>3. \A p \in Price : new[s][p] = OrdersAt(side, p)'
      BY <3>1, <3>2
    <3> QED
      BY <2>1, <3>1, <3>2, <3>3
  <2>2. CASE s # side
    <3>1. new[s] = [p \in Price |-> OrdersAt(s, p)]
      BY <2>2 DEF Queues
    <3>2. \A p \in Price : OrdersAt(s, p)' = OrdersAt(s, p)
      BY <2>2
    <3> QED
      BY <3>1, <3>2
  <2> QED
    BY <2>1, <2>2
<1>3. new = [s \in Side |-> new[s]]
  BY DEF Queues
<1> HIDE DEF new
<1>4. Queues' = new
  BY <1>1, <1>2, <1>3
<1> QED
  BY <1>4 DEF new

-----------------------------------------------------------------------------
(* What each operation does to the queues *)

\* add_order appends to the queue of its side and price and to no other.
LEMMA InsertAppends ==
  ASSUME PoolInv, NEW id \in OrderId, NEW s \in Side, NEW p \in Price,
         NEW quantity \in Quantity, NEW timestamp \in Timestamp,
         quantity # 0, id \notin DOMAIN order_lookup, free_indices # << >>,
         add_order(id, s, p, quantity, timestamp)
  PROVE  Queues' = [Queues EXCEPT ![s][p] =
                      Append(Queues[s][p], [order_id |-> id, timestamp |-> timestamp,
                                            quantity |-> quantity])]
<1>n. PICK n \in Index : n = Last(free_indices)
  BY TopOfStack
<1>1. ~Owned(order_lookup, n)
  BY <1>n, TopOfStack
<1>l. PICK level \in PriceLevel : level = LevelAt(s, p)
  BY <1>1, RoomAtLevel
<1>2. level.tail # n /\ level.order_count + 1 \in 0 .. MaxLiveOrders
  BY <1>1, <1>l, RoomAtLevel
<1>c. PICK chain \in Seq(Index) :
        /\ ChainAt(s, p, chain) /\ level.order_count = Len(chain)
        /\ \A k \in 1 .. Len(chain) : chain[k] # n
  BY <1>1, <1>l, RoomAtLevel
<1>3. Addition(id, s, p, quantity, timestamp, n, level)
  BY <1>n, <1>l, <1>2, AddEffect
<1>f. PICK filled \in [Index -> OrderNode] :
        /\ nodes' = AppendedNodes(filled, level, n)
        /\ \A x \in Index \ {n} : filled[x] = nodes[x]
  BY <1>n, <1>l, <1>2, AddEffect
<1>4. PoolInv'
  BY AddKeeps
<1>g. PICK grown \in Seq(Index) : grown = Append(chain, n)
  BY AppendProperties
<1>5. ChainAt(s, p, grown)'
  <2>1. IsChain(nodes', levels'[s][p], order_lookup', s, p, grown)
    BY <1>l, <1>c, <1>3, <1>f, <1>g, AddExtendsChain
  <2>2. p \in DOMAIN levels'[s]
    BY <1>3 DEF Addition
  <2> QED
    BY <2>1, <2>2 DEF ChainAt
<1>e. PICK entry \in OrderEntry :
        entry = [order_id |-> id, timestamp |-> timestamp, quantity |-> quantity]
  BY DEF OrderEntry
<1>q. PICK queue \in Seq(OrderEntry) : queue = OrdersAt(s, p)
  BY <1>c, ReadBefore
<1>a. PICK after \in Seq(OrderEntry) : after = OrdersAt(s, p)'
  BY <1>4, <1>5, ReadAfter
<1>6. after = Append(queue, entry)
  <2> DEFINE L == Len(chain)
  <2>1. /\ L \in Nat /\ Len(grown) = L + 1 /\ grown[L + 1] = n
        /\ \A k \in 1 .. L : grown[k] = chain[k] /\ chain[k] \in Index \ {n}
    BY <1>g, <1>c, AppendProperties, LenProperties, ElementOfSeq
  <2>2. Len(queue) = L /\ \A k \in 1 .. L : queue[k] = OrderView(nodes[chain[k]])
    BY <1>c, <1>q, ReadBefore
  <2>3. /\ Len(after) = Len(grown)
        /\ \A k \in 1 .. Len(grown) : after[k] = OrderView(nodes'[grown[k]])
    BY <1>4, <1>5, <1>a, ReadAfter
  <2>4. \A k \in 1 .. L : OrderView(nodes'[chain[k]]) = OrderView(nodes[chain[k]])
    BY <2>1, <1>3, SameView DEF Addition
  <2>5. OrderView(nodes'[n]) = entry
    BY <1>e, <1>3 DEF Addition, OrderView
  <2>6. /\ Append(queue, entry) \in Seq(OrderEntry)
        /\ Len(Append(queue, entry)) = Len(queue) + 1
        /\ \A k \in 1 .. Len(queue) : Append(queue, entry)[k] = queue[k]
        /\ Append(queue, entry)[Len(queue) + 1] = entry
    BY AppendProperties
  <2> HIDE DEF L
  <2>7. ASSUME NEW k \in 1 .. (L + 1)
        PROVE  after[k] = Append(queue, entry)[k]
    <3>1. CASE k = L + 1
      BY <3>1, <2>1, <2>2, <2>3, <2>5, <2>6
    <3>2. CASE k \in 1 .. L
      <4>1. grown[k] = chain[k] /\ k \in 1 .. Len(grown) /\ k \in 1 .. Len(queue)
        BY <3>2, <2>1, <2>2
      <4>2. after[k] = OrderView(nodes'[chain[k]]) /\ queue[k] = OrderView(nodes[chain[k]])
        BY <3>2, <4>1, <2>2, <2>3
      <4>3. OrderView(nodes'[chain[k]]) = OrderView(nodes[chain[k]])
        BY <3>2, <2>4
      <4>4. Append(queue, entry)[k] = queue[k]
        BY <4>1, <2>6
      <4> QED
        BY <4>2, <4>3, <4>4
    <3>3. k = L + 1 \/ k \in 1 .. L
      BY <2>1
    <3> QED
      BY <3>1, <3>2, <3>3
  <2> QED
    BY <2>1, <2>2, <2>3, <2>6, <2>7, SeqEqual
<1>7. ASSUME NEW t \in Side, NEW x \in Price, ~(t = s /\ x = p)
      PROVE  OrdersAt(t, x)' = OrdersAt(t, x)
  <2>1. PICK other \in Seq(Index) : ChainAt(t, x, other)
    BY ChainExists
  <2>2. /\ x \in DOMAIN levels'[t] <=> x \in DOMAIN levels[t]
    BY <1>3, <1>7 DEF Addition
  <2>3. ChainAt(t, x, other)'
    <3>1. CASE x \in DOMAIN levels[t]
      <4>1. IsChain(nodes, levels[t][x], order_lookup, t, x, other)
        BY <2>1, <3>1 DEF ChainAt
      <4>2. IsChain(nodes', levels'[t][x], order_lookup', t, x, other)
        BY <3>1, <4>1, <1>1, <1>l, <1>3, <1>7, AddElsewhere
      <4> QED
        BY <2>2, <3>1, <4>2 DEF ChainAt
    <3>2. CASE x \notin DOMAIN levels[t]
      BY <2>1, <2>2, <3>2 DEF ChainAt
    <3> QED
      BY <3>1, <3>2
  <2>4. ASSUME NEW k \in 1 .. Len(other)
        PROVE  OrderView(nodes'[other[k]]) = OrderView(nodes[other[k]])
    <3>0. IsChain(nodes, levels[t][x], order_lookup, t, x, other)
      <4>1. Len(<< >>) = 0 /\ 1 .. 0 = {}
        OBVIOUS
      <4> QED
        BY <2>1, <4>1 DEF ChainAt
    <3>1. Backed(nodes, order_lookup, t, x, other[k])
      BY <3>0 DEF IsChain
    <3>2. Owned(order_lookup, other[k])
      BY <3>1 DEF Backed, Owned
    <3>3. PICK y \in Index : y = other[k] /\ y # n
      BY <3>2, <1>1, ElementOfSeq
    <3>4. SamePayload(nodes'[y], nodes[y])
      BY <3>3, <1>3 DEF Addition
    <3> QED
      BY <3>3, <3>4, SameView
  <2> QED
    BY <2>1, <2>3, <2>4, <1>4, ReadTheSame
<1>8. Queues' = [Queues EXCEPT ![s][p] = Append(queue, entry)]
  <2>1. Queues' = [Queues EXCEPT ![s][p] = after]
    BY <1>a, <1>7, OneQueueChanges
  <2> QED
    BY <2>1, <1>6, Zenon
<1>9. Queues[s][p] = queue
  BY <1>q DEF Queues
<1> QED
  BY <1>8, <1>9, <1>e, Zenon

\* Removal takes the order out of its queue and leaves the others.
LEMMA RemoveTakesOut ==
  ASSUME PoolInv, NEW id \in DOMAIN order_lookup, remove_existing_order(id),
         NEW s \in Side, NEW p \in Price, NEW chain \in Seq(Index), NEW i \in 1 .. Len(chain),
         order_lookup[id].side = s, order_lookup[id].price = p,
         chain[i] = order_lookup[id].node_index,
         IsChain(nodes, levels[s][p], order_lookup, s, p, chain)
  PROVE  Queues' = [Queues EXCEPT ![s][p] = RemoveAt(Queues[s][p], i)]
<1>n. PICK n \in Index : order_lookup[id].node_index = n
  BY RecordLocates
<1>0. p \in DOMAIN levels[s] /\ ChainAt(s, p, chain) /\ nodes \in [Index -> OrderNode]
  BY RecordLocates DEF ChainAt, PoolInv, ContainersOK
<1>1. Removal(id, s, p, n, Len(chain))
  BY <1>n, RemoveEffect
<1>2. PoolInv'
  BY RemoveKeeps
<1>3. \A x \in Index \ {n} : OrderView(nodes'[x]) = OrderView(nodes[x])
  BY <1>0, <1>1, UnlinkedFields, SameView DEF Removal
<1>r. PICK rest \in Seq(Index) :
        /\ rest = RemoveAt(chain, i) /\ Len(rest) = Len(chain) - 1
        /\ \A k \in 1 .. (Len(chain) - 1) :
             rest[k] = IF k < i THEN chain[k] ELSE chain[k + 1]
  BY RemoveAtProperties
<1>4. ChainAt(s, p, rest)'
  <2>1. CASE Len(chain) = 1
    <3>1. p \notin DOMAIN levels'[s] /\ Len(rest) = 0
      BY <2>1, <1>1, <1>r DEF Removal
    <3>2. rest = << >>
      BY <3>1, EmptySeq
    <3> QED
      BY <3>1, <3>2 DEF ChainAt
  <2>2. CASE Len(chain) # 1
    <3>1. p \in DOMAIN levels'[s]
      BY <2>2, <1>1 DEF Removal
    <3>2. IsChain(nodes', levels'[s][p], order_lookup', s, p, rest)
      BY <2>2, <1>n, <1>r, RemoveShortensChain
    <3> QED
      BY <3>1, <3>2 DEF ChainAt
  <2> QED
    BY <2>1, <2>2
<1>q. PICK queue \in Seq(OrderEntry) : queue = OrdersAt(s, p)
  BY <1>0, ReadBefore
<1>a. PICK after \in Seq(OrderEntry) : after = OrdersAt(s, p)'
  BY <1>2, <1>4, ReadAfter
<1>5. after = RemoveAt(queue, i)
  <2> DEFINE L == Len(chain)
  <2>1. L \in Nat /\ i \in 1 .. L /\ \A k \in 1 .. L : chain[k] \in Index
    BY LenProperties, ElementOfSeq
  <2>2. Len(queue) = L /\ \A k \in 1 .. L : queue[k] = OrderView(nodes[chain[k]])
    BY <1>0, <1>q, ReadBefore
  <2>3. /\ Len(after) = Len(rest)
        /\ \A k \in 1 .. Len(rest) : after[k] = OrderView(nodes'[rest[k]])
    BY <1>2, <1>4, <1>a, ReadAfter
  <2>4. \A j, k \in 1 .. L : chain[j] = chain[k] => j = k
    BY DEF IsChain, Linked
  <2>5. /\ RemoveAt(queue, i) \in Seq(OrderEntry)
        /\ Len(RemoveAt(queue, i)) = L - 1
        /\ \A k \in 1 .. (L - 1) :
             RemoveAt(queue, i)[k] = IF k < i THEN queue[k] ELSE queue[k + 1]
    <3>1. i \in 1 .. Len(queue)
      BY <2>1, <2>2
    <3>2. /\ RemoveAt(queue, i) \in Seq(OrderEntry)
          /\ Len(RemoveAt(queue, i)) = Len(queue) - 1
          /\ \A k \in 1 .. (Len(queue) - 1) :
               RemoveAt(queue, i)[k] = IF k < i THEN queue[k] ELSE queue[k + 1]
      BY <3>1, RemoveAtProperties
    <3> QED
      BY <2>2, <3>2
  <2>6. Len(rest) = L - 1 /\ chain[i] = n
        /\ \A k \in 1 .. (L - 1) : rest[k] = IF k < i THEN chain[k] ELSE chain[k + 1]
    BY <1>r, <1>n
  <2> HIDE DEF L
  <2>7. ASSUME NEW k \in 1 .. (L - 1)
        PROVE  after[k] = RemoveAt(queue, i)[k]
    <3>1. PICK m \in 1 .. L : m = (IF k < i THEN k ELSE k + 1) /\ m # i
      BY <2>1
    <3>2. rest[k] = chain[m] /\ RemoveAt(queue, i)[k] = queue[m]
      BY <3>1, <2>5, <2>6
    <3>3. chain[m] \in Index \ {n}
      BY <3>1, <2>1, <2>4, <2>6
    <3>4. OrderView(nodes'[chain[m]]) = OrderView(nodes[chain[m]])
      BY <3>3, <1>3
    <3>5. after[k] = OrderView(nodes'[chain[m]]) /\ queue[m] = OrderView(nodes[chain[m]])
      BY <3>2, <2>2, <2>3, <2>6
    <3> QED
      BY <3>2, <3>4, <3>5
  <2> QED
    BY <2>3, <2>5, <2>6, <2>7, SeqEqual
<1>6. ASSUME NEW t \in Side, NEW x \in Price, ~(t = s /\ x = p)
      PROVE  OrdersAt(t, x)' = OrdersAt(t, x)
  <2>1. PICK other \in Seq(Index) : ChainAt(t, x, other)
    BY ChainExists
  <2>2. /\ x \in DOMAIN levels'[t] <=> x \in DOMAIN levels[t]
    BY <1>1, <1>6 DEF Removal
  <2>3. ChainAt(t, x, other)' /\ \A k \in 1 .. Len(other) : other[k] \in Index \ {n}
    <3>1. CASE x \in DOMAIN levels[t]
      <4>1. IsChain(nodes, levels[t][x], order_lookup, t, x, other)
        BY <2>1, <3>1 DEF ChainAt
      <4>2. IsChain(nodes', levels'[t][x], order_lookup', t, x, other)
        <5>1. ~(t = s /\ x = p) /\ order_lookup[id].side = s /\ order_lookup[id].price = p
          BY <1>6
        <5> QED
          BY <3>1, <4>1, <5>1, RemoveElsewhere, Zenon
      <4>3. \A k \in 1 .. Len(other) : other[k] # chain[i] /\ other[k] \in Index
        BY <4>1, <1>6, ChainsDisjoint, ElementOfSeq
      <4> QED
        BY <2>2, <3>1, <4>2, <4>3, <1>n DEF ChainAt
    <3>2. CASE x \notin DOMAIN levels[t]
      BY <2>1, <2>2, <3>2 DEF ChainAt
    <3> QED
      BY <3>1, <3>2
  <2>4. \A k \in 1 .. Len(other) : OrderView(nodes'[other[k]]) = OrderView(nodes[other[k]])
    BY <2>3, <1>3
  <2> QED
    BY <2>1, <2>3, <2>4, <1>2, ReadTheSame
<1>7. Queues' = [Queues EXCEPT ![s][p] = RemoveAt(queue, i)]
  <2>1. Queues' = [Queues EXCEPT ![s][p] = after]
    BY <1>a, <1>6, OneQueueChanges
  <2> QED
    BY <2>1, <1>5, Zenon
<1>8. Queues[s][p] = queue
  BY <1>q DEF Queues
<1> QED
  BY <1>7, <1>8, Zenon

\* A reduction changes one quantity and moves nobody.
LEMMA ReduceResizes ==
  ASSUME PoolInv, NEW id \in DOMAIN order_lookup, NEW units \in Quantity,
         NEW left \in Quantity, left # 0, ReduceTo(id, units, left),
         NEW s \in Side, NEW p \in Price, NEW chain \in Seq(Index), NEW i \in 1 .. Len(chain),
         order_lookup[id].side = s, order_lookup[id].price = p,
         chain[i] = order_lookup[id].node_index,
         IsChain(nodes, levels[s][p], order_lookup, s, p, chain)
  PROVE  Queues' = [Queues EXCEPT ![s][p] = Resized(Queues[s][p], i, left)]
<1>n. PICK n \in Index : order_lookup[id].node_index = n
  BY RecordLocates
<1>0. /\ p \in DOMAIN levels[s] /\ ChainAt(s, p, chain) /\ nodes[n] \in OrderNode
  BY <1>n, RecordLocates DEF ChainAt
<1>1. Reduction(id, s, p, n, left)
  BY <1>n, ReduceEffect
<1>2. PoolInv'
  BY ReduceKeeps
<1>3. \A x \in Index \ {n} : OrderView(nodes'[x]) = OrderView(nodes[x])
  BY <1>1 DEF Reduction
<1>4. ASSUME NEW t \in Side, NEW x \in Price, NEW other \in Seq(Index), ChainAt(t, x, other)
      PROVE  ChainAt(t, x, other)'
  <2>1. x \in DOMAIN levels'[t] <=> x \in DOMAIN levels[t]
    BY <1>1 DEF Reduction
  <2>2. CASE x \in DOMAIN levels[t]
    <3>1. IsChain(nodes, levels[t][x], order_lookup, t, x, other)
      BY <1>4, <2>2 DEF ChainAt
    <3>2. IsChain(nodes', levels'[t][x], order_lookup', t, x, other)
      BY <2>2, <3>1, <1>n, <1>1, ReduceKeepsChains
    <3> QED
      BY <2>1, <2>2, <3>2 DEF ChainAt
  <2>3. CASE x \notin DOMAIN levels[t]
    BY <1>4, <2>1, <2>3 DEF ChainAt
  <2> QED
    BY <2>2, <2>3
<1>5. ChainAt(s, p, chain)'
  BY <1>0, <1>4
<1>q. PICK queue \in Seq(OrderEntry) : queue = OrdersAt(s, p)
  BY <1>0, ReadBefore
<1>a. PICK after \in Seq(OrderEntry) : after = OrdersAt(s, p)'
  BY <1>2, <1>5, ReadAfter
<1>6. after = Resized(queue, i, left)
  <2> DEFINE L == Len(chain)
  <2>1. L \in Nat /\ i \in 1 .. L /\ chain[i] = n /\ \A k \in 1 .. L : chain[k] \in Index
    BY <1>n, LenProperties, ElementOfSeq
  <2>2. Len(queue) = L /\ \A k \in 1 .. L : queue[k] = OrderView(nodes[chain[k]])
    BY <1>0, <1>q, ReadBefore
  <2>3. Len(after) = L /\ \A k \in 1 .. L : after[k] = OrderView(nodes'[chain[k]])
    BY <1>2, <1>5, <1>a, ReadAfter
  <2>4. \A j, k \in 1 .. L : chain[j] = chain[k] => j = k
    BY DEF IsChain, Linked
  <2> HIDE DEF L
  <2>5. /\ Resized(queue, i, left) \in Seq(OrderEntry)
        /\ Len(Resized(queue, i, left)) = L
        /\ Resized(queue, i, left)[i] = ResizedEntry(queue[i], left)
        /\ \A k \in 1 .. L : k # i => Resized(queue, i, left)[k] = queue[k]
    BY <2>1, <2>2, ResizedEntries
  <2>6. ASSUME NEW k \in 1 .. L
        PROVE  after[k] = Resized(queue, i, left)[k]
    <3>1. CASE k # i
      <4>1. chain[k] \in Index \ {n}
        BY <3>1, <2>1, <2>4
      <4>2. OrderView(nodes'[chain[k]]) = OrderView(nodes[chain[k]])
        BY <4>1, <1>3
      <4> QED
        BY <3>1, <4>2, <2>2, <2>3, <2>5
    <3>2. CASE k = i
      <4>1. /\ nodes'[n].order_id = nodes[n].order_id
            /\ nodes'[n].timestamp = nodes[n].timestamp /\ nodes'[n].quantity = left
        BY <1>0, <1>1, RequantifiedNode DEF Reduction
      <4>2. after[i] = OrderView(nodes'[n]) /\ queue[i] = OrderView(nodes[n])
        BY <2>1, <2>2, <2>3
      <4>3. /\ queue[i].order_id = nodes[n].order_id
            /\ queue[i].timestamp = nodes[n].timestamp
        BY <4>2 DEF OrderView
      <4>4. after[i] = ResizedEntry(queue[i], left)
        BY <4>1, <4>2, <4>3 DEF OrderView, ResizedEntry
      <4>5. Resized(queue, i, left)[i] = ResizedEntry(queue[i], left)
        BY <2>5
      <4> QED
        BY <3>2, <4>4, <4>5, Zenon
    <3> QED
      BY <3>1, <3>2
  <2> QED
    BY <2>3, <2>5, <2>6, SeqEqual
<1>7. ASSUME NEW t \in Side, NEW x \in Price, ~(t = s /\ x = p)
      PROVE  OrdersAt(t, x)' = OrdersAt(t, x)
  <2>1. PICK other \in Seq(Index) : ChainAt(t, x, other)
    BY ChainExists
  <2>2. ChainAt(t, x, other)'
    BY <2>1, <1>4
  <2>3. \A k \in 1 .. Len(other) : other[k] \in Index \ {n}
    <3>1. CASE x \in DOMAIN levels[t]
      <4>1. IsChain(nodes, levels[t][x], order_lookup, t, x, other)
        BY <2>1, <3>1 DEF ChainAt
      <4>2. \A k \in 1 .. Len(other) : other[k] # chain[i] /\ other[k] \in Index
        BY <4>1, <1>7, ChainsDisjoint, ElementOfSeq
      <4> QED
        BY <4>2, <1>n
    <3>2. CASE x \notin DOMAIN levels[t]
      BY <2>1, <3>2 DEF ChainAt
    <3> QED
      BY <3>1, <3>2
  <2>4. \A k \in 1 .. Len(other) : OrderView(nodes'[other[k]]) = OrderView(nodes[other[k]])
    BY <2>3, <1>3
  <2> QED
    BY <2>1, <2>2, <2>4, <1>2, ReadTheSame
<1>8. Queues' = [Queues EXCEPT ![s][p] = Resized(queue, i, left)]
  <2>1. Queues' = [Queues EXCEPT ![s][p] = after]
    BY <1>a, <1>7, OneQueueChanges
  <2> QED
    BY <2>1, <1>6, Zenon
<1>9. Queues[s][p] = queue
  BY <1>q DEF Queues
<1> QED
  BY <1>8, <1>9, Zenon

\* The order id stands at position i of the queue at side s and price p, in the
\* i-th node of the level's chain.
StandsAt(id, s, p, chain, i) ==
  /\ order_lookup[id].side = s /\ order_lookup[id].price = p
  /\ chain[i] = order_lookup[id].node_index
  /\ IsChain(nodes, levels[s][p], order_lookup, s, p, chain)
  /\ i \in DOMAIN Queues[s][p] /\ Queues[s][p] \in Seq(OrderEntry)
  /\ Queues[s][p][i].order_id = id
  /\ Queues[s][p][i].quantity = order_lookup[id].quantity

\* The record of a live order leads to its place in the queues.
LEMMA LivePlace ==
  ASSUME PoolInv, NEW id \in DOMAIN order_lookup
  PROVE  \E s \in Side, p \in Price : \E chain \in Seq(Index) : \E i \in 1 .. Len(chain) :
           StandsAt(id, s, p, chain, i)
<1>s. PICK s \in Side : order_lookup[id].side = s
  BY RecordLocates
<1>p. PICK p \in Price : order_lookup[id].price = p /\ p \in DOMAIN levels[s]
  BY <1>s, RecordLocates
<1>n. PICK n \in Index : order_lookup[id].node_index = n /\ nodes[n].order_id = id
  BY RecordLocates
<1>c. PICK chain \in Seq(Index) :
        /\ IsChain(nodes, levels[s][p], order_lookup, s, p, chain)
        /\ \E i \in 1 .. Len(chain) : chain[i] = n
  BY <1>s, <1>p, <1>n, RecordLocates
<1>i. PICK i \in 1 .. Len(chain) : chain[i] = n
  BY <1>c
<1>1. ChainAt(s, p, chain)
  BY <1>p, <1>c DEF ChainAt
<1>2. /\ Queues[s][p] = OrdersAt(s, p) /\ Queues[s][p] \in Seq(OrderEntry)
      /\ Len(Queues[s][p]) = Len(chain)
      /\ Queues[s][p][i] = OrderView(nodes[n])
  <2>1. Queues[s][p] = OrdersAt(s, p)
    BY DEF Queues
  <2> QED
    BY <2>1, <1>1, <1>i, ReadBefore
<1>3. i \in DOMAIN Queues[s][p]
  BY <1>2, LenProperties
<1>4. nodes[n].quantity = order_lookup[id].quantity
  BY <1>n, <1>c, <1>i DEF IsChain, Backed
<1>5. Queues[s][p][i].order_id = id /\ Queues[s][p][i].quantity = order_lookup[id].quantity
  BY <1>2, <1>4, <1>n DEF OrderView
<1> QED
  BY <1>s, <1>p, <1>n, <1>c, <1>i, <1>2, <1>3, <1>5 DEF StandsAt

\* Setting a quantity to what it is changes nothing.
LEMMA ResizeToSame ==
  ASSUME NEW s \in Side, NEW p \in Price, Queues[s][p] \in Seq(OrderEntry),
         NEW i \in DOMAIN Queues[s][p], NEW q, Queues[s][p][i].quantity = q
  PROVE  Queues = [Queues EXCEPT ![s][p] = Resized(Queues[s][p], i, q)]
<1>1. PICK queue \in Seq(OrderEntry) : queue = Queues[s][p]
  OBVIOUS
<1>2. PICK entry \in OrderEntry : entry = queue[i]
  BY <1>1, ElementOfSeq, LenProperties
<1>3. [entry EXCEPT !.quantity = q] = entry
  BY <1>1, <1>2 DEF OrderEntry
<1>4. Resized(queue, i, q) = [queue EXCEPT ![i] = entry]
  BY <1>2, <1>3, Zenon DEF Resized
<1>5. [queue EXCEPT ![i] = entry] = queue
  BY <1>1, <1>2, LenProperties
<1>6. Queues = [Queues EXCEPT ![s][p] = queue]
  BY <1>1 DEF Queues
<1> QED
  BY <1>1, <1>4, <1>5, <1>6, Zenon

-----------------------------------------------------------------------------
(* The pooled book implements the price-time book *)

\* The abstract book's vocabulary is the book's own.
LEMMA SameVocabulary ==
  /\ Abstract!Side = Side /\ Abstract!Quantity = Quantity
  /\ \A a, b : Abstract!Plus(a, b) = Plus(a, b)
  /\ \A q : Abstract!IdsOf(q) = IdsOf(q)
  /\ \A f : Abstract!Range(f) = Range(f)
  /\ \A q, i : Abstract!RemoveAt(q, i) = RemoveAt(q, i)
BY DEF Abstract!Side, Side, Abstract!Quantity, Quantity, Abstract!Plus, Plus,
       Abstract!IdsOf, IdsOf, Abstract!Range, Range, Abstract!RemoveAt, RemoveAt

LEMMA SameCardinality == \A S : Abstract!Cardinality(S) = Cardinality(S)
BY DEF Abstract!Cardinality, Cardinality

\* The identifiers resting in the queues are the ones the index holds.
LEMMA LiveIdsAreIndexed ==
  ASSUME PoolInv
  PROVE  Abstract!LiveIds = DOMAIN order_lookup
<1>1. ASSUME NEW s \in Side, NEW p \in Price, NEW x \in Range(IdsOf(OrdersAt(s, p)))
      PROVE  x \in DOMAIN order_lookup
  <2>1. PICK chain \in Seq(Index) : ChainAt(s, p, chain)
    BY ChainExists
  <2>2. /\ Len(OrdersAt(s, p)) = Len(chain)
        /\ \A k \in 1 .. Len(chain) : OrdersAt(s, p)[k] = OrderView(nodes[chain[k]])
    BY <2>1, ReadBefore
  <2>3. PICK i \in 1 .. Len(OrdersAt(s, p)) : x = OrdersAt(s, p)[i].order_id
    BY <1>1 DEF Range, IdsOf
  <2>4. x = nodes[chain[i]].order_id /\ i \in 1 .. Len(chain)
    <3>1. i \in 1 .. Len(chain) /\ OrdersAt(s, p)[i] = OrderView(nodes[chain[i]])
      BY <2>2, <2>3
    <3>2. OrderView(nodes[chain[i]]).order_id = nodes[chain[i]].order_id
      BY DEF OrderView
    <3> QED
      BY <3>1, <3>2, <2>3
  <2>5. Backed(nodes, order_lookup, s, p, chain[i])
    BY <2>1, <2>4 DEF ChainAt, IsChain
  <2> QED
    BY <2>4, <2>5 DEF Backed
<1>2. ASSUME NEW x \in DOMAIN order_lookup
      PROVE  \E s \in Side, p \in Price : x \in Range(IdsOf(OrdersAt(s, p)))
  <2>1. PICK s \in Side, p \in Price :
          \E i \in DOMAIN Queues[s][p] : /\ Queues[s][p] \in Seq(OrderEntry)
                                         /\ Queues[s][p][i].order_id = x
    BY LivePlace DEF StandsAt
  <2>2. PICK i \in DOMAIN Queues[s][p] : /\ Queues[s][p] \in Seq(OrderEntry)
                                         /\ Queues[s][p][i].order_id = x
    BY <2>1
  <2>3. Queues[s][p] = OrdersAt(s, p)
    BY DEF Queues
  <2>4. i \in 1 .. Len(OrdersAt(s, p))
    BY <2>2, <2>3, LenProperties
  <2> QED
    BY <2>2, <2>3, <2>4 DEF Range, IdsOf
<1>3. \A s \in Side, p \in Price : Queues[s][p] = OrdersAt(s, p)
  BY DEF Queues
<1>4. Abstract!LiveIds = UNION {Abstract!Range(Abstract!IdsOf(Queues[s][p])) :
                                  s \in Abstract!Side, p \in Price}
  BY DEF Abstract!LiveIds, Queues
<1>5. ASSUME NEW x
      PROVE  x \in Abstract!LiveIds
               <=> \E s \in Side, p \in Price : x \in Range(IdsOf(OrdersAt(s, p)))
  BY <1>3, <1>4, SameVocabulary
<1>6. \A x : x \in Abstract!LiveIds <=> x \in DOMAIN order_lookup
  BY <1>1, <1>2, <1>5
<1> QED
  BY <1>6

\* The stack of free indices is empty exactly when MaxLiveOrders orders rest.
LEMMA FullMeansFull ==
  ASSUME PoolInv
  PROVE  Abstract!Full <=> free_indices = << >>
<1> DEFINE used == {order_lookup[id].node_index : id \in DOMAIN order_lookup}
           free == Range(free_indices)
           F    == Len(free_indices)
           C    == Cardinality(DOMAIN order_lookup)
<1>1. /\ Cardinality(used) = C /\ Cardinality(free) = F
      /\ used \cap free = {} /\ used \cup free = Index
  BY Partitioned DEF PoolPartition
<1>2. IsFiniteSet(Index) /\ Cardinality(Index) = MaxLiveOrders
  <2>1. 0 \in Int /\ MaxLiveOrders - 1 \in Int
    BY PoolAssumption
  <2>2. /\ IsFiniteSet(0 .. (MaxLiveOrders - 1))
        /\ Cardinality(0 .. (MaxLiveOrders - 1)) =
             IF 0 > MaxLiveOrders - 1 THEN 0 ELSE (MaxLiveOrders - 1) - 0 + 1
    BY <2>1, FS_Interval
  <2> QED
    BY <2>2, PoolAssumption DEF Index
<1>3. free_indices \in Seq(Index) /\ F \in Nat
  BY LenProperties DEF PoolInv, ContainersOK
<1> HIDE DEF used, free, F, C
<1>4. IsFiniteSet(used) /\ IsFiniteSet(free)
  BY <1>1, <1>2, FS_Subset
<1>5. Cardinality(used \cap free) = 0
  BY <1>1, FS_EmptySet
<1>6. C \in Nat /\ C + F = MaxLiveOrders
  <2>1. Cardinality(used \cup free) =
          Cardinality(used) + Cardinality(free) - Cardinality(used \cap free)
    BY <1>4, FS_Union
  <2>2. Cardinality(used) \in Nat
    BY <1>4, FS_CardinalityType
  <2>3. MaxLiveOrders = C + F - 0
    BY <2>1, <1>1, <1>2, <1>5, Zenon
  <2>4. C \in Nat
    BY <2>2, <1>1, Zenon
  <2> QED
    BY <2>3, <2>4, <1>3, PoolAssumption
<1>7. F = 0 <=> free_indices = << >>
  BY <1>3, EmptySeq DEF F
<1>8. Abstract!Full <=> C >= MaxLiveOrders
  BY LiveIdsAreIndexed, SameCardinality DEF Abstract!Full, C
<1> QED
  BY <1>3, <1>6, <1>7, <1>8, PoolAssumption

\* Calls that leave the containers alone leave the queues alone.
LEMMA QueuesKept ==
  UNCHANGED <<nodes, levels>> => Queues' = Queues
BY DEF Queues, OrdersAt, Walk, Reached, LevelAt

LEMMA RejectMaps ==
  ASSUME NEW res, Reject(res)
  PROVE  Abstract!Reject(res)
<1>1. Queues' = Queues
  BY QueuesKept DEF Reject
<1> QED
  BY <1>1, Zenon DEF Reject, Abstract!Reject, Queues

LEMMA AppliedMaps == Applied => Abstract!Applied
BY SameVocabulary DEF Applied, Abstract!Applied

LEMMA AddMaps ==
  ASSUME PoolInv, NEW id \in OrderId, NEW side \in Side, NEW price \in Price,
         NEW quantity \in Quantity, NEW timestamp \in Timestamp,
         add_order(id, side, price, quantity, timestamp)
  PROVE  Abstract!Add(id, side, price, quantity, timestamp)
<1>1. CASE quantity = 0 /\ Reject("InvalidQuantity")
  BY <1>1, RejectMaps, Zenon DEF Abstract!Add
<1>2. CASE quantity # 0 /\ id \in DOMAIN order_lookup /\ Reject("DuplicateOrderId")
  BY <1>2, RejectMaps, LiveIdsAreIndexed, Zenon DEF Abstract!Add
<1>3. CASE /\ quantity # 0 /\ id \notin DOMAIN order_lookup
           /\ free_indices = << >> /\ Reject("CapacityExceeded")
  BY <1>3, RejectMaps, LiveIdsAreIndexed, FullMeansFull, Zenon DEF Abstract!Add
<1>4. CASE /\ quantity # 0 /\ id \notin DOMAIN order_lookup
           /\ free_indices # << >> /\ Applied
  <2>1. Queues' = [Queues EXCEPT ![side][price] =
                     Append(Queues[side][price],
                            [order_id |-> id, timestamp |-> timestamp,
                             quantity |-> quantity])]
    BY <1>4, InsertAppends
  <2>2. Abstract!Applied /\ id \notin Abstract!LiveIds /\ ~Abstract!Full
    BY <1>4, AppliedMaps, LiveIdsAreIndexed, FullMeansFull
  <2> QED
    BY <1>4, <2>1, <2>2, Zenon DEF Abstract!Add, Queues
<1> QED
  BY <1>1, <1>2, <1>3, <1>4, Zenon DEF add_order

\* A removal is a departure of the price-time book, a reduction a change of
\* size in place, both where the order stands.
LEMMA RemoveMaps ==
  ASSUME PoolInv, NEW id \in DOMAIN order_lookup, remove_existing_order(id)
  PROVE  \E s \in Side, p \in Price : \E i \in DOMAIN Queues[s][p] :
           /\ Queues[s][p][i].order_id = id
           /\ Queues[s][p][i].quantity = order_lookup[id].quantity
           /\ Abstract!Leave(s, p, i)
<1>1. PICK s \in Side, p \in Price : \E chain \in Seq(Index) : \E i \in 1 .. Len(chain) :
        StandsAt(id, s, p, chain, i)
  BY LivePlace
<1>2. PICK chain \in Seq(Index) : \E i \in 1 .. Len(chain) :
        StandsAt(id, s, p, chain, i)
  BY <1>1
<1>3. PICK i \in 1 .. Len(chain) :
        StandsAt(id, s, p, chain, i)
  BY <1>2
<1>4. Queues' = [Queues EXCEPT ![s][p] = RemoveAt(Queues[s][p], i)]
  BY <1>3, RemoveTakesOut DEF StandsAt
<1>5. Abstract!Leave(s, p, i)
  BY <1>4, SameVocabulary, Zenon DEF Abstract!Leave, Queues
<1> QED
  BY <1>3, <1>5 DEF StandsAt

LEMMA ReduceMaps ==
  ASSUME PoolInv, NEW id \in DOMAIN order_lookup, NEW units \in Quantity,
         NEW left \in Quantity, left # 0, ReduceTo(id, units, left)
  PROVE  \E s \in Side, p \in Price : \E i \in DOMAIN Queues[s][p] :
           /\ Queues[s][p][i].order_id = id
           /\ Queues[s][p][i].quantity = order_lookup[id].quantity
           /\ Abstract!Resize(s, p, i, left)
<1>1. PICK s \in Side, p \in Price : \E chain \in Seq(Index) : \E i \in 1 .. Len(chain) :
        StandsAt(id, s, p, chain, i)
  BY LivePlace
<1>2. PICK chain \in Seq(Index) : \E i \in 1 .. Len(chain) :
        StandsAt(id, s, p, chain, i)
  BY <1>1
<1>3. PICK i \in 1 .. Len(chain) :
        StandsAt(id, s, p, chain, i)
  BY <1>2
<1>4. Queues' = [Queues EXCEPT ![s][p] = Resized(Queues[s][p], i, left)]
  BY <1>3, ReduceResizes DEF StandsAt
<1>5. Abstract!Resize(s, p, i, left)
  BY <1>4, Zenon DEF Abstract!Resize, Queues, Resized
<1> QED
  BY <1>3, <1>5 DEF StandsAt

LEMMA CancelMaps ==
  ASSUME PoolInv, NEW id \in OrderId, cancel_order(id)
  PROVE  Abstract!Cancel(id)
<1>1. CASE id \notin DOMAIN order_lookup /\ Reject("MissingOrderId")
  BY <1>1, RejectMaps, LiveIdsAreIndexed, Zenon DEF Abstract!Cancel
<1>2. CASE id \in DOMAIN order_lookup /\ remove_existing_order(id) /\ Applied
  <2>1. \E s \in Side, p \in Price : \E i \in DOMAIN Queues[s][p] :
          Queues[s][p][i].order_id = id /\ Abstract!Leave(s, p, i)
    BY <1>2, RemoveMaps
  <2> QED
    BY <1>2, <2>1, AppliedMaps, SameVocabulary, Zenon
       DEF Abstract!Cancel, Abstract!AtOrder, Queues
<1> QED
  BY <1>1, <1>2, Zenon DEF cancel_order

\* Where a live order stands, for the calls that leave it there.
LEMMA PlaceOf ==
  ASSUME PoolInv, NEW id \in DOMAIN order_lookup
  PROVE  \E s \in Side, p \in Price : \E i \in DOMAIN Queues[s][p] :
           /\ Queues[s][p] \in Seq(OrderEntry)
           /\ Queues[s][p][i].order_id = id
           /\ Queues[s][p][i].quantity = order_lookup[id].quantity
BY LivePlace DEF StandsAt

LEMMA ModifyMaps ==
  ASSUME PoolInv, NEW id \in OrderId, NEW new \in Quantity, modify_order(id, new)
  PROVE  Abstract!Modify(id, new)
<1>1. CASE new = 0 /\ Reject("InvalidQuantity")
  BY <1>1, RejectMaps, Zenon DEF Abstract!Modify
<1>2. CASE new # 0 /\ id \notin DOMAIN order_lookup /\ Reject("MissingOrderId")
  BY <1>2, RejectMaps, LiveIdsAreIndexed, Zenon DEF Abstract!Modify
<1>3. CASE /\ id \in DOMAIN order_lookup
           /\ new > order_lookup[id].quantity /\ Reject("UnsupportedModify")
  <2>1. \E s \in Side, p \in Price : \E i \in DOMAIN Queues[s][p] :
          Queues[s][p][i].order_id = id /\ new > Queues[s][p][i].quantity
    BY <1>3, PlaceOf
  <2> QED
    BY <1>3, <2>1, RejectMaps, SameVocabulary, Zenon
       DEF Abstract!Modify, Abstract!AtOrder, Queues
<1>4. CASE /\ new # 0 /\ id \in DOMAIN order_lookup
           /\ new = order_lookup[id].quantity
           /\ Applied /\ UNCHANGED <<nodes, free_indices, levels, order_lookup>>
  <2>1. PICK s \in Side, p \in Price : \E i \in DOMAIN Queues[s][p] :
          /\ Queues[s][p] \in Seq(OrderEntry)
          /\ Queues[s][p][i].order_id = id /\ Queues[s][p][i].quantity = new
    BY <1>4, PlaceOf
  <2>2. PICK i \in DOMAIN Queues[s][p] :
          /\ Queues[s][p] \in Seq(OrderEntry)
          /\ Queues[s][p][i].order_id = id /\ Queues[s][p][i].quantity = new
    BY <2>1
  <2>3. new <= Queues[s][p][i].quantity
    BY <2>2, WordAssumption DEF Quantity
  <2>4. Queues' = Queues
    BY <1>4, QueuesKept
  <2>5. Queues = [Queues EXCEPT ![s][p] = Resized(Queues[s][p], i, new)]
    BY <2>2, ResizeToSame
  <2>6. Abstract!Resize(s, p, i, new)
    BY <2>4, <2>5, Zenon DEF Abstract!Resize, Queues, Resized
  <2> QED
    BY <1>4, <2>2, <2>3, <2>6, AppliedMaps, SameVocabulary, Zenon
       DEF Abstract!Modify, Abstract!AtOrder, Queues
<1>5. CASE /\ new # 0 /\ id \in DOMAIN order_lookup
           /\ new < order_lookup[id].quantity
           /\ ReduceTo(id, order_lookup[id].quantity - new, new) /\ Applied
  <2>1. order_lookup[id].quantity \in Quantity
    BY <1>5, OpenQuantity
  <2>2. /\ new <= order_lookup[id].quantity
        /\ order_lookup[id].quantity - new \in Quantity
    BY <1>5, <2>1, WordAssumption DEF Quantity
  <2>3. \E s \in Side, p \in Price : \E i \in DOMAIN Queues[s][p] :
          /\ Queues[s][p][i].order_id = id
          /\ new <= Queues[s][p][i].quantity /\ Abstract!Resize(s, p, i, new)
    BY <1>5, <2>2, ReduceMaps, Zenon
  <2> QED
    BY <1>5, <2>3, AppliedMaps, SameVocabulary, Zenon
       DEF Abstract!Modify, Abstract!AtOrder, Queues
<1> QED
  BY <1>1, <1>2, <1>3, <1>4, <1>5, Zenon DEF modify_order

LEMMA ExecuteMaps ==
  ASSUME PoolInv, NEW id \in OrderId, NEW executed \in Quantity, execute_order(id, executed)
  PROVE  Abstract!Execute(id, executed)
<1>1. CASE executed = 0 /\ Reject("InvalidQuantity")
  BY <1>1, RejectMaps, Zenon DEF Abstract!Execute
<1>2. CASE executed # 0 /\ id \notin DOMAIN order_lookup /\ Reject("MissingOrderId")
  BY <1>2, RejectMaps, LiveIdsAreIndexed, Zenon DEF Abstract!Execute
<1>3. CASE /\ id \in DOMAIN order_lookup
           /\ executed > order_lookup[id].quantity /\ Reject("InsufficientQuantity")
  <2>1. \E s \in Side, p \in Price : \E i \in DOMAIN Queues[s][p] :
          Queues[s][p][i].order_id = id /\ executed > Queues[s][p][i].quantity
    BY <1>3, PlaceOf
  <2> QED
    BY <1>3, <2>1, RejectMaps, SameVocabulary, Zenon
       DEF Abstract!Execute, Abstract!AtOrder, Queues
<1>4. CASE /\ executed # 0 /\ id \in DOMAIN order_lookup
           /\ executed = order_lookup[id].quantity
           /\ remove_existing_order(id) /\ Applied
  <2>1. \E s \in Side, p \in Price : \E i \in DOMAIN Queues[s][p] :
          /\ Queues[s][p][i].order_id = id
          /\ executed = Queues[s][p][i].quantity /\ Abstract!Leave(s, p, i)
    BY <1>4, RemoveMaps, Zenon
  <2> QED
    BY <1>4, <2>1, AppliedMaps, SameVocabulary, Zenon
       DEF Abstract!Execute, Abstract!AtOrder, Queues
<1>5. CASE /\ executed # 0 /\ id \in DOMAIN order_lookup
           /\ executed < order_lookup[id].quantity
           /\ ReduceTo(id, executed, order_lookup[id].quantity - executed) /\ Applied
  <2>1. PICK left \in Quantity : left = order_lookup[id].quantity - executed /\ left # 0
    <3>1. order_lookup[id].quantity \in Quantity
      BY <1>5, OpenQuantity
    <3>2. PICK open \in Quantity : open = order_lookup[id].quantity
      BY <3>1
    <3>3. open - executed \in Quantity /\ open - executed # 0
      BY <1>5, <3>2, WordAssumption DEF Quantity
    <3> QED
      BY <3>2, <3>3
  <2>2. ReduceTo(id, executed, left)
    BY <1>5, <2>1, Zenon
  <2>3. \E s \in Side, p \in Price : \E i \in DOMAIN Queues[s][p] :
          /\ Queues[s][p][i].order_id = id
          /\ Queues[s][p][i].quantity = order_lookup[id].quantity
          /\ Abstract!Resize(s, p, i, left)
    BY <1>5, <2>1, <2>2, ReduceMaps, Zenon
  <2>4. \E s \in Side, p \in Price : \E i \in DOMAIN Queues[s][p] :
          /\ Queues[s][p][i].order_id = id
          /\ executed < Queues[s][p][i].quantity
          /\ Abstract!Resize(s, p, i, Queues[s][p][i].quantity - executed)
    BY <1>5, <2>1, <2>3, Zenon
  <2> QED
    BY <1>5, <2>4, AppliedMaps, SameVocabulary, Zenon
       DEF Abstract!Execute, Abstract!AtOrder, Queues
<1> QED
  BY <1>1, <1>2, <1>3, <1>4, <1>5, Zenon DEF execute_order

\* An empty book is read as empty queues.
NoOrdersRead == Queues = [s \in Side |-> [p \in Price |-> << >>]]

LEMMA EmptyBookRead == EmptyBook => NoOrdersRead
<1> SUFFICES ASSUME EmptyBook
             PROVE  Queues = [s \in Side |-> [p \in Price |-> << >>]]
  BY DEF NoOrdersRead
<1>1. PoolInv
  BY EmptyBookInv
<1>2. ASSUME NEW s \in Side, NEW p \in Price
      PROVE  OrdersAt(s, p) = << >>
  <2>1. p \notin DOMAIN levels[s]
    BY DEF EmptyBook, NoEntries
  <2>2. ChainAt(s, p, << >>)
    BY <2>1 DEF ChainAt
  <2>3. << >> \in Seq(Index) /\ Len(<< >>) = 0
    OBVIOUS
  <2>4. PICK queue \in Seq(OrderEntry) : queue = OrdersAt(s, p) /\ Len(queue) = 0
    BY <1>1, <2>2, <2>3, ReadBefore
  <2> QED
    BY <2>4, EmptySeq
<1> QED
  BY <1>2 DEF Queues

LEMMA EmptyBookReadNext == EmptyBook' => NoOrdersRead'
BY EmptyBookRead, PTL

LEMMA ClearMaps == clear => Abstract!Clear
<1> SUFFICES ASSUME clear PROVE Abstract!Clear
  OBVIOUS
<1>1. EmptyBook'
  BY DEF clear, EmptyBook
<1>2. Queues' = [s \in Side |-> [p \in Price |-> << >>]]
  BY <1>1, EmptyBookReadNext DEF NoOrdersRead
<1> QED
  BY <1>2, SameVocabulary, Zenon DEF clear, Abstract!Clear, Queues

LEMMA StepMaps == IInv /\ [Next]_vars => [Abstract!Next]_(Abstract!vars)
<1> SUFFICES ASSUME PoolInv, [Next]_vars PROVE [Abstract!Next]_(Abstract!vars)
  BY DEF IInv
<1>1. CASE \E id \in OrderId, side \in Side, price \in Price, quantity \in Quantity,
              timestamp \in Timestamp : add_order(id, side, price, quantity, timestamp)
  <2>1. PICK id \in OrderId, side \in Side, price \in Price, quantity \in Quantity,
             timestamp \in Timestamp : add_order(id, side, price, quantity, timestamp)
    BY <1>1
  <2>2. Abstract!Add(id, side, price, quantity, timestamp)
    BY <2>1, AddMaps
  <2> QED
    BY <2>2, SameVocabulary, Zenon DEF Abstract!Next
<1>2. CASE \E id \in OrderId : cancel_order(id)
  BY <1>2, CancelMaps, Zenon DEF Abstract!Next
<1>3. CASE \E id \in OrderId, quantity \in Quantity :
             modify_order(id, quantity) \/ execute_order(id, quantity)
  <2>1. \E id \in OrderId, quantity \in Quantity :
          Abstract!Modify(id, quantity) \/ Abstract!Execute(id, quantity)
    BY <1>3, ModifyMaps, ExecuteMaps, Zenon
  <2> QED
    BY <2>1, SameVocabulary, Zenon DEF Abstract!Next
<1>4. CASE clear
  BY <1>4, ClearMaps, Zenon DEF Abstract!Next
<1>5. CASE UNCHANGED vars
  <2>1. Queues' = Queues
    BY <1>5, QueuesKept DEF vars
  <2> QED
    BY <1>5, <2>1, Zenon DEF vars, Abstract!vars, Queues
<1> QED
  BY <1>1, <1>2, <1>3, <1>4, <1>5, Zenon DEF Next

\* Node pool, links, free stack and hash index are invisible: for every pool
\* size, word size, set of prices and identifiers, the operations of the pooled
\* book are those of PriceTimeBook, and CapacityExceeded is returned exactly
\* when MaxLiveOrders orders rest.
THEOREM PoolImplementsPriceTimeBook == Spec => ImplementsPriceTimeBook
<1>1. Init => Abstract!Init
  <2> SUFFICES ASSUME Init PROVE Abstract!Init
    OBVIOUS
  <2>1. EmptyBook
    BY DEF Init, EmptyBook
  <2>2. Queues = [s \in Side |-> [p \in Price |-> << >>]]
    BY <2>1, EmptyBookRead DEF NoOrdersRead
  <2> QED
    BY <2>2, SameVocabulary, Zenon DEF Init, Abstract!Init, Queues
<1> QED
  BY <1>1, StepMaps, InvariantHolds, PTL
     DEF Spec, ImplementsPriceTimeBook, Abstract!Spec

-----------------------------------------------------------------------------
(* The totals and the other conditions of validate_invariants() *)

TotalsRead ==
  \A s \in Side : \A p \in DOMAIN levels[s] :
    WordSum(Queues[s][p]) = levels[s][p].total_quantity

\* Levels other than the one at side and price are what they were.
LevelsElsewhere(side, price) ==
  \A s \in Side : \A p \in DOMAIN levels'[s] :
    /\ p \in Price
    /\ ~(s = side /\ p = price) => p \in DOMAIN levels[s] /\ levels'[s][p] = levels[s][p]

\* Totals are right after a step that changes one queue and the level it is of.
LEMMA OneTotalChanges ==
  ASSUME TotalsRead, NEW side \in Side, NEW price \in Price, NEW queue,
         Queues' = [Queues EXCEPT ![side][price] = queue],
         price \in DOMAIN levels'[side] =>
           WordSum(queue) = levels'[side][price].total_quantity,
         LevelsElsewhere(side, price)
  PROVE  TotalsRead'
<1> SUFFICES ASSUME NEW s \in Side, NEW p \in DOMAIN levels'[s]
             PROVE  WordSum(Queues'[s][p]) = levels'[s][p].total_quantity
  BY DEF TotalsRead
<1>1. p \in Price
  BY DEF LevelsElsewhere
<1>2. CASE s = side /\ p = price
  <2>1. Queues'[s][p] = queue
    BY <1>2 DEF Queues
  <2> QED
    BY <1>2, <2>1
<1>3. CASE ~(s = side /\ p = price)
  <2>1. DOMAIN Queues = Side /\ DOMAIN Queues[side] = Price
    BY DEF Queues
  <2>2. Queues'[s][p] = Queues[s][p]
    <3>1. CASE s # side
      BY <2>1, <3>1
    <3>2. CASE s = side /\ p # price
      BY <1>1, <2>1, <3>2
    <3> QED
      BY <1>3, <3>1, <3>2
  <2> QED
    BY <1>3, <2>2 DEF LevelsElsewhere, TotalsRead
<1> QED
  BY <1>2, <1>3

LEMMA AddKeepsTotals ==
  ASSUME PoolInv, TotalsRead, NEW id \in OrderId, NEW s \in Side, NEW p \in Price,
         NEW quantity \in Quantity, NEW timestamp \in Timestamp,
         quantity # 0, id \notin DOMAIN order_lookup, free_indices # << >>,
         add_order(id, s, p, quantity, timestamp)
  PROVE  TotalsRead'
<1>1. PICK n \in Index : n = Last(free_indices) /\ ~Owned(order_lookup, n)
  BY TopOfStack
<1>2. PICK level \in PriceLevel :
        /\ level = LevelAt(s, p) /\ level.tail # n
        /\ level.order_count + 1 \in 0 .. MaxLiveOrders
  BY <1>1, RoomAtLevel
<1>3. Addition(id, s, p, quantity, timestamp, n, level)
  BY <1>1, <1>2, AddEffect
<1>4. PICK entry \in OrderEntry :
        /\ entry = [order_id |-> id, timestamp |-> timestamp, quantity |-> quantity]
        /\ entry.quantity = quantity
  <2> DEFINE new == [order_id |-> id, timestamp |-> timestamp, quantity |-> quantity]
  <2>1. new \in OrderEntry /\ new.quantity = quantity
    BY DEF OrderEntry
  <2> HIDE DEF new
  <2> QED
    BY <2>1, Zenon DEF new
<1>5. PICK queue \in Seq(OrderEntry) : queue = Queues[s][p]
  <2>1. Queues[s][p] \in Seq(OrderEntry)
    BY ChainExists, ReadBefore DEF Queues
  <2> QED
    BY <2>1
<1>6. WordSum(queue) = level.total_quantity
  <2>1. CASE p \in DOMAIN levels[s]
    BY <2>1, <1>2, <1>5 DEF LevelAt, TotalsRead
  <2>2. CASE p \notin DOMAIN levels[s]
    <3>1. level.total_quantity = 0
      BY <2>2, <1>2 DEF LevelAt, EmptyLevel
    <3>2. ChainAt(s, p, << >>) /\ << >> \in Seq(Index) /\ Len(<< >>) = 0
      BY <2>2 DEF ChainAt
    <3>3. Len(OrdersAt(s, p)) = 0
      BY <3>2, ReadBefore
    <3>4. Len(queue) = 0
      BY <3>3, <1>5 DEF Queues
    <3>5. queue = << >>
      BY <3>4, EmptySeq
    <3> QED
      BY <3>1, <3>5, SumOfNone
  <2> QED
    BY <2>1, <2>2
<1>7. Queues' = [Queues EXCEPT ![s][p] = Append(queue, entry)]
  BY <1>4, <1>5, InsertAppends
<1>8. WordSum(Append(queue, entry)) = levels'[s][p].total_quantity
  BY <1>3, <1>4, <1>6, SumAfterAppend DEF Addition
<1>9. LevelsElsewhere(s, p)
  BY <1>3 DEF Addition, LevelsElsewhere, IsMap
<1> QED
  BY <1>7, <1>8, <1>9, OneTotalChanges

LEMMA RemoveKeepsTotals ==
  ASSUME PoolInv, TotalsRead, NEW id \in DOMAIN order_lookup, remove_existing_order(id)
  PROVE  TotalsRead'
<1>1. PICK s \in Side, p \in Price : \E chain \in Seq(Index) : \E i \in 1 .. Len(chain) :
        StandsAt(id, s, p, chain, i)
  BY LivePlace
<1>2. PICK chain \in Seq(Index) : \E i \in 1 .. Len(chain) : StandsAt(id, s, p, chain, i)
  BY <1>1
<1>3. PICK i \in 1 .. Len(chain) : StandsAt(id, s, p, chain, i)
  BY <1>2
<1>4. PICK n \in Index : order_lookup[id].node_index = n /\ p \in DOMAIN levels[s]
  BY <1>3, RecordLocates DEF StandsAt
<1>5. Removal(id, s, p, n, Len(chain))
  BY <1>3, <1>4, RemoveEffect DEF StandsAt
<1>6. PICK queue \in Seq(OrderEntry) :
        /\ queue = Queues[s][p] /\ i \in 1 .. Len(queue)
        /\ queue[i].quantity = order_lookup[id].quantity
  BY <1>3, LenProperties DEF StandsAt
<1>7. Queues' = [Queues EXCEPT ![s][p] = RemoveAt(queue, i)]
  BY <1>3, <1>6, RemoveTakesOut DEF StandsAt
<1>8. WordSum(queue) = levels[s][p].total_quantity
  BY <1>4, <1>6 DEF TotalsRead
<1>9. p \in DOMAIN levels'[s] =>
        WordSum(RemoveAt(queue, i)) = levels'[s][p].total_quantity
  BY <1>5, <1>6, <1>8, SumAfterRemove DEF Removal
<1>10. LevelsElsewhere(s, p)
  BY <1>5 DEF Removal, LevelsElsewhere, IsMap
<1> QED
  BY <1>7, <1>9, <1>10, OneTotalChanges

LEMMA ReduceKeepsTotals ==
  ASSUME PoolInv, TotalsRead, NEW id \in DOMAIN order_lookup, NEW units \in Quantity,
         NEW left \in Quantity, left # 0, left <= order_lookup[id].quantity,
         units = order_lookup[id].quantity - left, ReduceTo(id, units, left)
  PROVE  TotalsRead'
<1>1. PICK s \in Side, p \in Price : \E chain \in Seq(Index) : \E i \in 1 .. Len(chain) :
        StandsAt(id, s, p, chain, i)
  BY LivePlace
<1>2. PICK chain \in Seq(Index) : \E i \in 1 .. Len(chain) : StandsAt(id, s, p, chain, i)
  BY <1>1
<1>3. PICK i \in 1 .. Len(chain) : StandsAt(id, s, p, chain, i)
  BY <1>2
<1>4. PICK n \in Index : order_lookup[id].node_index = n /\ p \in DOMAIN levels[s]
  BY <1>3, RecordLocates DEF StandsAt
<1>5. /\ Reduction(id, s, p, n, left)
      /\ levels'[s][p].total_quantity = Minus(levels[s][p].total_quantity, units)
  BY <1>3, <1>4, ReduceEffect DEF StandsAt
<1>6. PICK queue \in Seq(OrderEntry) :
        /\ queue = Queues[s][p] /\ i \in 1 .. Len(queue)
        /\ queue[i].quantity = order_lookup[id].quantity
  BY <1>3, LenProperties DEF StandsAt
<1>7. Queues' = [Queues EXCEPT ![s][p] = Resized(queue, i, left)]
  BY <1>3, <1>6, ReduceResizes DEF StandsAt
<1>8. WordSum(queue) = levels[s][p].total_quantity
  BY <1>4, <1>6 DEF TotalsRead
<1>9. WordSum(Resized(queue, i, left)) = levels'[s][p].total_quantity
  BY <1>5, <1>6, <1>8, SumAfterResize
<1>10. LevelsElsewhere(s, p)
  BY <1>5 DEF Reduction, LevelsElsewhere, IsMap
<1> QED
  BY <1>7, <1>9, <1>10, OneTotalChanges

LEMMA TotalsKept == PoolInv /\ TotalsRead /\ [Next]_vars => TotalsRead'
<1> SUFFICES ASSUME PoolInv, TotalsRead, [Next]_vars PROVE TotalsRead'
  OBVIOUS
<1>1. ASSUME UNCHANGED <<nodes, levels>> PROVE TotalsRead'
  <2>1. Queues' = Queues /\ levels' = levels
    BY <1>1, QueuesKept
  <2> QED
    BY <2>1 DEF TotalsRead
<1>2. ASSUME NEW id \in DOMAIN order_lookup
      PROVE  order_lookup[id].quantity \in Quantity
  BY OpenQuantity
<1>3. CASE \E id \in OrderId, side \in Side, price \in Price, quantity \in Quantity,
              timestamp \in Timestamp : add_order(id, side, price, quantity, timestamp)
  <2>1. PICK id \in OrderId, side \in Side, price \in Price, quantity \in Quantity,
             timestamp \in Timestamp : add_order(id, side, price, quantity, timestamp)
    BY <1>3
  <2>2. CASE quantity = 0 \/ id \in DOMAIN order_lookup \/ free_indices = << >>
    BY <2>1, <2>2, <1>1 DEF add_order, Reject
  <2>3. CASE ~(quantity = 0 \/ id \in DOMAIN order_lookup \/ free_indices = << >>)
    BY <2>1, <2>3, AddKeepsTotals
  <2> QED
    BY <2>2, <2>3
<1>4. CASE \E id \in OrderId : cancel_order(id)
  BY <1>1, <1>4, RemoveKeepsTotals DEF cancel_order, Reject
<1>5. ASSUME NEW id \in OrderId, NEW quantity \in Quantity, modify_order(id, quantity)
      PROVE  TotalsRead'
  <2>1. CASE UNCHANGED <<nodes, levels>>
    BY <1>1, <2>1
  <2>2. CASE /\ quantity # 0
             /\ id \in DOMAIN order_lookup /\ quantity < order_lookup[id].quantity
             /\ ReduceTo(id, order_lookup[id].quantity - quantity, quantity)
    <3>1. PICK open \in Quantity : open = order_lookup[id].quantity
      BY <1>2, <2>2
    <3>2. PICK units \in Quantity : units = open - quantity
      BY <2>2, <3>1, WordAssumption DEF Quantity
    <3>3. quantity <= open
      BY <2>2, <3>1, WordAssumption DEF Quantity
    <3>4. ReduceTo(id, units, quantity)
      BY <2>2, <3>1, <3>2, Zenon
    <3> QED
      BY <2>2, <3>1, <3>2, <3>3, <3>4, ReduceKeepsTotals
  <2> QED
    BY <1>5, <2>1, <2>2 DEF modify_order, Reject
<1>6. ASSUME NEW id \in OrderId, NEW quantity \in Quantity, execute_order(id, quantity)
      PROVE  TotalsRead'
  <2>1. CASE UNCHANGED <<nodes, levels>>
    BY <1>1, <2>1
  <2>2. CASE id \in DOMAIN order_lookup /\ remove_existing_order(id)
    BY <2>2, RemoveKeepsTotals
  <2>3. CASE /\ id \in DOMAIN order_lookup /\ quantity < order_lookup[id].quantity
             /\ ReduceTo(id, quantity, order_lookup[id].quantity - quantity)
    <3>1. PICK open \in Quantity : open = order_lookup[id].quantity
      BY <1>2, <2>3
    <3>2. PICK left \in Quantity : left = open - quantity
      BY <2>3, <3>1, WordAssumption DEF Quantity
    <3>3. left <= open /\ quantity = open - left /\ left # 0
      BY <2>3, <3>1, <3>2, WordAssumption DEF Quantity
    <3>4. ReduceTo(id, quantity, left)
      BY <2>3, <3>1, <3>2, Zenon
    <3> QED
      BY <2>3, <3>1, <3>3, <3>4, ReduceKeepsTotals
  <2> QED
    BY <1>6, <2>1, <2>2, <2>3 DEF execute_order, Reject
<1>7. CASE clear
  BY <1>7 DEF clear, NoEntries, TotalsRead
<1>8. CASE UNCHANGED vars
  BY <1>1, <1>8 DEF vars
<1> QED
  BY <1>3, <1>4, <1>5, <1>6, <1>7, <1>8 DEF Next

\* The record of an order that is read leads to where it is read.
LEMMA ReadOrderRecorded ==
  ASSUME PoolInv, NEW s \in Side, NEW p \in Price, NEW chain \in Seq(Index),
         ChainAt(s, p, chain), NEW k \in DOMAIN OrdersAt(s, p), NEW id,
         id = OrdersAt(s, p)[k].order_id
  PROVE  /\ k \in 1 .. Len(chain) /\ id \in DOMAIN order_lookup
         /\ order_lookup[id].side = s /\ order_lookup[id].price = p
         /\ order_lookup[id].node_index = chain[k]
<1>1. PICK queue \in Seq(OrderEntry) : queue = OrdersAt(s, p) /\ Len(queue) = Len(chain)
  BY ReadBefore
<1>2. k \in 1 .. Len(chain)
  BY <1>1, LenProperties
<1>3. id = nodes[chain[k]].order_id
  <2>1. OrdersAt(s, p)[k] = OrderView(nodes[chain[k]])
    BY <1>2, ReadBefore
  <2>2. OrderView(nodes[chain[k]]).order_id = nodes[chain[k]].order_id
    BY DEF OrderView
  <2> QED
    BY <2>1, <2>2
<1>4. Backed(nodes, order_lookup, s, p, chain[k])
  BY <1>2 DEF ChainAt, IsChain
<1> QED
  BY <1>2, <1>3, <1>4 DEF Backed

\* A level of the book passes the checks of validate_invariants() on it.
LEMMA LevelsAreValid ==
  ASSUME PoolInv, TotalsRead, NEW s \in Side, NEW p \in DOMAIN levels[s]
  PROVE  ValidLevel(s, p)
<1>1. PICK chain \in Seq(Index) : IsChain(nodes, levels[s][p], order_lookup, s, p, chain)
  BY DEF PoolInv, LevelsChained
<1>2. Walk(levels[s][p].head, "next") = chain
  BY <1>1, ChainIsPath, WalkIsPath
<1>3. p \in Price
  BY DEF PoolInv, ContainersOK, IsMap
<1>4. Queues[s][p] = OrdersAt(s, p)
  BY <1>3 DEF Queues
<1>5. WordSum(OrdersAt(s, p)) = levels[s][p].total_quantity
  BY <1>4 DEF TotalsRead
<1>6. /\ Len(chain) \in Nat /\ Len(chain) # 0 /\ levels[s][p].order_count = Len(chain)
      /\ levels[s][p].head = chain[1] /\ levels[s][p].tail = chain[Len(chain)]
      /\ \A k \in 1 .. Len(chain) : chain[k] \in Index
  BY <1>1, LenProperties, ElementOfSeq DEF IsChain
<1>7. levels[s][p].head # npos /\ levels[s][p].tail # npos
  BY <1>6, LinkWords
<1>8. Last(chain) = levels[s][p].tail
  BY <1>6 DEF Last
<1>9. ASSUME NEW k \in 1 .. Len(chain)
      PROVE  NodeAgrees(s, p, chain[k], IF k = 1 THEN npos ELSE chain[k - 1])
  <2>1. PICK n \in Index : n = chain[k]
    BY <1>6
  <2>2. Backed(nodes, order_lookup, s, p, n)
    BY <1>1, <2>1 DEF IsChain
  <2>3. PICK id \in DOMAIN order_lookup : id = nodes[n].order_id
    BY <2>2 DEF Backed
  <2>4. nodes[n].active
    BY <2>2, <2>3 DEF PoolInv, StackOK, Owned, Backed
  <2>5. nodes[n].prev = IF k = 1 THEN npos ELSE chain[k - 1]
    BY <1>1, <2>1 DEF IsChain, Linked
  <2>6. order_lookup[id] \in OrderRecord
    BY RecordLocates
  <2>7. order_lookup[id] =
          [side |-> s, price |-> p, timestamp |-> nodes[n].timestamp,
           quantity |-> nodes[n].quantity, node_index |-> n]
    BY <2>2, <2>3, <2>6 DEF Backed, OrderRecord
  <2> QED
    BY <2>1, <2>2, <2>3, <2>4, <2>5, <2>7, Zenon DEF NodeAgrees, Backed
<1> QED
  BY <1>2, <1>5, <1>6, <1>7, <1>8, <1>9 DEF ValidLevel

\* Every order stands at one place, and the index holds exactly those orders.
LEMMA PlacesAreIndexed ==
  ASSUME PoolInv
  PROVE  /\ \A a, b \in Places : a # b => IdAt(a) # IdAt(b)
         /\ {IdAt(a) : a \in Places} = DOMAIN order_lookup
<1>1. ASSUME NEW a \in Places
      PROVE  \E s \in Side, p \in Price : \E k \in DOMAIN OrdersAt(s, p) :
               a = <<s, p, k>> /\ IdAt(a) = OrdersAt(s, p)[k].order_id
  BY DEF Places, IdAt
<1>2. ASSUME NEW a \in Places, NEW b \in Places, IdAt(a) = IdAt(b)
      PROVE  a = b
  <2>1. PICK s \in Side, p \in Price : \E k \in DOMAIN OrdersAt(s, p) :
          a = <<s, p, k>> /\ IdAt(a) = OrdersAt(s, p)[k].order_id
    BY <1>1
  <2>2. PICK k \in DOMAIN OrdersAt(s, p) :
          a = <<s, p, k>> /\ IdAt(a) = OrdersAt(s, p)[k].order_id
    BY <2>1
  <2>3. PICK t \in Side, x \in Price : \E j \in DOMAIN OrdersAt(t, x) :
          b = <<t, x, j>> /\ IdAt(b) = OrdersAt(t, x)[j].order_id
    BY <1>1
  <2>4. PICK j \in DOMAIN OrdersAt(t, x) :
          b = <<t, x, j>> /\ IdAt(b) = OrdersAt(t, x)[j].order_id
    BY <2>3
  <2>5. PICK chain \in Seq(Index) : ChainAt(s, p, chain)
    BY ChainExists
  <2>6. PICK other \in Seq(Index) : ChainAt(t, x, other)
    BY ChainExists
  <2>7. PICK id : id = IdAt(a) /\ id = IdAt(b)
    BY <1>2
  <2>8. /\ k \in 1 .. Len(chain)
        /\ order_lookup[id].side = s /\ order_lookup[id].price = p
        /\ order_lookup[id].node_index = chain[k]
    <3>1. id = OrdersAt(s, p)[k].order_id
      BY <2>2, <2>7, Zenon
    <3> QED
      BY <2>5, <3>1, ReadOrderRecorded
  <2>9. order_lookup[id].side = t /\ order_lookup[id].price = x
    <3>1. id = OrdersAt(t, x)[j].order_id
      BY <2>4, <2>7, Zenon
    <3> QED
      BY <2>6, <3>1, ReadOrderRecorded
  <2>10. j \in 1 .. Len(chain) /\ order_lookup[id].node_index = chain[j]
    <3>1. s = t /\ p = x
      BY <2>8, <2>9
    <3>2. id = OrdersAt(s, p)[j].order_id /\ j \in DOMAIN OrdersAt(s, p)
      BY <2>4, <2>7, <3>1, Zenon
    <3> QED
      BY <2>5, <3>2, ReadOrderRecorded
  <2>11. j = k
    <3>1. p \in DOMAIN levels[s]
      BY <2>5, <2>8 DEF ChainAt
    <3>2. Linked(nodes, chain)
      BY <2>5, <3>1 DEF ChainAt, IsChain
    <3>3. chain[j] = chain[k]
      BY <2>8, <2>10, Zenon
    <3> QED
      BY <2>8, <2>10, <3>2, <3>3 DEF Linked
  <2> QED
    BY <2>2, <2>4, <2>8, <2>9, <2>11
<1>3. ASSUME NEW a \in Places
      PROVE  IdAt(a) \in DOMAIN order_lookup
  <2>1. PICK s \in Side, p \in Price : \E k \in DOMAIN OrdersAt(s, p) :
          IdAt(a) = OrdersAt(s, p)[k].order_id
    BY <1>1
  <2> QED
    BY <2>1, ChainExists, ReadOrderRecorded
<1>4. ASSUME NEW id \in DOMAIN order_lookup
      PROVE  \E a \in Places : IdAt(a) = id
  <2>1. PICK s \in Side, p \in Price : \E k \in DOMAIN Queues[s][p] :
          Queues[s][p][k].order_id = id
    BY LivePlace DEF StandsAt
  <2>2. Queues[s][p] = OrdersAt(s, p)
    BY DEF Queues
  <2>3. PICK k \in DOMAIN OrdersAt(s, p) : OrdersAt(s, p)[k].order_id = id
    BY <2>1, <2>2
  <2>4. <<s, p, k>> \in Places
    <3> DEFINE Row(t, x) == {<<t, x, j>> : j \in DOMAIN OrdersAt(t, x)}
    <3>1. <<s, p, k>> \in Row(s, p)
      OBVIOUS
    <3>2. Places = UNION {Row(t, x) : t \in Side, x \in Price}
      BY DEF Places
    <3> HIDE DEF Row
    <3> QED
      BY <3>1, <3>2
  <2>5. IdAt(<<s, p, k>>) = id
    <3> DEFINE a == <<s, p, k>>
    <3>1. a[1] = s /\ a[2] = p /\ a[3] = k
      OBVIOUS
    <3> HIDE DEF a
    <3>2. IdAt(a) = id
      BY <2>3, <3>1, Zenon DEF IdAt
    <3> QED
      BY <3>2 DEF a
  <2> QED
    BY <2>4, <2>5, Zenon
<1> QED
  BY <1>2, <1>3, <1>4

\* validate_invariants(true) accepts every book the operations of the pooled
\* book can build, for every pool, whatever has been recycled and however often
\* the totals have wrapped around.
THEOREM ValidationAccepts == Spec => []BookValid
<1>1. Init => TotalsRead
  BY DEF Init, NoEntries, TotalsRead
<1>2. PoolInv /\ TotalsRead => BookValid
  <2> SUFFICES ASSUME PoolInv, TotalsRead PROVE BookValid
    OBVIOUS
  <2>1. \A s \in Side : (DOMAIN levels[s] = {}) = (top_of_book[s] = << >>)
    BY DEF top_of_book
  <2>2. \A s \in Side : \A p \in DOMAIN levels[s] : ValidLevel(s, p)
    BY LevelsAreValid
  <2>3. ASSUME NEW id \in DOMAIN order_lookup
        PROVE  /\ nodes[order_lookup[id].node_index].active
               /\ order_lookup[id].price \in DOMAIN levels[order_lookup[id].side]
    <3>1. order_lookup[id].node_index \in Index
      BY RecordLocates
    <3> QED
      BY <3>1 DEF PoolInv, RecordsLead, StackOK, Owned
  <2> QED
    BY <2>1, <2>2, <2>3, PlacesAreIndexed DEF BookValid, validate_invariants
<1>3. IInv => PoolInv
  BY DEF IInv
<1> QED
  BY <1>1, <1>2, <1>3, TotalsKept, InvariantHolds, PTL DEF Spec

-----------------------------------------------------------------------------
(* What the queries show *)

SideQueues(s) == [p \in DOMAIN levels[s] |-> OrdersAt(s, p)]

\* The chain of a level holds the orders on record at its price and no others.
LEMMA ChainHoldsRecords ==
  ASSUME PoolInv, NEW s \in Side, NEW p \in DOMAIN levels[s]
  PROVE  QueueHolds(order_lookup, s, p, OrdersAt(s, p))
<1>1. p \in Price
  BY DEF PoolInv, ContainersOK, IsMap
<1>2. PICK chain \in Seq(Index) : ChainAt(s, p, chain)
  BY <1>1, ChainExists
<1>3. IsChain(nodes, levels[s][p], order_lookup, s, p, chain)
  BY <1>2 DEF ChainAt
<1>4. PICK q \in Seq(OrderEntry) :
        /\ q = OrdersAt(s, p) /\ Len(q) = Len(chain)
        /\ \A k \in 1 .. Len(chain) : q[k] = OrderView(nodes[chain[k]])
  BY <1>1, <1>2, ReadBefore
<1>5. ASSUME NEW k \in 1 .. Len(q)
      PROVE  /\ q[k].order_id \in DOMAIN order_lookup
             /\ order_lookup[q[k].order_id].side = s
             /\ order_lookup[q[k].order_id].price = p
             /\ order_lookup[q[k].order_id].node_index = chain[k]
             /\ order_lookup[q[k].order_id].quantity = q[k].quantity
             /\ q[k].order_id = nodes[chain[k]].order_id
  <2>1. Backed(nodes, order_lookup, s, p, chain[k])
    BY <1>3, <1>4 DEF IsChain
  <2>2. q[k] = OrderView(nodes[chain[k]])
    BY <1>4
  <2>3. q[k].order_id = nodes[chain[k]].order_id /\ q[k].quantity = nodes[chain[k]].quantity
    BY <2>2 DEF OrderView
  <2> QED
    BY <2>1, <2>3, Zenon DEF Backed
<1>6. q # << >>
  BY <1>3, <1>4 DEF IsChain
<1>7. DistinctIds(q)
  <2>1. ASSUME NEW i \in 1 .. Len(q), NEW j \in 1 .. Len(q), q[i].order_id = q[j].order_id
        PROVE  i = j
    <3>1. chain[i] = chain[j]
      BY <1>5, <2>1, Zenon
    <3> QED
      BY <1>3, <1>4, <3>1 DEF IsChain, Linked
  <2> QED
    BY <2>1 DEF DistinctIds
<1>8. IdSet(q) = RecordedAt(order_lookup, s, p)
  <2>1. \A k \in 1 .. Len(q) : q[k].order_id \in RecordedAt(order_lookup, s, p)
    BY <1>5 DEF RecordedAt
  <2>2. ASSUME NEW id \in RecordedAt(order_lookup, s, p)
        PROVE  \E k \in 1 .. Len(q) : q[k].order_id = id
    <3>1. id \in DOMAIN order_lookup /\ order_lookup[id].side = s /\ order_lookup[id].price = p
      BY DEF RecordedAt
    <3>2. PICK k \in 1 .. Len(chain) : chain[k] = order_lookup[id].node_index
      BY <1>3, <3>1 DEF IsChain
    <3>3. nodes[chain[k]].order_id = id
      BY <3>1, <3>2 DEF PoolInv, RecordsLead
    <3> QED
      BY <1>4, <1>5, <3>2, <3>3
  <2> QED
    BY <2>1, <2>2 DEF IdSet
<1>9. \A k \in 1 .. Len(q) : order_lookup[q[k].order_id].quantity = q[k].quantity
  BY <1>5
<1> QED
  BY <1>4, <1>6, <1>7, <1>8, <1>9 DEF QueueHolds

LEMMA SideHoldsRecords ==
  ASSUME PoolInv, NEW s \in Side
  PROVE  QueuesHold(order_lookup, s, SideQueues(s))
<1>1. DOMAIN SideQueues(s) = DOMAIN levels[s] /\ DOMAIN levels[s] \in SUBSET Price
  BY DEF SideQueues, PoolInv, ContainersOK, IsMap
<1>2. \A p \in DOMAIN levels[s] : SideQueues(s)[p] = OrdersAt(s, p)
  BY DEF SideQueues
<1>3. \A p \in DOMAIN levels[s] : QueueHolds(order_lookup, s, p, OrdersAt(s, p))
  BY ChainHoldsRecords
<1>4. \A p \in Price : p \notin DOMAIN levels[s] => RecordedAt(order_lookup, s, p) = {}
  BY DEF RecordedAt, PoolInv, RecordsLead
<1> QED
  BY <1>1, <1>2, <1>3, <1>4 DEF QueuesHold

LEMMA DepthIsShown ==
  ASSUME PoolInv, TotalsRead, NEW s \in Side, NEW n \in Nat
  PROVE  /\ ShowsRecords(depth(n)[s], order_lookup, s, n)
         /\ n = 1 => depth(n)[s] = top_of_book[s]
         /\ n > Cardinality(Price) => depth(n)[s] = LevelsOf(snapshot[s])
<1>1. PICK S \in SUBSET Price : S = DOMAIN levels[s] /\ S = DOMAIN SideQueues(s)
  BY DEF SideQueues, PoolInv, ContainersOK, IsMap
<1>2. PICK prices : prices = BestFirst(s, S)
  OBVIOUS
<1>3. /\ PricesOf(s) = prices /\ Len(prices) = Cardinality(S) /\ Cardinality(S) \in Nat
      /\ Cardinality(S) <= Cardinality(Price) /\ (Cardinality(S) = 0 <=> S = {})
      /\ prices \in [1 .. Cardinality(S) -> S]
  BY <1>1, <1>2, BestFirstIsSeq DEF PricesOf, Lists
<1>4. PICK m \in Nat : m = (IF n < Len(prices) THEN n ELSE Len(prices)) /\ m <= Cardinality(S)
  BY <1>3
<1>5. depth(n)[s] = [i \in 1 .. m |-> make_price_level_view(prices[i], levels[s][prices[i]])]
  BY <1>3, <1>4 DEF depth, SideDepth
<1>6. ASSUME NEW i \in 1 .. Cardinality(S)
      PROVE  /\ make_price_level_view(prices[i], levels[s][prices[i]])
                  = QueueView(prices[i], SideQueues(s)[prices[i]])
             /\ levels[s][prices[i]].order_count = Len(OrdersAt(s, prices[i]))
  <2>1. PICK p \in DOMAIN levels[s] : p = prices[i]
    BY <1>1, <1>3
  <2>2. p \in Price
    BY DEF PoolInv, ContainersOK, IsMap
  <2>3. SideQueues(s)[p] = OrdersAt(s, p) /\ Queues[s][p] = OrdersAt(s, p)
    BY <2>2 DEF SideQueues, Queues
  <2>4. WordSum(OrdersAt(s, p)) = levels[s][p].total_quantity
    BY <2>3 DEF TotalsRead
  <2>5. levels[s][p].order_count = Len(OrdersAt(s, p))
    <3>1. PICK chain \in Seq(Index) : ChainAt(s, p, chain)
      BY <2>2, ChainExists
    <3> QED
      BY <2>2, <3>1, ReadBefore DEF ChainAt, IsChain
  <2> QED
    BY <2>1, <2>3, <2>4, <2>5 DEF make_price_level_view, QueueView
<1>7. \A i \in 1 .. m : i \in 1 .. Cardinality(S)
  BY <1>3, <1>4
<1>8. ShowsRecords(depth(n)[s], order_lookup, s, n)
  <2>1. PICK queues, records : queues = SideQueues(s) /\ records = order_lookup
    OBVIOUS
  <2>2. PICK view : view = [i \in 1 .. m |-> QueueView(prices[i], queues[prices[i]])]
    OBVIOUS
  <2>3. depth(n)[s] = view
    BY <1>5, <1>6, <1>7, <2>1, <2>2
  <2>4. QueuesHold(records, s, queues) /\ prices = BestFirst(s, DOMAIN queues)
    BY <1>1, <1>2, <2>1, SideHoldsRecords
  <2>5. ShowsRecords(view, records, s, n)
    BY <1>4, <2>2, <2>4, ViewShowsRecords
  <2> QED
    BY <2>1, <2>3, <2>5, Zenon
<1>9. ASSUME n = 1 PROVE depth(n)[s] = top_of_book[s]
  <2>1. CASE S = {}
    <3>1. m = 0
      BY <1>3, <1>4, <1>9, <2>1
    <3>2. top_of_book[s] = << >>
      BY <1>1, <2>1 DEF top_of_book
    <3> DEFINE Shown(i) == make_price_level_view(prices[i], levels[s][prices[i]])
    <3>3. depth(n)[s] = [i \in 1 .. 0 |-> Shown(i)]
      BY <1>5, <3>1, Zenon
    <3> HIDE DEF Shown
    <3>4. [i \in 1 .. 0 |-> Shown(i)] \in [1 .. 0 -> {}]
      OBVIOUS
    <3>5. PICK view : view = depth(n)[s] /\ view \in [1 .. 0 -> {}]
      BY <3>3, <3>4, Zenon
    <3>6. view \in Seq({}) /\ Len(view) = 0
      BY <3>5, SeqDef
    <3> QED
      BY <3>2, <3>5, <3>6, EmptySeq
  <2>2. CASE S # {}
    <3>1. m = 1
      BY <1>3, <1>4, <1>9, <2>2
    <3>2. PICK top : top = make_price_level_view(prices[1], levels[s][prices[1]])
      OBVIOUS
    <3>3. top_of_book[s] = <<top>>
      BY <1>1, <1>3, <2>2, <3>2, Zenon DEF top_of_book
    <3>4. depth(n)[s] = [i \in 1 .. 1 |-> top]
      BY <1>5, <3>1, <3>2
    <3> QED
      BY <3>3, <3>4
  <2> QED
    BY <2>1, <2>2
<1>10. ASSUME n > Cardinality(Price) PROVE depth(n)[s] = LevelsOf(snapshot[s])
  <2>1. m = Cardinality(S)
    BY <1>3, <1>4, <1>10, PriceAssumption, FS_CardinalityType
  <2>2. snapshot[s] = [i \in 1 .. m |->
                         [price    |-> prices[i],
                          quantity |-> levels[s][prices[i]].total_quantity,
                          orders   |-> OrdersAt(s, prices[i])]]
    BY <1>3, <2>1, Zenon DEF snapshot, SideSnapshot
  <2>3. LevelsOf(snapshot[s]) = [i \in 1 .. m |->
           [price       |-> prices[i],
            quantity    |-> levels[s][prices[i]].total_quantity,
            order_count |-> Len(OrdersAt(s, prices[i]))]]
    BY <2>2 DEF LevelsOf
  <2> QED
    BY <1>5, <1>6, <1>7, <2>3 DEF make_price_level_view
<1> QED
  BY <1>8, <1>9, <1>10

LEMMA ViewsShown == PoolInv /\ TotalsRead => ViewsMatchIndex
<1> SUFFICES ASSUME PoolInv, TotalsRead, NEW s \in Side,
                    NEW n \in 0 .. Cardinality(Price) + 1
             PROVE  /\ ShowsRecords(depth(n)[s], order_lookup, s, n)
                    /\ n = 1 => depth(n)[s] = top_of_book[s]
                    /\ n > Cardinality(Price) => depth(n)[s] = LevelsOf(snapshot[s])
  BY Zenon DEF ViewsMatchIndex, ShowsRecords, RankOf, RecordedPrices, RecordedAt
<1>1. n \in Nat
  OBVIOUS
<1> QED
  BY <1>1, DepthIsShown

\* For every pool, set of prices and word size, what depth(), top_of_book() and
\* snapshot() of the pooled book show after any calls is what the index alone
\* says: the counts and totals kept per level and the chains through the pool
\* are those of the orders on record.
THEOREM QueriesAreTrue == Spec => []ViewsMatchIndex
<1>1. Init => TotalsRead
  BY DEF Init, NoEntries, TotalsRead
<1>2. IInv => PoolInv
  BY DEF IInv
<1> QED
  BY <1>1, <1>2, ViewsShown, TotalsKept, InvariantHolds, PTL DEF Spec
=============================================================================
