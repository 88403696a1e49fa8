\* A pool of three nodes, so that chains have a middle, and a fourth order
\* that finds it exhausted.
SPECIFICATION Spec
CONSTANTS
  o1 = o1
  o2 = o2
  o3 = o3
  o4 = o4
  NoId = NoId
  OrderId = {o1, o2, o3, o4}
  Price = {1, 2}
  Timestamp = {1}
  Word = 3
  MaxLiveOrders = 3
SYMMETRY IdSymmetry
INVARIANTS
  TypeOK
  BookValid
  PoolPartition
  ChainsMirror
  ViewsMatchIndex
