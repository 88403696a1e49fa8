\* One price, so that all three nodes of the pool can be in one chain.
SPECIFICATION Spec
CONSTANTS
  o1 = o1
  o2 = o2
  o3 = o3
  o4 = o4
  NoId = NoId
  OrderId = {o1, o2, o3, o4}
  Price = {1}
  Timestamp = {1}
  Word = 3
  MaxLiveOrders = 3
SYMMETRY IdSymmetry
PROPERTIES
  ImplementsPriceTimeBook
