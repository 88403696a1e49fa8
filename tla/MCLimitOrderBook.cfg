\* Three orders, two prices that let the book cross, and quantities 0 .. 2, so
\* that level totals wrap around, to zero too.
SPECIFICATION Spec
CONSTANTS
  o1 = o1
  o2 = o2
  o3 = o3
  OrderId = {o1, o2, o3}
  Price = {1, 2}
  Timestamp = {1, 2}
  Word = 3
SYMMETRY IdSymmetry
INVARIANTS
  TypeOK
  BookValid
  IndexConsistent
  ViewsMatchIndex
PROPERTIES
  ImplementsPriceTimeBook
  TimePriority
  OrdersOnlyShrink
