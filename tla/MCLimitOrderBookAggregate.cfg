\* Three orders, two prices that let the book cross, and 2-bit words so that
\* level totals wrap.
SPECIFICATION Spec
CONSTANTS
  o1 = o1
  o2 = o2
  o3 = o3
  OrderId = {o1, o2, o3}
  Price = {1, 2}
  Timestamp = {1}
  Word = 4
SYMMETRY IdSymmetry
INVARIANTS
  AggregateIsExact
