SPECIFICATION Spec
CONSTANTS
  o1 = o1
  o2 = o2
  A = A
  B = B
  w1 = w1
  w2 = w2
  s = s
  b1 = b1
  b2 = b2
  b3 = b3
  b4 = b4
  None = None
  Requests = {r1, r2, r3}
  Orders = {o1, o2}
  Products = {A, B}
  Locations = {w1, w2, s}
  Batches = {b1, b2, b3, b4}
  Ordered <- OrderedQuantities
  OutletOf <- Outlets
  OrderOf <- BatchOrders
  From <- Sources
  Quantity <- Quantities
  Opening <- OpeningStock
  Costed = {A}
  Adjustable <- AdjustableRows
  AdjustBound = 1
INVARIANT NeverOverFulfilled
