SPECIFICATION Spec
CONSTANTS
  r1 = r1
  r2 = r2
  r3 = r3
  a = a
  b = b
  d1 = d1
  d2 = d2
  va = va
  vb = vb
  vc = vc
  None = None
  Requests = {r1, r2, r3}
  Lines = {a, b}
  Dispatches = {d1, d2}
  Deliveries = {va, vb, vc}
  Fulfilled <- MCFulfilled
  Quantity <- MCQuantity
  DispatchOf <- MCDispatchOf
SYMMETRY Symmetry
INVARIANTS
  WithinLimits
  ColumnsFollowDocuments
  DeliveriesTellStatus
  DeliveredIsEarned
PROPERTY EndsAreFinal
CHECK_DEADLOCK FALSE
