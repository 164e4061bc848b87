SPECIFICATION Spec
CONSTANTS
  o1 = o1
  x1 = x1
  x2 = x2
  r1 = r1
  r2 = r2
  None = None
  Requests = {r1, r2}
  Orders = {o1}
  Outlets = {x1, x2}
  Demand <- MCDemand
SYMMETRY Symmetry
INVARIANTS
  CollectedIsShipped
  
  GoodsLeaveTheirOutlet
  PaidIsConfirmed
CHECK_DEADLOCK FALSE
