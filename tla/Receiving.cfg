SPECIFICATION Spec
CONSTANTS
  r1 = r1
  r2 = r2
  o1 = o1
  o2 = o2
  a = a
  b = b
  g1 = g1
  g2 = g2
  g3 = g3
  g4 = g4
  g5 = g5
  s1 = s1
  s2 = s2
  None = None
  Requests = {r1, r2}
  Orders = {o1, o2}
  Products = {a, b}
  Receipts = {g1, g2, g3, g4, g5}
  Returns = {s1, s2}
  Ordered <- MCOrdered
  OrderOf <- MCOrderOf
  Delivered <- MCDelivered
  Rejected <- MCRejected
  Replaces <- MCReplaces
  ReceiptOf <- MCReceiptOf
  Quantity <- MCQuantity
  Edits <- MCEdits
  Opening <- MCOpening
SYMMETRY Symmetry
INVARIANTS
  StockFollowsDocuments
  
  StatusTellsReceipts
  ReplacedWithinRejected
  ReturnedWithinAccepted
CHECK_DEADLOCK FALSE
