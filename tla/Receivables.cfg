SPECIFICATION Spec
CONSTANTS
  i1 = i1
  i2 = i2
  p1 = p1
  p2 = p2
  n1 = n1
  NoRow = NoRow
  None = None
  Requests = {r1, r2}
  Invoices = {i1, i2}
  Payments = {p1, p2}
  Notes = {n1}
  Total <- TwoAndOne
  Share <- Shares
SYMMETRY Slots
INVARIANTS
  LedgerExact
  StatusTellsBalance
  JournalMatches
\* Once every document is voided and every invoice void nothing is left to do.
CHECK_DEADLOCK FALSE
