SPECIFICATION Spec
CONSTANTS
  d1 = d1
  w1 = w1
  w2 = w2
  w3 = w3
  Deliveries = {d1}
  Sweeps = {w1, w2, w3}
  MaxAttempts = 2
  Lease = 1
  Backoff <- OneTickBackoff
  MaxNow = 3
  MaxRetries = 1
SYMMETRY Symmetry
INVARIANTS
  AcceptancesAccounted
  FailedIsEarned
PROPERTIES
  ImplementsOutbox
CHECK_DEADLOCK FALSE
