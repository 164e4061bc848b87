SPECIFICATION Spec
CONSTANTS
  ann = ann
  bob = bob
  Events = {1, 2}
  Users = {ann, bob}
  Fickle = {bob}
  Recipients <- FirstForBoth
  Sweeps = {w1, w2}
  MaxAttempts = 2
  Lease = 1
  Backoff <- OneTickBackoff
  MaxWait = 1
  MaxClaiming = 1
  MaxRetries = 1
  MaxCrashes = 1
SYMMETRY Slots
INVARIANTS
  RowsComeWithProcessed
  NobodyToldTwice
  AttemptsAreBounded
