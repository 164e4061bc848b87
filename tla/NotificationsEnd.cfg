SPECIFICATION FairSpec
CONSTANTS
  ann = ann
  bob = bob
  Events = {1, 2}
  Users = {ann}
  Fickle = {}
  Recipients <- OnlyAnn
  Sweeps = {w1, w2}
  MaxAttempts = 2
  Lease = 1
  Backoff <- OneTickBackoff
  MaxWait = 1
  MaxClaiming = 1
  MaxRetries = 0
  MaxCrashes = 1
PROPERTIES
  EventsEnd
