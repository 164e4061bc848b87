SPECIFICATION FairSpec
CONSTANTS
  i1 = i1
  i2 = i2
  i3 = i3
  o1 = o1
  u1 = u1
  u2 = u2
  c1 = c1
  c2 = c2
  None = None
  Orders = {o1}
  Calls = {c1, c2}
  Sequences = {1, 2}
  Eligible <- MCEligible
  Instances = {i1}
  Users = {u1, u2}
  DueDates = {TRUE, FALSE}
  Exits = {"REJECTED"}
  OrderEdits = {"DRAFT", "PENDING", "CANCELLED"}
  Receipts = {"PARTIALLY_RECEIVED", "RECEIVED"}
INVARIANTS
  ApproverDecided
  StepsInSequence
  EventsMatchState
  ApprovedIsEarned
PROPERTY DecidedInstancesFinish
