SPECIFICATION Spec
CONSTANTS
  i1 = i1
  i2 = i2
  i3 = i3
  o1 = o1
  u1 = u1
  u2 = u2
  c1 = c1
  c2 = c2
  None = None
  Orders = {o1}
  Calls = {c1, c2}
  Sequences = {1}
  Eligible <- MCEligible
  Instances = {i1, i2, i3}
  Users = {u1}
  DueDates = {FALSE}
  Exits = {"RETURNED"}
  OrderEdits = {}
  Receipts = {}
SYMMETRY Symmetry
INVARIANTS
  OneActivePerSubject
  ResubmittedOnce
PROPERTY ImplementsLifecycle
