SPECIFICATION StockSpec
CONSTANTS
  r1 = r1
  r2 = r2
  raw = raw
  goods = goods
  outlet = outlet
  o1 = o1
  i1 = i1
  i2 = i2
  m1 = m1
  t1 = t1
  c1 = c1
  c2 = c2
  j1 = j1
  l1 = l1
  Nil = Nil
  Slots = {r1, r2}
  Rows = {raw, goods, outlet}
  ProductionOrders = {o1}
  Issues = {i1, i2}
  Parts = {m1}
  Transfers = {t1}
  CustomerReturns = {c1, c2}
  Adjustments = {j1}
  Lines = {l1}
  From <- MCFrom
  Into <- MCInto
  Amount <- MCAmount
  Resalable <- MCResalable
  ProductionOf <- MCProductionOf
  Required <- MCRequired
  LineOf <- MCLineOf
  Shipped <- MCShipped
  OpeningLevel <- MCOpeningLevel
SYMMETRY Symmetry
INVARIANTS
  
  CompletionClearsWip
  
  HeldMatchesReturns
CHECK_DEADLOCK FALSE
