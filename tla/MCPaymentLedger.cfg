CONSTANTS
  p1 = p1
  p2 = p2
  Payments = {p1, p2}
  Orders <- TwoOrders
  Unclear = {p2}
  Servers = {h1}
  Crons = {k1}
  StaleLimit = 50
  LastYear = 2
  MaxFaults = 1
  MaxDesks = 1
  MaxTrouble = 1
  NoOne = NoOne
SPECIFICATION Spec
INVARIANTS TypeOK
PROPERTIES ImplementsBook ActiveStays
CHECK_DEADLOCK FALSE
