CONSTANTS
  p1 = p1
  p2 = p2
  Payments = {p1, p2}
  Orders <- TwoOrders
  Unclear = {}
  Servers = {}
  Crons = {k1}
  StaleLimit = 1
  LastYear = 1
  MaxFaults = 0
  MaxDesks = 0
  MaxTrouble = 1
  NoOne = NoOne
SPECIFICATION CronSpec
PROPERTIES CapturesAreRecorded
CHECK_DEADLOCK FALSE
