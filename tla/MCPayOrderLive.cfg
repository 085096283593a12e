SPECIFICATION FairSpec
CONSTANTS
  Order = {o1, o2}
  Request = {}
  Loop = {l1}
  BatchSize = 1
  NoOrder = NoOrder
  Amounts = {}
  Opened = {1}
  Configs = {"enabled", "deleted"}
  Ttl = 1
  ScanAge = 0
  MaxTime = 3
PROPERTIES
  ChargeReachesRow
  OrderIsResolved
