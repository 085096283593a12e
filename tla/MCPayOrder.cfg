SPECIFICATION Spec
CONSTANTS
  Order = {o1}
  Request = {r1, r2}
  Loop = {l1}
  BatchSize = 1
  NoOrder = NoOrder
  Amounts = {1, 2}
  Opened = {0}
  Configs = {"enabled", "disabled", "deleted"}
  Ttl = 1
  ScanAge = 0
  MaxTime = 3
SYMMETRY RequestSymmetry
INVARIANTS
  TypeOK
  ChargeIsBooked
  MerchantCloseSticks
PROPERTIES
  LedgerSpec
