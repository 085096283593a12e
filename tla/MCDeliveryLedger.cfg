SPECIFICATION LedgerSpec
CONSTANTS
  Txn = {x1, x2}
  NoTxn = NoTxn
  Server = {w1, w2, w3}
  Faults = {TRUE, FALSE}
INVARIANTS
  LedgerTypeOK
  AtMostOnce
  DeliveredIsReal
PROPERTIES
  AnswersAreDelivered
