SPECIFICATION Spec
CONSTANTS
  Refund = {f1, f2}
  NoRefund = NoRefund
  Worker = {p1, p2}
  Each = 2
  Amount <- EachAmount
  Total = 3
SYMMETRY Interchangeable
INVARIANTS
  TypeOK
  SuccessIsReal
  ClosedIsReal
PROPERTIES
  SuccessIsFinal
  RejectionSticks
  OrphanOnlyByFailure
