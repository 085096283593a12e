CONSTANTS
  Proc = {p1, p2, p3}
  Inst = {i1, i2}
  MaxCode = 2
  MaxAttempts = 3
  NoProc = NoProc
SYMMETRY MCSymmetry
SPECIFICATION Spec
CHECK_DEADLOCK FALSE
INVARIANTS TypeOK GuessesAreBounded UsedIsAccepted
PROPERTY AcceptedOnce
