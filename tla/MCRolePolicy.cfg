CONSTANTS
  p1 = p1
  c1 = c1
  c2 = c2
  x1 = x1
  x2 = x2
  Rule = {x1, x2}
  Proc = {p1}
  Change = {c1, c2}
  Home <- MCHome
  Yields <- MCYields
  Request = {q1}
  MaxChanges = 3
  MaxFaults = 1
SPECIFICATION FairSpec
CHECK_DEADLOCK FALSE
INVARIANTS TypeOK AloneRepairs StaleIsBounded
PROPERTY DecisionsSettle
