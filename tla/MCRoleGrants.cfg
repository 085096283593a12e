CONSTANTS
  m1 = m1
  f1 = f1
  Role = {r1, r2}
  Base = {r2}
  Menu = {m1}
  Func = {f1}
  Api = {x1}
  MenuOf <- MCMenuOf
  Admin = {a1, a2}
  Picks <- MCPicks
  Opens <- MCOpens
  Isolated = FALSE
SYMMETRY MCSymmetry
SPECIFICATION Spec
INVARIANTS TypeOK RulesAreExact WithinBoundary
PROPERTY NoLostPublication
