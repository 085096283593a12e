CONSTANTS
  i1 = i1
  i2 = i2
  r1 = r1
  m1 = m1
  m2 = m2
  f1 = f1
  f2 = f2
  x1 = x1
  x2 = x2
  v1 = v1
  v2 = v2
  Role = {r1}
  Menu = {m1, m2}
  Func = {f1, f2}
  Api = {x1, x2}
  MenuOf <- MCMenuOf
  User = {u1}
  Instance = {i1, i2}
  Version = {v1, v2}
  Product <- MCProduct
  NoVersion = NoVersion
  MaxChanges = 1
SYMMETRY Instances
SPECIFICATION Spec
INVARIANTS TypeOK RulesFollowGrants
PROPERTY SeededOnce
