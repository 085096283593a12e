SPECIFICATION Spec
CONSTANTS
  Token = {t1, t2, t3, t4}
  NoToken = NoToken
  Session = {s1, s2}
  NoSession = NoSession
  Worker = {p1, p2}
  Backends = {"memory", "redis"}
  Faulty = {"redis"}
SYMMETRY TokenSymmetry
INVARIANTS
  TypeOK
  OneActiveToken
  RevokedShutsOut
