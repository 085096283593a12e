SPECIFICATION FairSpec
CONSTANTS
  k1 = k1
  k2 = k2
  c1 = c1
  c2 = c2
  Key = {k1, k2}
  NoKey = NoKey
  Call = {c1, c2}
  Asks <- MCAsks
  Routes = 2
  KeysOf <- TwoProviders
  Rank <- MCRank
  Attempts = 2
  Rounds = 1
  MaxTokens = 1
  DailyLimit = 1
  MonthLimit = 0
INVARIANTS
  TypeOK
  OvershootIsBounded
  FailoverIsExhausted
PROPERTIES
  EveryCallEnds
