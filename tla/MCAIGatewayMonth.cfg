SPECIFICATION Spec
CONSTANTS
  k1 = k1
  k2 = k2
  c1 = c1
  c2 = c2
  Key = {k1}
  NoKey = NoKey
  Call = {c1}
  Asks <- OneAsks
  Routes = 1
  KeysOf <- OneProvider
  Rank <- MCRank
  Attempts = 2
  Rounds = 1
  MaxTokens = 1
  DailyLimit = 2
  MonthLimit = 2
PROPERTIES
  MonthlyLimitHolds
