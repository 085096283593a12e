CONSTANTS
  p1 = p1
  p2 = p2
  p3 = p3
  Proc = {p1, p2, p3}
  MaxErr = 3
  MaxChallenge = 2
  MaxLost = 1
SYMMETRY Goroutines
SPECIFICATION LoginSpec
INVARIANTS LoginTypeOK GuessesAreBounded
