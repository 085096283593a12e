-------------------------------- MODULE MCLogin --------------------------------
EXTENDS Login, TLC

CONSTANTS p1, p2, p3

Goroutines == Permutations({p1, p2, p3})
=============================================================================
