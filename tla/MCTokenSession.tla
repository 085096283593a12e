--------------------------- MODULE MCTokenSession ---------------------------
(***************************************************************************)
(* Instances of TokenSession for TLC: two goroutines, and two sessions     *)
(* with two refreshes, on both caches.                                     *)
(***************************************************************************)
EXTENDS TokenSession, TLC

TokenSymmetry == Permutations(Token) \cup Permutations(Worker)
=============================================================================
