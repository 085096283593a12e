---------------------------- MODULE MCPayRefund ----------------------------
(***************************************************************************)
(* Instances of PayRefund for TLC: two refunds of which the order covers   *)
(* only one, and two goroutines, so that applications, approvals, queries  *)
(* and notifications of the same refund and of competing ones overlap.     *)
(***************************************************************************)
EXTENDS PayRefund, TLC

CONSTANT Each

\* Refunds ask for the same amount, and goroutines are alike.
Interchangeable == Permutations(Refund) \cup Permutations(Worker)

EachAmount == [r \in Refund |-> Each]
=============================================================================
