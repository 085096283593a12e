----------------------------- MODULE MCPayOrder -----------------------------
(***************************************************************************)
(* Instances of PayOrder for TLC.  MCPayOrder.cfg takes one order, two     *)
(* request goroutines and one reconciliation loop: every pair of handlers  *)
(* meets on the row with the payer, the callback, the loop and the clock   *)
(* in between.  MCPayOrderLive.cfg takes two open orders, a batch of one,   *)
(* one loop and no further requests: an order may wait behind another whose *)
(* configuration is gone.                                                  *)
(***************************************************************************)
EXTENDS PayOrder, TLC

RequestSymmetry == Permutations(Request)
=============================================================================
