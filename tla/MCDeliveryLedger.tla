-------------------------- MODULE MCDeliveryLedger --------------------------
(***************************************************************************)
(* Instances of DeliveryLedger for TLC: two pushes of one transaction meet *)
(* a third in every order, and a second transaction runs beside it.        *)
(***************************************************************************)
EXTENDS DeliveryLedger
=============================================================================
