---------------------------- MODULE MCTWSOrders ----------------------------
(* Instances of TWSOrders for TLC. *)
EXTENDS TWSOrdersInv
=============================================================================
