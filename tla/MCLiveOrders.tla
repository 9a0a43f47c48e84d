---------------------------- MODULE MCLiveOrders ----------------------------
(* LiveOrders with small bounds for TLC. *)
EXTENDS LiveOrders
=============================================================================
