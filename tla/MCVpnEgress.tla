------------------------------ MODULE MCVpnEgress ------------------------------
(* A small instance of VpnEgress: two configs with an address each. *)
EXTENDS VpnEgress, TLC

CONSTANTS v1, v2, a1, a2

TwoAddrOf(c) == IF c = v1 THEN a1 ELSE a2
=============================================================================
