----------------------------- MODULE MCVpnGateway -----------------------------
(* Small instances of VpnGateway: two configs with an address each. *)
EXTENDS VpnGateway, TLC

CONSTANTS v1, v2, a1, a2

TwoConfs == {v1, v2}
TwoAddrs == {a1, a2}
TwoAddrOf(c) == IF c = v1 THEN a1 ELSE a2
=============================================================================
