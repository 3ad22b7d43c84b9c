--------------------------- MODULE MCVpnController ---------------------------
(* Small instances of VpnController for TLC. *)
EXTENDS VpnController

CONSTANTS g1, l1, l2, c1, noLink

OneGateway == {g1}
OneLink    == {l1}
TwoLinks   == {l1, l2}
OneClient  == {c1}
=============================================================================
