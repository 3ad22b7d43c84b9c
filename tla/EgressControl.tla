---------------------------- MODULE EgressControl ----------------------------
(***************************************************************************)
(* What the VPN egress controller promises, without API calls, streaks,    *)
(* events, beliefs or snapshots.  It observes the toggle, the gateways'    *)
(* reports and the nodes one after the other, and may at any time replace  *)
(* the live policy by gateways it has observed up, or remove it.           *)
(***************************************************************************)
CONSTANT Gateways

VARIABLES
  wanted,    \* the toggle: "absent", "on" or "off"
  reported,  \* gateways whose last report is good and fresh
  ready,     \* gateways whose node is usable
  on,        \* the toggle as last observed
  up,        \* the gateways last observed up
  live       \* the gateways of the live policy; none = no policy

observed == <<on, up>>
vars == <<wanted, reported, ready, observed, live>>

Init ==
  /\ wanted = "absent"
  /\ reported = {}
  /\ ready = Gateways
  /\ on = FALSE
  /\ up = {}
  /\ live = {}

\* A user flips the toggle.
Want(v) ==
  /\ wanted' = v
  /\ UNCHANGED <<reported, ready, observed, live>>

\* The controller creates the toggle and takes it as observed.
WantDefault(v) ==
  /\ wanted' = v
  /\ on' = (v = "on")
  /\ UNCHANGED <<reported, ready, up, live>>

ObserveToggle ==
  /\ wanted # "absent"
  /\ on' = (wanted = "on")
  /\ UNCHANGED <<wanted, reported, ready, up, live>>

ObserveReports ==
  /\ up' = reported
  /\ UNCHANGED <<wanted, reported, ready, on, live>>

ObserveNodes ==
  /\ up' = up \cap ready
  /\ UNCHANGED <<wanted, reported, ready, on, live>>

\* The one rule of the policy: only gateways observed up, and only while on.
Write ==
  /\ live' \in IF on THEN SUBSET up ELSE {{}}
  /\ UNCHANGED <<wanted, reported, ready, observed>>

\* The pass ends, fails or dies.
Forget ==
  /\ on' = FALSE
  /\ up' = {}
  /\ UNCHANGED <<wanted, reported, ready, live>>

\* A pass that fails while it creates the toggle may still have created it.
ForgetDefault(v) ==
  /\ wanted' = v
  /\ on' = FALSE
  /\ up' = {}
  /\ UNCHANGED <<reported, ready, live>>

GatewayChanges ==
  /\ \/ reported' \in SUBSET Gateways /\ UNCHANGED ready
     \/ ready' \in SUBSET Gateways /\ UNCHANGED reported
  /\ UNCHANGED <<wanted, observed, live>>

Next ==
  \/ \E v \in {"on", "off"} : Want(v) \/ WantDefault(v) \/ ForgetDefault(v)
  \/ ObserveToggle \/ ObserveReports \/ ObserveNodes
  \/ Write \/ Forget \/ GatewayChanges

Spec == Init /\ [][Next]_vars
=============================================================================
