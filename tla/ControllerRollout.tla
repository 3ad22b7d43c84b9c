-------------------------- MODULE ControllerRollout --------------------------
(***************************************************************************)
(* A rollout of the VPN egress controller (vpn-egress/controller.yaml).    *)
(* maxSurge 0 starts the new pod when the old one is marked for deletion,  *)
(* and the old one, which handles no signal, runs on until its grace       *)
(* period ends: two reconcile loops, each as in VpnController, with        *)
(* beliefs of their own about the one policy they write.                   *)
(***************************************************************************)
EXTENDS Naturals

CONSTANTS
  GatewayNodes, LinkIds, NoLink, Rise,
  Faults    \* bound on failed calls and on changes of gateways and nodes

VARIABLES
  stateCM, report, nodeOk, links, owned, calm,                      \* the cluster
  wake, post, want, unseen,                                         \* of a toggle nobody uses
  pc1, enabled1, seen1, errors1, streak1, inPolicy1, seeded1, ownerKnown1, snapshot1,
  pc2, enabled2, seen2, errors2, streak2, inPolicy2, seeded2, ownerKnown2, snapshot2,
  stage,    \* of the rollout: "before", "overlap", "after"
  settled,  \* has a loop that is alone read or written the policy?
  faults    \* failed calls and changes so far

cluster == <<stateCM, report, nodeOk, links, owned, calm, wake, post, want, unseen>>
old == <<pc1, enabled1, seen1, errors1, streak1, inPolicy1, seeded1, ownerKnown1, snapshot1>>
new == <<pc2, enabled2, seen2, errors2, streak2, inPolicy2, seeded2, ownerKnown2, snapshot2>>
rollout == <<stage, settled>>
vars == <<cluster, old, new, rollout, faults>>

\* Nobody uses the toggle; it is the default that is read.
Old == INSTANCE VpnController WITH
  Clients <- {}, DefaultEnabled <- "on", LostReplies <- FALSE,
  pc <- pc1, enabled <- enabled1, seen <- seen1, errors <- errors1, streak <- streak1,
  inPolicy <- inPolicy1, seeded <- seeded1, ownerKnown <- ownerKnown1, snapshot <- snapshot1

New == INSTANCE VpnController WITH
  Clients <- {}, DefaultEnabled <- "on", LostReplies <- FALSE,
  pc <- pc2, enabled <- enabled2, seen <- seen2, errors <- errors2, streak <- streak2,
  inPolicy <- inPolicy2, seeded <- seeded2, ownerKnown <- ownerKnown2, snapshot <- snapshot2

TypeOK ==
  /\ Old!TypeOK /\ New!TypeOK
  /\ stage \in {"before", "overlap", "after"} /\ settled \in BOOLEAN
  /\ faults \in 0 .. Faults

Init == Old!Init /\ New!Init /\ stage = "before" /\ settled = TRUE /\ faults = 0

-----------------------------------------------------------------------------

\* Did the call of this step fail?
OldFails == Old!PassFails \/ Old!ApplyPolicyFails \/ (pc1 = "owner" /\ errors1')
            \/ (pc1 = "publish" /\ snapshot1'.errors /\ ~errors1)
NewFails == New!PassFails \/ New!ApplyPolicyFails \/ (pc2 = "owner" /\ errors2')
            \/ (pc2 = "publish" /\ snapshot2'.errors /\ ~errors2)

Counted(fails) == IF fails THEN faults < Faults /\ faults' = faults + 1 ELSE UNCHANGED faults

OldRuns ==
  /\ stage # "after" /\ Old!Loop /\ Counted(OldFails)
  /\ UNCHANGED <<new, rollout>>

NewRuns ==
  /\ stage # "before" /\ New!Loop /\ Counted(NewFails)
  /\ settled' = (settled \/ (stage = "after" /\ (New!SeedFromLivePolicy \/ New!ApplyPolicy)))
  /\ UNCHANGED <<old, stage>>

\* The Deployment scales the old ReplicaSet down and the new one up.
Rollout ==
  /\ stage = "before" /\ ~calm
  /\ stage' = "overlap" /\ settled' = FALSE
  /\ UNCHANGED <<cluster, old, new, faults>>

\* The kubelet kills the old pod.
OldStops ==
  /\ stage = "overlap" /\ stage' = "after"
  /\ UNCHANGED <<cluster, old, new, settled, faults>>

\* Gateways, nodes and the API, until they are calm.
World ==
  /\ \/ /\ faults < Faults /\ faults' = faults + 1
        /\ \/ \E g \in GatewayNodes : Old!NodeFlips(g)
           \/ \E g \in GatewayNodes, l \in LinkIds \cup {NoLink} : Old!Report(g, l)
     \/ Old!Settle /\ UNCHANGED faults
  /\ UNCHANGED <<new, rollout>>

Next == OldRuns \/ NewRuns \/ Rollout \/ OldStops \/ World
Spec == Init /\ [][Next]_vars

-----------------------------------------------------------------------------
(* Properties *)

\* The loop that writes saw the gateway up, and its last pass had not failed.
Sees(g) ==
  \/ pc1 = "policy" /\ pc1' = "publish" /\ seen1[g] # NoLink /\ ~snapshot1.errors
  \/ pc2 = "policy" /\ pc2' = "publish" /\ seen2[g] # NoLink /\ ~snapshot2.errors

\* Two loops with different beliefs may add and drop a gateway that both see up, so
\* "never two controllers at once" is not what keeps traffic steady.  That ends when
\* the new loop, with the old pod gone, first reads or writes the policy.
FlapsEnd ==
  [][settled => \A g \in GatewayNodes : links[g] # NoLink /\ links'[g] = NoLink => ~Sees(g)]_links

\* Nor is the status page true while there are two.  It is before, and it is again once
\* the new loop alone has read or written the policy: what it does not know of the old
\* loop's last write does not last.
HonestAgain ==
  /\ stage = "before" => Old!SnapshotHonest
  /\ stage = "after" /\ settled => New!SnapshotHonest
=============================================================================
