---------------------------- MODULE VpnController ----------------------------
(***************************************************************************)
(* The VPN egress controller (vpn-egress/scripts/controller.py): one       *)
(* thread runs the reconcile loop, HTTP handler threads run the on/off     *)
(* toggle, and both talk to the Kubernetes API, which may refuse a request *)
(* or carry it out and lose the answer.  Every API call is a step of its   *)
(* own, because any other thread, gateway or user may act between two.     *)
(*                                                                         *)
(* The environment (API server, gateways, nodes, users, kubelet) may do    *)
(* what it likes until it becomes calm, if it ever does.                   *)
(***************************************************************************)
EXTENDS Naturals

CONSTANTS
  GatewayNodes,    \* GATEWAY_NODES: the nodes that may carry the tunnel
  LinkIds,         \* ifindex values a gateway's link can have
  NoLink,          \* "not up", or "not in the policy"
  Rise,            \* RISE: good checks in a row before a gateway (re)joins
  Clients,         \* concurrent callers of POST /api/enabled
  DefaultEnabled,  \* DEFAULT_ENABLED, as "on" or "off"
  LostReplies      \* may the API apply a write and lose its answer?

ASSUME ControllerAssumption ==
  /\ NoLink \notin LinkIds
  /\ Rise \in Nat
  /\ DefaultEnabled \in {"on", "off"}
  /\ LostReplies \in BOOLEAN

VARIABLES
  \* the cluster
  stateCM,     \* ConfigMap vpn-egress-state
  report,      \* vpn-gateway-<node>: its link when fresh and healthy, else NoLink
  nodeOk,      \* is the node Ready and not cordoned?
  links,       \* live policy: the link of each gateway in it; all NoLink = no policy
  owned,       \* does the live policy carry the Namespace owner reference?
  calm,        \* no more failures, crashes, toggles or gateway changes
  \* the controller process
  pc,          \* next API call of the reconcile loop
  enabled,     \* toggle as read in this pass
  seen,        \* gateway views of this pass: the link when up, else NoLink
  errors,      \* did a tolerated call of this pass fail?
  streak,      \* checks in a row each gateway was up (counted up to Rise)
  inPolicy,    \* the gateways the controller believes the policy has
  seeded,      \* was inPolicy read from the live policy?
  ownerKnown,  \* was the Namespace uid read?
  wake,        \* the threading.Event
  snapshot,    \* what /api/status and /metrics serve
  post,        \* where each POST handler is
  want,        \* the value each POST handler writes
  \* history
  unseen       \* an acknowledged toggle the loop has not yet tried to read

cluster == <<stateCM, report, nodeOk, links, owned>>
memory  == <<streak, inPolicy, seeded, ownerKnown>>
locals  == <<enabled, seen, errors>>
http    == <<post, want>>
vars == <<cluster, calm, pc, memory, locals, wake, snapshot, http, unseen>>

Links == LinkIds \cup {NoLink}
NoGateway == [g \in GatewayNodes |-> NoLink]
In(f) == {g \in GatewayNodes : f[g] # NoLink}

FailingCalls == {"read", "create", "seed", "status", "nodes"}
LoopPcs == FailingCalls \cup {"owner", "policy", "publish", "wait", "clear"}
Snapshots == [ready : BOOLEAN, on : BOOLEAN, gateways : SUBSET GatewayNodes,
              errors : BOOLEAN]
EmptySnapshot == [ready |-> FALSE, on |-> FALSE, gateways |-> {}, errors |-> FALSE]

TypeOK ==
  /\ stateCM \in {"absent", "on", "off"}
  /\ report \in [GatewayNodes -> Links]
  /\ nodeOk \in [GatewayNodes -> BOOLEAN]
  /\ links \in [GatewayNodes -> Links]
  /\ owned \in BOOLEAN
  /\ calm \in BOOLEAN
  /\ pc \in LoopPcs
  /\ enabled \in BOOLEAN
  /\ seen \in [GatewayNodes -> Links]
  /\ errors \in BOOLEAN
  /\ streak \in [GatewayNodes -> 0 .. Rise]
  /\ inPolicy \in SUBSET GatewayNodes
  /\ seeded \in BOOLEAN
  /\ ownerKnown \in BOOLEAN
  /\ wake \in BOOLEAN
  /\ snapshot \in Snapshots
  /\ post \in [Clients -> {"idle", "put", "wake"}]
  /\ want \in [Clients -> {"on", "off"}]
  /\ unseen \in BOOLEAN

Init ==
  /\ stateCM = "absent"
  /\ report = NoGateway
  /\ nodeOk = [g \in GatewayNodes |-> TRUE]
  /\ links = NoGateway
  /\ owned = FALSE
  /\ calm = FALSE
  /\ pc = "read"
  /\ enabled = FALSE
  /\ seen = NoGateway
  /\ errors = FALSE
  /\ streak = [g \in GatewayNodes |-> 0]
  /\ inPolicy = {}
  /\ seeded = FALSE
  /\ ownerKnown = FALSE
  /\ wake = FALSE
  /\ snapshot = EmptySnapshot
  /\ post = [c \in Clients |-> "idle"]
  /\ want = [c \in Clients |-> "off"]
  /\ unseen = FALSE

-----------------------------------------------------------------------------
(* The reconcile loop.  One action per API call and outcome. *)

\* Locals go out of scope when reconcile() returns or raises.
DropLocals ==
  /\ enabled' = FALSE
  /\ seen' = NoGateway
  /\ errors' = FALSE

\* After read_enabled(): the first pass also reads the live policy.
AfterRead == IF seeded THEN "status" ELSE "seed"

ReadEnabled ==
  /\ pc = "read"
  /\ unseen' = FALSE
  /\ IF stateCM = "absent"
       THEN pc' = "create" /\ UNCHANGED enabled
       ELSE pc' = AfterRead /\ enabled' = (stateCM = "on")
  /\ UNCHANGED <<cluster, calm, memory, seen, errors, wake, snapshot, http>>

\* The answer was 404: _write_state(default), a forced server-side apply.
CreateState ==
  /\ pc = "create"
  /\ stateCM' = DefaultEnabled
  /\ enabled' = (DefaultEnabled = "on")
  /\ pc' = AfterRead
  /\ UNCHANGED <<report, nodeOk, links, owned, calm, memory, seen, errors, wake,
                 snapshot, http, unseen>>

\* Mutant: a restart forgets the gateways the policy has.
SeedWithNothing ==
  /\ pc = "seed"
  /\ inPolicy' = {}
  /\ seeded' = TRUE
  /\ pc' = "status"
  /\ UNCHANGED <<cluster, calm, streak, ownerKnown, locals, wake, snapshot, http, unseen>>

SeedFromLivePolicy ==
  /\ pc = "seed"
  /\ inPolicy' = In(links)
  /\ seeded' = TRUE
  /\ pc' = "status"
  /\ UNCHANGED <<cluster, calm, streak, ownerKnown, locals, wake, snapshot, http, unseen>>

ListStatus ==
  /\ pc = "status"
  /\ seen' = report
  /\ pc' = "nodes"
  /\ UNCHANGED <<cluster, calm, memory, enabled, errors, wake, snapshot, http, unseen>>

\* Mutant: the streak grows without the saturation that stands for "at least Rise".
NextStreakUncapped(g, l) == IF l = NoLink THEN 0 ELSE streak[g] + 1

\* self.streak[name] + 1 if view["up"] else 0, saturated at Rise, the only value it is
\* compared with.
NextStreak(g, l) ==
  IF l = NoLink THEN 0 ELSE IF streak[g] < Rise THEN streak[g] + 1 ELSE Rise

\* A gateway is up when its report is good and its node is usable; every
\* view updates its streak.
ListNodes ==
  /\ pc = "nodes"
  /\ LET up == [g \in GatewayNodes |-> IF nodeOk[g] THEN seen[g] ELSE NoLink]
     IN  /\ seen' = up
         /\ streak' = [g \in GatewayNodes |-> NextStreak(g, up[g])]
  /\ pc' = IF ownerKnown THEN "policy" ELSE "owner"
  /\ UNCHANGED <<cluster, calm, inPolicy, seeded, ownerKnown, enabled, errors, wake,
                 snapshot, http, unseen>>

\* Mutant: a failed lookup is not reported.
LookupNamespaceQuietly ==
  /\ pc = "owner"
  /\ \/ ownerKnown' = TRUE
     \/ ~calm /\ UNCHANGED ownerKnown
  /\ pc' = "policy"
  /\ UNCHANGED <<cluster, calm, streak, inPolicy, seeded, locals, wake, snapshot, http,
                 unseen>>

LookupNamespace ==
  /\ pc = "owner"
  /\ \/ ownerKnown' = TRUE /\ UNCHANGED errors
     \/ ~calm /\ errors' = TRUE /\ UNCHANGED ownerKnown
  /\ pc' = "policy"
  /\ UNCHANGED <<cluster, calm, streak, inPolicy, seeded, enabled, seen, wake, snapshot,
                 http, unseen>>

\* Mutant: every healthy gateway joins at once.
ChosenAtOnce == In(seen)

\* Healthy gateways already in the policy stay; new or recovered ones wait
\* for Rise good checks.
Chosen == {g \in In(seen) : g \in inPolicy \/ streak[g] >= Rise}

\* Mutant: the toggle is not looked at when the policy is written.
TargetWhateverToggle == [g \in GatewayNodes |-> IF g \in Chosen THEN seen[g] ELSE NoLink]

Target == IF enabled THEN [g \in GatewayNodes |-> IF g \in Chosen THEN seen[g] ELSE NoLink]
                     ELSE NoGateway

\* Mutant: write only when the list of names changes, so a new link stays unseen.
WritePolicyOnNewNames ==
  IF In(Target) = inPolicy
    THEN UNCHANGED <<links, owned>>
    ELSE links' = Target /\ owned' = (In(Target) # {} /\ ownerKnown)

\* The write reaches the API server: PATCH the policy, or DELETE it (404 is fine).
\* Applying without ownerReferences drops the ones the policy had.
WritePolicy ==
  /\ links' = Target
  /\ owned' = (In(Target) # {} /\ ownerKnown)

ApplyPolicy ==
  /\ pc = "policy"
  /\ WritePolicy
  /\ inPolicy' = In(Target)
  /\ pc' = "publish"
  /\ UNCHANGED <<stateCM, report, nodeOk, calm, streak, seeded, ownerKnown, locals, wake,
                 snapshot, http, unseen>>

\* Mutant: the error is swallowed.
ApplyPolicyFailsSilently ==
  /\ pc = "policy"
  /\ ~calm
  /\ \/ UNCHANGED <<links, owned>>
     \/ LostReplies /\ WritePolicy
  /\ pc' = "publish"
  /\ UNCHANGED <<stateCM, report, nodeOk, calm, memory, locals, wake, snapshot, http, unseen>>

\* The call raises KubeError: recorded, inPolicy keeps its value, the pass goes on.
ApplyPolicyFails ==
  /\ pc = "policy"
  /\ ~calm
  /\ \/ UNCHANGED <<links, owned>>
     \/ LostReplies /\ WritePolicy
  /\ errors' = TRUE
  /\ pc' = "publish"
  /\ UNCHANGED <<stateCM, report, nodeOk, calm, memory, enabled, seen, wake, snapshot,
                 http, unseen>>

\* List the namespaces (a failure is tolerated), then swap the snapshot.
Publish ==
  /\ pc = "publish"
  /\ \E nsFails \in BOOLEAN :
       /\ nsFails => ~calm
       /\ snapshot' = [ready |-> TRUE, on |-> enabled, gateways |-> inPolicy,
                       errors |-> errors \/ nsFails]
  /\ DropLocals
  /\ pc' = "wait"
  /\ UNCHANGED <<cluster, calm, memory, wake, http, unseen>>

\* An untolerated call raises out of reconcile(); run_forever() catches it.
PassFails ==
  /\ pc \in FailingCalls
  /\ ~calm
  /\ \/ UNCHANGED stateCM
     \/ pc = "create" /\ LostReplies /\ stateCM' = DefaultEnabled
  /\ unseen' = IF pc = "read" THEN FALSE ELSE unseen
  /\ snapshot' = [snapshot EXCEPT !.errors = TRUE]
  /\ DropLocals
  /\ pc' = "wait"
  /\ UNCHANGED <<report, nodeOk, links, owned, calm, memory, wake, http>>

\* wake.wait(interval) returns: set, or timed out.
WaitReturns ==
  /\ pc = "wait"
  /\ pc' = "clear"
  /\ UNCHANGED <<cluster, calm, memory, locals, wake, snapshot, http, unseen>>

ClearWake ==
  /\ pc = "clear"
  /\ wake' = FALSE
  /\ pc' = "read"
  /\ UNCHANGED <<cluster, calm, memory, locals, snapshot, http, unseen>>

Loop ==
  \/ ReadEnabled \/ CreateState \/ SeedFromLivePolicy \/ ListStatus \/ ListNodes
  \/ LookupNamespace \/ ApplyPolicy \/ ApplyPolicyFails \/ Publish \/ PassFails
  \/ WaitReturns \/ ClearWake

-----------------------------------------------------------------------------
(* POST /api/enabled: set_enabled() writes the ConfigMap, then sets the event. *)

Finished(c) ==
  /\ post' = [post EXCEPT ![c] = "idle"]
  /\ want' = [want EXCEPT ![c] = "off"]

PostArrives(c, v) ==
  /\ ~calm
  /\ post[c] = "idle"
  /\ post' = [post EXCEPT ![c] = "put"]
  /\ want' = [want EXCEPT ![c] = v]
  /\ UNCHANGED <<cluster, calm, pc, memory, locals, wake, snapshot, unseen>>

PutState(c) ==
  /\ post[c] = "put"
  /\ stateCM' = want[c]
  /\ unseen' = TRUE
  /\ post' = [post EXCEPT ![c] = "wake"]
  /\ UNCHANGED <<report, nodeOk, links, owned, calm, pc, memory, locals, wake, snapshot,
                 want>>

\* KubeError: answer 502, no wake-up; the write may have happened.
PutStateFails(c) ==
  /\ ~calm
  /\ post[c] = "put"
  /\ \/ UNCHANGED stateCM
     \/ LostReplies /\ stateCM' = want[c]
  /\ Finished(c)
  /\ UNCHANGED <<report, nodeOk, links, owned, calm, pc, memory, locals, wake, snapshot,
                 unseen>>

\* Mutant: the event was already set before the write, so nothing is set after it.
SetWakeBeforeWrite(c) ==
  /\ post[c] = "wake"
  /\ Finished(c)
  /\ UNCHANGED <<cluster, calm, pc, memory, locals, wake, snapshot, unseen>>

\* wake.set(), then the 200 answer.
SetWake(c) ==
  /\ post[c] = "wake"
  /\ wake' = TRUE
  /\ Finished(c)
  /\ UNCHANGED <<cluster, calm, pc, memory, locals, snapshot, unseen>>

Handler(c) == PutState(c) \/ PutStateFails(c) \/ SetWake(c)

-----------------------------------------------------------------------------
(* The environment. *)

\* A gateway writes a new status, or its status goes stale.
Report(g, l) ==
  /\ ~calm
  /\ report[g] # l
  /\ report' = [report EXCEPT ![g] = l]
  /\ UNCHANGED <<stateCM, nodeOk, links, owned, calm, pc, memory, locals, wake, snapshot,
                 http, unseen>>

NodeFlips(g) ==
  /\ ~calm
  /\ nodeOk' = [nodeOk EXCEPT ![g] = ~@]
  /\ UNCHANGED <<stateCM, report, links, owned, calm, pc, memory, locals, wake, snapshot,
                 http, unseen>>

\* The pod dies and starts again: every in-memory field is back at its first value.
Restart ==
  /\ ~calm
  /\ pc' = "read"
  /\ DropLocals
  /\ streak' = [g \in GatewayNodes |-> 0]
  /\ inPolicy' = {}
  /\ seeded' = FALSE
  /\ ownerKnown' = FALSE
  /\ wake' = FALSE
  /\ snapshot' = EmptySnapshot
  /\ post' = [c \in Clients |-> "idle"]
  /\ want' = [c \in Clients |-> "off"]
  /\ UNCHANGED <<cluster, calm, unseen>>

Settle ==
  /\ ~calm
  /\ calm' = TRUE
  /\ UNCHANGED <<cluster, pc, memory, locals, wake, snapshot, http, unseen>>

Environment ==
  \/ \E c \in Clients, v \in {"on", "off"} : PostArrives(c, v)
  \/ \E g \in GatewayNodes, l \in Links : Report(g, l)
  \/ \E g \in GatewayNodes : NodeFlips(g)
  \/ Restart
  \/ Settle

Next ==
  \/ Loop
  \/ \E c \in Clients : Handler(c)
  \/ Environment

Spec == Init /\ [][Next]_vars

\* The loop thread and the handler threads keep running.  Failures are part of
\* Loop and Handler, so fairness promises progress only once the API is calm.
FairSpec == Spec /\ WF_vars(Loop) /\ \A c \in Clients : WF_vars(Handler(c))
-----------------------------------------------------------------------------
(* Properties. *)

\* The loop never sleeps out its interval over a toggle that was acknowledged, or is
\* about to be: the event is set, or the handler is just about to set it.  It rests
\* on set_enabled() writing before wake.set(), and on run_forever() clearing the event
\* before it reads the toggle, not after.
WakeNotLost ==
  pc = "wait" /\ unseen => wake \/ \E c \in Clients : post[c] = "wake"

\* What the status page and the metrics say is true of the cluster: a snapshot
\* without errors names exactly the gateways of the live policy, none when the VPN
\* is off, and that policy is owned by the Namespace.  (Between the policy write and
\* the swap of the snapshot the old one is still served.)
SnapshotHonest ==
  snapshot.ready /\ ~snapshot.errors /\ pc # "publish" =>
    /\ snapshot.gateways = In(links)
    /\ ~snapshot.on => In(links) = {}
    /\ In(links) # {} => owned

\* Why the snapshot and the belief can be trusted: the inductive strengthening of
\* SnapshotHonest.  inPolicy matches the live policy from the seed until a failed
\* write; a pass that ends without errors has written the policy, with its owner.
BeliefInv ==
  /\ SnapshotHonest
  /\ snapshot.ready => seeded
  /\ pc \in {"status", "nodes", "owner", "policy", "publish"} => seeded
  /\ pc \notin {"policy", "publish"} => ~errors
  /\ pc = "policy" /\ ~errors => ownerKnown
  /\ seeded /\ ~snapshot.errors /\ pc # "publish" => inPolicy = In(links)
  /\ pc = "publish" /\ ~errors =>
       /\ inPolicy = In(links)
       /\ ~enabled => In(links) = {}
       /\ In(links) # {} => owned

\* A gateway leaves the live policy only because this pass saw it down or the toggle
\* off, across restarts too ("a restart doesn't flap traffic"); unless the last pass
\* failed, when the controller may not know what the policy holds.
DropOnlyWhenDown ==
  [][\A g \in In(links) \ In(links') :
        seen[g] = NoLink \/ ~enabled \/ snapshot.errors]_links

\* A gateway joins the live policy only after Rise good checks in a row, across
\* restarts too, unless the last pass failed.
JoinAfterRise ==
  [][\A g \in In(links') \ In(links) : streak[g] >= Rise \/ snapshot.errors]_links

\* config.env: "VPN state on the controller's first start. After that, the UI toggle
\* wins": once the ConfigMap exists only a POST changes it.
ToggleWins ==
  [][stateCM # "absent" => \E c \in Clients : post[c] = "put" /\ post'[c] # "put"]_stateCM

\* What the cluster has come to when controller and world agree.
Usable == [g \in GatewayNodes |-> IF nodeOk[g] THEN report[g] ELSE NoLink]
Agreed ==
  /\ links = IF stateCM = "on" THEN Usable ELSE NoGateway
  /\ snapshot = [ready |-> TRUE, on |-> stateCM = "on", gateways |-> In(links),
                 errors |-> FALSE]

\* Once the world is calm the policy holds exactly the usable gateways with their
\* current links while the toggle is on, and is gone while it is off, whatever failed
\* before: the loop repairs every lost answer, stale belief and half-done restart.
Converges == <>calm => <>[]Agreed
-----------------------------------------------------------------------------
(* Refinement: what is left when API calls, streaks, links, the owner, the *)
(* event, beliefs and snapshots are hidden.                                *)

Control == INSTANCE EgressControl WITH
  Gateways <- GatewayNodes, wanted <- stateCM, reported <- In(report),
  ready <- {g \in GatewayNodes : nodeOk[g]}, on <- enabled, up <- In(seen),
  live <- In(links)

\* Whatever fails, the controller routes pods only to gateways one pass observed up,
\* and only while that pass observed the toggle on.
ImplementsControl == Control!Spec
=============================================================================
