------------------------------ MODULE VpnEgress ------------------------------
(* The gateway script command by command, gateway and controller in time, or the *)
(* rollout of a controller: every behaviour follows one of the three models.     *)
EXTENDS VpnGateway

CONSTANTS
  SleepTicks, ProbeTimeout, WriteTimeout, CheckEvery, StaleTicks, \* VpnFailover
  FailoverFaults, MaxLost, Horizon,
  GatewayNodes, LinkIds, NoLinkId, RolloutFaults,                 \* ControllerRollout
  Rise                                                            \* both

ASSUME TimingAssumption ==
  /\ SleepTicks \in Nat /\ ProbeTimeout \in Nat /\ WriteTimeout \in Nat
  /\ CheckEvery \in Nat /\ StaleTicks \in Nat /\ MaxLost \in Nat
  /\ Horizon \in Nat /\ Horizon >= WriteTimeout
ASSUME RolloutAssumption == NoLinkId \notin LinkIds /\ RolloutFaults \in Nat /\ Rise \in Nat

VARIABLES
  model,
  alive, outage, running, phase, timer, took, believed, failed,
  report, age, lost, steady, check, streak, inPolicy,
  stateCM, upLink, nodeOk, links, owned, settledDown, wake, post, want, unseen,
  pc1, enabled1, seen1, errors1, streak1, inPolicy1, seeded1, ownerKnown1, snapshot1,
  pc2, enabled2, seen2, errors2, streak2, inPolicy2, seeded2, ownerKnown2, snapshot2,
  stage, settled, faults

timing == <<alive, outage, running, phase, timer, took, believed, failed,
            report, age, lost, steady, check, streak, inPolicy>>
rollout == <<stateCM, upLink, nodeOk, links, owned, settledDown, wake, post, want, unseen,
             pc1, enabled1, seen1, errors1, streak1, inPolicy1, seeded1, ownerKnown1, snapshot1,
             pc2, enabled2, seen2, errors2, streak2, inPolicy2, seeded2, ownerKnown2, snapshot2,
             stage, settled, faults>>
allVars == <<model, vars, timing, rollout>>

VF == INSTANCE VpnFailover WITH
  Faults <- FailoverFaults, healthy <- believed, fails <- failed

CR == INSTANCE ControllerRollout WITH
  NoLink <- NoLinkId, Faults <- RolloutFaults, report <- upLink, calm <- settledDown

InitAll ==
  /\ model \in {"commands", "timing", "rollout"}
  /\ Init /\ (model # "commands" => conf = (CHOOSE c \in Confs : TRUE) /\ peers = {})
  /\ VF!Init /\ CR!Init

Commands == model = "commands" /\ UNCHANGED <<model, timing, rollout>>
Timing   == model = "timing" /\ UNCHANGED <<model, vars, rollout>>
RollsOut == model = "rollout" /\ UNCHANGED <<model, vars, timing>>

NextAll == (Commands /\ Next) \/ (Timing /\ VF!Next) \/ (RollsOut /\ CR!Next)

\* The script runs until it is stopped; the other two models promise nothing that
\* needs fairness.
SpecAll == InitAll /\ [][NextAll]_allVars /\ WF_allVars(Commands /\ Script)

TypesOK == TypeOK /\ VF!TypeOK /\ CR!TypeOK

-----------------------------------------------------------------------------
(* What the models promise, each in its behaviours. *)

\* The report becomes true and stays so.
Reports == model = "commands" => ReportsTruth

\* How long pods stay routed into a dead tunnel.
DropBound == VF!DropBound

\* The status page is true but for the rollout of a controller.
HonestAgain == CR!HonestAgain

\* Pods are not moved without a cause: neither slow probes and writes of a live gateway
\* whose reports arrive nor, in the end, a rollout of the controller takes it out.
SteadyTraffic == VF!ReportsKeepPolicy /\ CR!FlapsEnd
=============================================================================
