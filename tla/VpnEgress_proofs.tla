-------------------------- MODULE VpnEgress_proofs --------------------------
(***************************************************************************)
(* Proofs about the VPN egress models: the gateway script for any configs, *)
(* addresses and thresholds, the failover for any timing, and the rollout  *)
(* of a controller for any gateways and failures.                          *)
(***************************************************************************)
EXTENDS VpnEgress, TLAPS

(* The gateway script, command by command. *)

\* TypeOK needs ArmedInv (an address that a rule is added for is set), so both go
\* through one induction.
GatewayInv == TypeOK /\ ArmedInv

LEMMA Threshold == FailsBeforeDown \in Nat /\ FailsBeforeDown > 0 /\ 0 \in 0 .. FailsBeforeDown
BY GatewayAssumption

LEMMA GatewayInit == Init => GatewayInv
<1> SUFFICES ASSUME Init PROVE GatewayInv
  OBVIOUS
<1>1. TypeOK
  <2>1. NoLink \in [exists : BOOLEAN, conf : Confs \cup {NoConf}, addrs : SUBSET Addrs,
                    up : BOOLEAN]
    BY DEF NoLink
  <2>2. QED
    BY <2>1, Threshold DEF Init, TypeOK, Pcs
<1>2. link.addrs = {} /\ pc = "start"
  BY DEF Init, NoLink
<1>3. ArmedInv
  BY <1>2 DEF ArmedInv, NoLeak
<1>4. QED
  BY <1>1, <1>3 DEF GatewayInv

\* The commands of setup().
LEMMA SetupStep ==
  ASSUME GatewayInv,
         AddRule \/ AddBlackhole \/ AddLink \/ SetConf \/ AddAddress \/ BringUp \/ AddRoute
  PROVE  GatewayInv'
<1> USE GatewayAssumption DEF GatewayInv, TypeOK, ArmedInv, NoLeak, Pcs, SetupPcs, kernel, world,
        script, Goto
<1>1. CASE AddRule
  BY <1>1 DEF AddRule
<1>2. CASE AddBlackhole
  BY <1>2 DEF AddBlackhole
<1>3. CASE AddLink
  <2>1. link' \in [exists : BOOLEAN, conf : Confs \cup {NoConf}, addrs : SUBSET Addrs,
                   up : BOOLEAN]
        /\ link'.addrs \subseteq link.addrs
    BY <1>3 DEF AddLink, NoLink
  <2>2. QED
    BY <1>3, <2>1 DEF AddLink
<1>4. CASE SetConf
  BY <1>4 DEF SetConf
<1>5. CASE AddAddress
  <2>1. link'.addrs = link.addrs \cup {addr}
    BY <1>5 DEF AddAddress
  <2>2. addr \in Addrs /\ addr \in rules /\ blackhole
    BY <1>5 DEF AddAddress
  <2>3. ArmedInv'
    BY <1>5, <2>1, <2>2 DEF AddAddress
  <2>4. TypeOK'
    BY <1>5, <2>2 DEF AddAddress
  <2>5. QED
    BY <2>3, <2>4
<1>6. CASE BringUp
  BY <1>6 DEF BringUp
<1>7. CASE AddRoute
  BY <1>7 DEF AddRoute
<1>8. QED
  BY <1>1, <1>2, <1>3, <1>4, <1>5, <1>6, <1>7

LEMMA ScriptStep == ASSUME GatewayInv, Script PROVE GatewayInv'
<1> USE GatewayAssumption DEF GatewayInv, TypeOK, ArmedInv, NoLeak, Pcs, SetupPcs, kernel, world,
        script, Goto
<1> USE Threshold
<1>1. CASE AddRule \/ AddBlackhole \/ AddLink \/ SetConf \/ AddAddress \/ BringUp \/ AddRoute
  BY <1>1, SetupStep
<1>2. CASE ReadFirstAddr \/ ReadAddr
  BY <1>2 DEF ReadFirstAddr, ReadAddr
<1>3. CASE TakeSum \/ Check \/ Sleep \/ Report
  BY <1>3 DEF TakeSum, Check, Sleep, Report
<1>4. CASE Probe
  <2>1. ProbeOk => fails' \in 0 .. FailsBeforeDown /\ healthy' \in BOOLEAN
    BY DEF ProbeOk
  <2>2. ProbeFails => fails' \in 0 .. FailsBeforeDown
    BY DEF ProbeFails
  <2>3. ProbeFails => healthy' \in BOOLEAN
    BY DEF ProbeFails
  <2>4. fails' \in 0 .. FailsBeforeDown /\ healthy' \in BOOLEAN
    BY <1>4, <2>1, <2>2, <2>3 DEF Probe
  <2>5. QED
    BY <1>4, <2>4 DEF Probe
<1>5. CASE CommandFails
  BY <1>5 DEF CommandFails
<1>6. QED
  BY <1>1, <1>2, <1>3, <1>4, <1>5 DEF Script

LEMMA EnvironmentStep == ASSUME GatewayInv, Environment PROVE GatewayInv'
<1> USE GatewayAssumption DEF GatewayInv, TypeOK, ArmedInv, NoLeak, Pcs, SetupPcs, kernel, world,
        script
<1> USE Threshold
<1>1. CASE Restart
  BY <1>1 DEF Restart
<1>2. NoLink \in [exists : BOOLEAN, conf : Confs \cup {NoConf}, addrs : SUBSET Addrs,
                  up : BOOLEAN]
      /\ NoLink.addrs = {}
  BY DEF NoLink
<1>3. CASE Reboot
  BY <1>2, <1>3 DEF Reboot
<1>4. CASE LinkLost
  <2>1. link' \in [exists : BOOLEAN, conf : Confs \cup {NoConf}, addrs : SUBSET Addrs,
                   up : BOOLEAN]
    BY <1>2, <1>4 DEF LinkLost
  <2>2. link'.addrs \subseteq link.addrs
    BY <1>2, <1>4 DEF LinkLost
  <2>3. route' = FALSE /\ UNCHANGED <<rules, blackhole, world, calm, pc, script, status>>
    BY <1>4 DEF LinkLost
  <2>4. ArmedInv'
    <3>1. NoLeak'
      BY <2>2, <2>3
    <3> QED
      BY <2>3, <3>1
  <2>5. TypeOK'
    <3>1. rules' \in SUBSET Addrs /\ blackhole' \in BOOLEAN /\ route' \in BOOLEAN
      BY <2>3
    <3>2. conf' \in Confs /\ peers' \in SUBSET Confs /\ calm' \in BOOLEAN
      BY <2>3
    <3>3. pc' \in Pcs /\ addr' \in Addrs \cup {NoAddr}
      BY <2>3
    <3>4. sum' \in Confs \cup {NoConf} /\ newSum' \in Confs \cup {NoConf}
      BY <2>3
    <3>5. healthy' \in BOOLEAN /\ fails' \in 0 .. FailsBeforeDown /\ status' \in {"none", "up", "down"}
      BY <2>3
    <3> QED
      BY <2>1, <3>1, <3>2, <3>3, <3>4, <3>5
  <2>6. QED
    BY <2>4, <2>5
<1>5. CASE Settle
  BY <1>5 DEF Settle
<1>6. ASSUME NEW c \in Confs, ConfigChanges(c) PROVE GatewayInv'
  BY <1>6 DEF ConfigChanges
<1>7. ASSUME NEW p \in SUBSET Confs, PeersChange(p) PROVE GatewayInv'
  BY <1>7 DEF PeersChange
<1>8. QED
  BY <1>1, <1>3, <1>4, <1>5, <1>6, <1>7 DEF Environment

LEMMA GatewayStep == ASSUME GatewayInv, [Next]_vars PROVE GatewayInv'
<1>1. CASE UNCHANGED vars
  BY <1>1 DEF GatewayInv, TypeOK, ArmedInv, NoLeak, vars, kernel, world, script
<1>2. CASE Next
  BY <1>2, ScriptStep, EnvironmentStep DEF Next
<1>3. QED
  BY <1>1, <1>2

-----------------------------------------------------------------------------
(* Gateway and controller in time. *)

\* What a dead tunnel has cost so far: the script's last report "up" comes from a round
\* that began before its last probe failed, and the controller's last pass believed it.
Rounds(n) == n * VF!Round
Writing == phase \in {"deliver", "lose"}

TimerInv ==
  /\ VF!TypeOK
  /\ timer <= IF phase = "sleep" THEN SleepTicks ELSE IF phase = "probe" THEN ProbeTimeout ELSE took
  /\ alive => outage = 0
  /\ believed => running /\ failed < FailsBeforeDown
  /\ phase = "lose" => lost < MaxLost

OutageInv ==
  /\ ~alive /\ believed => outage + timer <= Rounds(failed) +
       (IF phase = "sleep" THEN WriteTimeout + SleepTicks ELSE IF phase = "probe" THEN VF!Round ELSE took)
  /\ ~alive /\ report = "up" => outage <= Rounds(FailsBeforeDown - 1) + age
  /\ inPolicy => outage + check <= Rounds(FailsBeforeDown - 1) + StaleTicks + CheckEvery

\* A live gateway renews its report: at most one round after the last, but for lost ones.
SteadyInv ==
  /\ steady => alive /\ running
  /\ steady /\ report = "up" =>
       age + timer <= Rounds(lost) +
         (CASE phase = "sleep" -> WriteTimeout + SleepTicks
            [] phase = "probe" -> VF!Round
            [] OTHER -> VF!Round + took)

LEMMA RoundsGrow ==
  /\ VF!Round \in Nat /\ VF!Round = SleepTicks + ProbeTimeout + WriteTimeout
  /\ FailsBeforeDown \in Nat /\ FailsBeforeDown > 0
  /\ \A n \in Nat : Rounds(n) \in Nat /\ Rounds(n + 1) = Rounds(n) + VF!Round
  /\ \A n \in 0 .. FailsBeforeDown - 1 : Rounds(n) <= Rounds(FailsBeforeDown - 1)
<1>1. VF!Round \in Nat /\ VF!Round = SleepTicks + ProbeTimeout + WriteTimeout
  BY TimingAssumption DEF VF!Round
<1>2. FailsBeforeDown \in Nat /\ FailsBeforeDown > 0
  BY GatewayAssumption
<1>3. \A r, n \in Nat : n * r \in Nat /\ (n + 1) * r = n * r + r
  OBVIOUS
<1>4. \A r, n, m \in Nat : n * r + m * r = (n + m) * r
  OBVIOUS
<1>5. ASSUME NEW n \in 0 .. FailsBeforeDown - 1 PROVE Rounds(n) <= Rounds(FailsBeforeDown - 1)
  <2> DEFINE m == FailsBeforeDown - 1 - n
  <2>1. m \in Nat /\ n \in Nat /\ n + m = FailsBeforeDown - 1
    BY <1>2
  <2>2. n * VF!Round + m * VF!Round = (FailsBeforeDown - 1) * VF!Round
    BY <1>1, <1>4, <2>1
  <2>3. m * VF!Round \in Nat /\ n * VF!Round \in Nat
    BY <1>1, <1>3, <2>1
  <2> HIDE DEF m
  <2>4. QED
    BY <2>2, <2>3 DEF Rounds
<1>6. QED
  BY <1>1, <1>2, <1>3, <1>5 DEF Rounds

LEMMA TimerInit == VF!Init => TimerInv /\ OutageInv /\ SteadyInv
<1> SUFFICES ASSUME VF!Init PROVE TimerInv /\ OutageInv /\ SteadyInv
  OBVIOUS
<1>1. TimerInv
  <2>1. alive \in BOOLEAN /\ running \in BOOLEAN /\ believed \in BOOLEAN /\ steady \in BOOLEAN /\ inPolicy \in BOOLEAN
    BY DEF VF!Init
  <2>2. /\ outage \in 0 .. Horizon /\ age \in 0 .. Horizon /\ lost \in 0 .. MaxLost
        /\ timer \in 0 .. SleepTicks + ProbeTimeout + WriteTimeout /\ took \in 0 .. WriteTimeout
        /\ failed \in 0 .. FailsBeforeDown /\ check \in 0 .. CheckEvery /\ streak \in 0 .. Rise
    BY TimingAssumption, RolloutAssumption, RoundsGrow DEF VF!Init
  <2>3. TimerInv!2 /\ TimerInv!3 /\ TimerInv!4 /\ TimerInv!5
    BY TimingAssumption DEF VF!Init
  <2>4. QED
    BY <2>1, <2>2, <2>3 DEF VF!Init, TimerInv, VF!TypeOK
<1>2. OutageInv
  BY DEF VF!Init, OutageInv
<1>3. SteadyInv
  BY DEF VF!Init, SteadyInv
<1>4. QED
  BY <1>1, <1>2, <1>3

LEMMA FailoverType == ASSUME TimerInv, VF!Next PROVE VF!TypeOK'
<1> USE TimingAssumption, RolloutAssumption, RoundsGrow
    DEF TimerInv, VF!TypeOK, VF!tunnel, VF!gateway, VF!config, VF!control
<1>0. VF!BeginWrite => phase' \in {"deliver", "lose"} /\ took' \in 0 .. WriteTimeout /\ timer' = took'
  BY DEF VF!BeginWrite
<1>1. CASE VF!Tick
  <2>1. outage' \in 0 .. Horizon /\ age' \in 0 .. Horizon
    BY <1>1 DEF VF!Tick, VF!Capped
  <2>2. timer' \in 0 .. SleepTicks + ProbeTimeout + WriteTimeout
    BY <1>1 DEF VF!Tick
  <2>3. check' \in 0 .. CheckEvery
    BY <1>1 DEF VF!Tick
  <2>4. UNCHANGED <<alive, running, phase, took, believed, failed, report, lost, steady, streak, inPolicy>>
    BY <1>1 DEF VF!Tick
  <2>5. QED
    BY <2>1, <2>2, <2>3, <2>4
<1>2. CASE VF!StartRound
  BY <1>2 DEF VF!StartRound
<1>3. CASE VF!ProbeAnswers
  BY <1>0, <1>3 DEF VF!ProbeAnswers
<1>10. CASE VF!ProbeFails
  <2>1. believed' \in BOOLEAN
    BY <1>10 DEF VF!ProbeFails
  <2>2. failed' \in 0 .. FailsBeforeDown
    BY <1>10 DEF VF!ProbeFails
  <2>3. QED
    BY <1>0, <1>10, <2>1, <2>2 DEF VF!ProbeFails
<1>4. CASE VF!EndWrite
  <2>1. phase' = "sleep" /\ timer' = SleepTicks /\ took' = 0
        /\ UNCHANGED <<alive, outage, running, believed, failed, check, streak, inPolicy>>
    BY <1>4 DEF VF!EndWrite
  <2>2. report' \in {"none", "up", "down"} /\ age' \in 0 .. Horizon /\ lost' \in 0 .. MaxLost /\ steady' \in BOOLEAN
    BY <1>4 DEF VF!EndWrite
  <2>3. QED
    BY <2>1, <2>2
<1>5. CASE VF!Pass
  <2>1. inPolicy' \in BOOLEAN
    BY <1>5 DEF VF!Pass
  <2>2. streak' \in 0 .. Rise
    BY <1>5 DEF VF!Pass, VF!NextStreak
  <2>3. check' \in 0 .. CheckEvery
    BY <1>5 DEF VF!Pass
  <2>4. QED
    BY <1>5, <2>1, <2>2, <2>3 DEF VF!Pass
<1>6. CASE VF!TunnelFlips
  <2>1. alive' \in BOOLEAN /\ steady' \in BOOLEAN
    BY <1>6 DEF VF!TunnelFlips
  <2>2. QED
    BY <1>6, <2>1 DEF VF!TunnelFlips
<1>7. CASE VF!PodStops
  <2>1. running' \in BOOLEAN /\ believed' \in BOOLEAN /\ steady' \in BOOLEAN
    BY <1>7 DEF VF!PodStops
  <2>2. phase' = "sleep" /\ timer' = 0 /\ took' = 0 /\ failed' = 0
    BY <1>7 DEF VF!PodStops
  <2>3. QED
    BY <1>7, <2>1, <2>2 DEF VF!PodStops
<1>8. CASE VF!PodStarts
  BY <1>8 DEF VF!PodStarts
<1>9. QED
  BY <1>1, <1>2, <1>3, <1>4, <1>5, <1>6, <1>7, <1>8, <1>10 DEF VF!Next

LEMMA TimerStep == ASSUME TimerInv, VF!Next PROVE TimerInv'
<1>0. VF!TypeOK'
  BY FailoverType DEF TimerInv
<1> USE TimingAssumption, RoundsGrow DEF VF!TypeOK, VF!tunnel, VF!gateway, VF!config, VF!control
<1> DEFINE Rest ==
      /\ timer <= IF phase = "sleep" THEN SleepTicks ELSE IF phase = "probe" THEN ProbeTimeout ELSE took
      /\ alive => outage = 0
      /\ believed => running /\ failed < FailsBeforeDown
      /\ phase = "lose" => lost < MaxLost
<1> SUFFICES Rest'
  BY <1>0 DEF TimerInv
<1>r. Rest /\ VF!TypeOK
  BY DEF TimerInv
<1>1. CASE VF!Tick
  BY <1>1, <1>r DEF VF!Tick
<1>2. CASE VF!StartRound
  BY <1>2, <1>r DEF VF!StartRound
<1>3. CASE VF!ProbeAnswers
  <2>1. (phase' = "deliver" \/ (phase' = "lose" /\ lost < MaxLost)) /\ timer' = took' /\ took' \in 0 .. WriteTimeout
    BY <1>3 DEF VF!ProbeAnswers, VF!BeginWrite
  <2>2. running /\ failed' = 0 /\ UNCHANGED <<alive, outage, running, lost>>
    BY <1>3 DEF VF!ProbeAnswers
  <2>3. QED
    BY <1>r, <2>1, <2>2
<1>10. CASE VF!ProbeFails
  <2>1. believed' => believed /\ failed' < FailsBeforeDown
    BY <1>10 DEF VF!ProbeFails
  <2>2. (phase' = "deliver" \/ (phase' = "lose" /\ lost < MaxLost)) /\ timer' = took'
    BY <1>10 DEF VF!ProbeFails, VF!BeginWrite
  <2>3. UNCHANGED <<alive, outage, running, lost>>
    BY <1>10 DEF VF!ProbeFails
  <2>4. took' \in 0 .. WriteTimeout
    BY <1>10 DEF VF!ProbeFails, VF!BeginWrite
  <2>5. QED
    BY <1>r, <2>1, <2>2, <2>3, <2>4
<1>4. CASE VF!EndWrite
  BY <1>4, <1>r DEF VF!EndWrite
<1>5. CASE VF!Pass
  BY <1>5, <1>r DEF VF!Pass
<1>6. CASE VF!TunnelFlips
  BY <1>6, <1>r DEF VF!TunnelFlips
<1>7. CASE VF!PodStops
  BY <1>7, <1>r DEF VF!PodStops
<1>8. CASE VF!PodStarts
  BY <1>8, <1>r DEF VF!PodStarts
<1>9. QED
  BY <1>1, <1>2, <1>3, <1>4, <1>5, <1>6, <1>7, <1>8, <1>10 DEF VF!Next

LEMMA OutageStep == ASSUME TimerInv, OutageInv, VF!Next PROVE OutageInv'
<1> USE TimingAssumption, RolloutAssumption, RoundsGrow
    DEF TimerInv, VF!TypeOK, OutageInv, VF!tunnel, VF!gateway, VF!config, VF!control
<1>1. CASE VF!Tick
  BY <1>1 DEF VF!Tick, VF!Capped
<1>2. CASE VF!StartRound
  BY <1>2 DEF VF!StartRound
<1>3. CASE VF!ProbeAnswers
  BY <1>3 DEF VF!ProbeAnswers, VF!BeginWrite
<1>10. CASE VF!ProbeFails
  BY <1>10 DEF VF!ProbeFails, VF!BeginWrite
<1>4. CASE VF!EndWrite
  BY <1>4 DEF VF!EndWrite
<1>5. CASE VF!Pass
  BY <1>5 DEF VF!Pass, VF!NextStreak, VF!Up
<1>6. CASE VF!TunnelFlips
  BY <1>6 DEF VF!TunnelFlips
<1>7. CASE VF!PodStops
  BY <1>7 DEF VF!PodStops
<1>8. CASE VF!PodStarts
  BY <1>8 DEF VF!PodStarts
<1>9. QED
  BY <1>1, <1>2, <1>3, <1>4, <1>5, <1>6, <1>7, <1>8, <1>10 DEF VF!Next

LEMMA SteadyStep == ASSUME TimerInv, SteadyInv, VF!Next PROVE SteadyInv'
<1> USE TimingAssumption, RolloutAssumption, RoundsGrow
    DEF TimerInv, VF!TypeOK, SteadyInv, VF!tunnel, VF!gateway, VF!config, VF!control
<1>1. CASE VF!Tick
  BY <1>1 DEF VF!Tick, VF!Capped
<1>2. CASE VF!StartRound
  BY <1>2 DEF VF!StartRound
<1>3. CASE VF!ProbeAnswers
  BY <1>3 DEF VF!ProbeAnswers, VF!BeginWrite
<1>10. CASE VF!ProbeFails
  BY <1>10 DEF VF!ProbeFails, VF!BeginWrite
<1>4. CASE VF!EndWrite
  BY <1>4 DEF VF!EndWrite
<1>5. CASE VF!Pass
  BY <1>5 DEF VF!Pass, VF!NextStreak, VF!Up
<1>6. CASE VF!TunnelFlips
  BY <1>6 DEF VF!TunnelFlips
<1>7. CASE VF!PodStops
  BY <1>7 DEF VF!PodStops
<1>8. CASE VF!PodStarts
  BY <1>8 DEF VF!PodStarts
<1>9. QED
  BY <1>1, <1>2, <1>3, <1>4, <1>5, <1>6, <1>7, <1>8, <1>10 DEF VF!Next

LEMMA PassKeeps ==
  ASSUME TimerInv, SteadyInv, VF!Next, inPolicy, ~inPolicy', report = "up", steady
  PROVE  Rounds(lost + 1) + WriteTimeout > StaleTicks
<1> USE TimingAssumption, RoundsGrow DEF TimerInv, VF!TypeOK, VF!tunnel, VF!gateway, VF!config, VF!control
<1>1. CASE VF!Pass
  <2>1. ~VF!Up
    BY <1>1 DEF VF!Pass
  <2>2. age > StaleTicks
    BY <2>1 DEF VF!Up
  <2>3. QED
    BY <2>2 DEF SteadyInv
<1>2. CASE ~VF!Pass
  BY <1>2 DEF VF!Next, VF!Tick, VF!StartRound, VF!ProbeAnswers, VF!ProbeFails, VF!EndWrite, VF!TunnelFlips, VF!PodStops, VF!PodStarts
<1>3. QED
  BY <1>1, <1>2

-----------------------------------------------------------------------------
(* The rollout of a controller. *)

\* What is proved of one controller, for each of the two.
P1 == INSTANCE VpnController_proofs WITH
  NoLink <- NoLinkId, report <- upLink, calm <- settledDown,
  Clients <- {}, DefaultEnabled <- "on", LostReplies <- FALSE,
  pc <- pc1, enabled <- enabled1, seen <- seen1, errors <- errors1, streak <- streak1,
  inPolicy <- inPolicy1, seeded <- seeded1, ownerKnown <- ownerKnown1, snapshot <- snapshot1

P2 == INSTANCE VpnController_proofs WITH
  NoLink <- NoLinkId, report <- upLink, calm <- settledDown,
  Clients <- {}, DefaultEnabled <- "on", LostReplies <- FALSE,
  pc <- pc2, enabled <- enabled2, seen <- seen2, errors <- errors2, streak <- streak2,
  inPolicy <- inPolicy2, seeded <- seeded2, ownerKnown <- ownerKnown2, snapshot <- snapshot2

LEMMA ControllersAssume == P1!ControllerAssumption /\ P2!ControllerAssumption
BY RolloutAssumption DEF P1!ControllerAssumption, P2!ControllerAssumption

\* The old controller of the rollout is that controller.
LEMMA OldIsController ==
  /\ CR!Old!TypeOK <=> P1!TypeOK
  /\ CR!Old!BeliefInv <=> P1!BeliefInv
  /\ CR!Old!Init <=> P1!Init
  /\ CR!Old!Loop <=> P1!Loop
<1>1. CR!Old!TypeOK <=> P1!TypeOK
  BY DEF CR!Old!TypeOK, P1!TypeOK, CR!Old!Links, P1!Links, CR!Old!LoopPcs, P1!LoopPcs,
     CR!Old!FailingCalls, P1!FailingCalls, CR!Old!Snapshots, P1!Snapshots
<1>2. CR!Old!BeliefInv <=> P1!BeliefInv
  BY DEF CR!Old!BeliefInv, P1!BeliefInv, CR!Old!SnapshotHonest, P1!SnapshotHonest, CR!Old!In, P1!In
<1>3. CR!Old!Init <=> P1!Init
  BY DEF CR!Old!Init, P1!Init, CR!Old!NoGateway, P1!NoGateway, CR!Old!EmptySnapshot,
     P1!EmptySnapshot
<1>4. CR!Old!Loop <=> P1!Loop
  <2>1. CR!Old!ReadEnabled <=> P1!ReadEnabled
    BY DEF CR!Old!ReadEnabled, P1!ReadEnabled, CR!Old!AfterRead, P1!AfterRead, CR!Old!cluster,
       P1!cluster, CR!Old!memory, P1!memory, CR!Old!http, P1!http
  <2>2. CR!Old!CreateState <=> P1!CreateState
    BY DEF CR!Old!CreateState, P1!CreateState, CR!Old!AfterRead, P1!AfterRead, CR!Old!memory,
       P1!memory, CR!Old!http, P1!http
  <2>3. CR!Old!SeedFromLivePolicy <=> P1!SeedFromLivePolicy
    BY DEF CR!Old!SeedFromLivePolicy, P1!SeedFromLivePolicy, CR!Old!In, P1!In, CR!Old!cluster,
       P1!cluster, CR!Old!locals, P1!locals, CR!Old!http, P1!http
  <2>4. CR!Old!ListStatus <=> P1!ListStatus
    BY DEF CR!Old!ListStatus, P1!ListStatus, CR!Old!cluster, P1!cluster, CR!Old!memory, P1!memory,
       CR!Old!http, P1!http
  <2>5. CR!Old!ListNodes <=> P1!ListNodes
    BY DEF CR!Old!ListNodes, P1!ListNodes, CR!Old!NextStreak, P1!NextStreak, CR!Old!cluster,
       P1!cluster, CR!Old!http, P1!http
  <2>6. CR!Old!LookupNamespace <=> P1!LookupNamespace
    BY DEF CR!Old!LookupNamespace, P1!LookupNamespace, CR!Old!cluster, P1!cluster, CR!Old!http,
       P1!http
  <2>7. CR!Old!ApplyPolicy <=> P1!ApplyPolicy
    BY DEF CR!Old!ApplyPolicy, P1!ApplyPolicy, CR!Old!WritePolicy, P1!WritePolicy, CR!Old!In, P1!In,
       CR!Old!Target, P1!Target, CR!Old!Chosen, P1!Chosen, CR!Old!NoGateway, P1!NoGateway,
       CR!Old!locals, P1!locals, CR!Old!http, P1!http
  <2>8. CR!Old!ApplyPolicyFails <=> P1!ApplyPolicyFails
    BY DEF CR!Old!ApplyPolicyFails, P1!ApplyPolicyFails, CR!Old!WritePolicy, P1!WritePolicy,
       CR!Old!In, P1!In, CR!Old!Target, P1!Target, CR!Old!Chosen, P1!Chosen, CR!Old!NoGateway,
       P1!NoGateway, CR!Old!memory, P1!memory, CR!Old!http, P1!http
  <2>9. CR!Old!Publish <=> P1!Publish
    BY DEF CR!Old!Publish, P1!Publish, CR!Old!DropLocals, P1!DropLocals, CR!Old!NoGateway,
       P1!NoGateway, CR!Old!cluster, P1!cluster, CR!Old!memory, P1!memory, CR!Old!http, P1!http
  <2>10. CR!Old!PassFails <=> P1!PassFails
    BY DEF CR!Old!PassFails, P1!PassFails, CR!Old!FailingCalls, P1!FailingCalls, CR!Old!DropLocals,
       P1!DropLocals, CR!Old!NoGateway, P1!NoGateway, CR!Old!memory, P1!memory, CR!Old!http, P1!http
  <2>11. CR!Old!WaitReturns <=> P1!WaitReturns
    BY DEF CR!Old!WaitReturns, P1!WaitReturns, CR!Old!cluster, P1!cluster, CR!Old!memory, P1!memory,
       CR!Old!locals, P1!locals, CR!Old!http, P1!http
  <2>12. CR!Old!ClearWake <=> P1!ClearWake
    BY DEF CR!Old!ClearWake, P1!ClearWake, CR!Old!cluster, P1!cluster, CR!Old!memory, P1!memory,
       CR!Old!locals, P1!locals, CR!Old!http, P1!http
  <2>13. QED
    BY <2>1, <2>2, <2>3, <2>4, <2>5, <2>6, <2>7, <2>8, <2>9, <2>10, <2>11, <2>12 DEF CR!Old!Loop,
       P1!Loop
<1>5. QED
  BY <1>1, <1>2, <1>3, <1>4

\* The new controller of the rollout is that controller.
LEMMA NewIsController ==
  /\ CR!New!TypeOK <=> P2!TypeOK
  /\ CR!New!BeliefInv <=> P2!BeliefInv
  /\ CR!New!Init <=> P2!Init
  /\ CR!New!Loop <=> P2!Loop
<1>1. CR!New!TypeOK <=> P2!TypeOK
  BY DEF CR!New!TypeOK, P2!TypeOK, CR!New!Links, P2!Links, CR!New!LoopPcs, P2!LoopPcs,
     CR!New!FailingCalls, P2!FailingCalls, CR!New!Snapshots, P2!Snapshots
<1>2. CR!New!BeliefInv <=> P2!BeliefInv
  BY DEF CR!New!BeliefInv, P2!BeliefInv, CR!New!SnapshotHonest, P2!SnapshotHonest, CR!New!In, P2!In
<1>3. CR!New!Init <=> P2!Init
  BY DEF CR!New!Init, P2!Init, CR!New!NoGateway, P2!NoGateway, CR!New!EmptySnapshot,
     P2!EmptySnapshot
<1>4. CR!New!Loop <=> P2!Loop
  <2>1. CR!New!ReadEnabled <=> P2!ReadEnabled
    BY DEF CR!New!ReadEnabled, P2!ReadEnabled, CR!New!AfterRead, P2!AfterRead, CR!New!cluster,
       P2!cluster, CR!New!memory, P2!memory, CR!New!http, P2!http
  <2>2. CR!New!CreateState <=> P2!CreateState
    BY DEF CR!New!CreateState, P2!CreateState, CR!New!AfterRead, P2!AfterRead, CR!New!memory,
       P2!memory, CR!New!http, P2!http
  <2>3. CR!New!SeedFromLivePolicy <=> P2!SeedFromLivePolicy
    BY DEF CR!New!SeedFromLivePolicy, P2!SeedFromLivePolicy, CR!New!In, P2!In, CR!New!cluster,
       P2!cluster, CR!New!locals, P2!locals, CR!New!http, P2!http
  <2>4. CR!New!ListStatus <=> P2!ListStatus
    BY DEF CR!New!ListStatus, P2!ListStatus, CR!New!cluster, P2!cluster, CR!New!memory, P2!memory,
       CR!New!http, P2!http
  <2>5. CR!New!ListNodes <=> P2!ListNodes
    BY DEF CR!New!ListNodes, P2!ListNodes, CR!New!NextStreak, P2!NextStreak, CR!New!cluster,
       P2!cluster, CR!New!http, P2!http
  <2>6. CR!New!LookupNamespace <=> P2!LookupNamespace
    BY DEF CR!New!LookupNamespace, P2!LookupNamespace, CR!New!cluster, P2!cluster, CR!New!http,
       P2!http
  <2>7. CR!New!ApplyPolicy <=> P2!ApplyPolicy
    BY DEF CR!New!ApplyPolicy, P2!ApplyPolicy, CR!New!WritePolicy, P2!WritePolicy, CR!New!In, P2!In,
       CR!New!Target, P2!Target, CR!New!Chosen, P2!Chosen, CR!New!NoGateway, P2!NoGateway,
       CR!New!locals, P2!locals, CR!New!http, P2!http
  <2>8. CR!New!ApplyPolicyFails <=> P2!ApplyPolicyFails
    BY DEF CR!New!ApplyPolicyFails, P2!ApplyPolicyFails, CR!New!WritePolicy, P2!WritePolicy,
       CR!New!In, P2!In, CR!New!Target, P2!Target, CR!New!Chosen, P2!Chosen, CR!New!NoGateway,
       P2!NoGateway, CR!New!memory, P2!memory, CR!New!http, P2!http
  <2>9. CR!New!Publish <=> P2!Publish
    BY DEF CR!New!Publish, P2!Publish, CR!New!DropLocals, P2!DropLocals, CR!New!NoGateway,
       P2!NoGateway, CR!New!cluster, P2!cluster, CR!New!memory, P2!memory, CR!New!http, P2!http
  <2>10. CR!New!PassFails <=> P2!PassFails
    BY DEF CR!New!PassFails, P2!PassFails, CR!New!FailingCalls, P2!FailingCalls, CR!New!DropLocals,
       P2!DropLocals, CR!New!NoGateway, P2!NoGateway, CR!New!memory, P2!memory, CR!New!http, P2!http
  <2>11. CR!New!WaitReturns <=> P2!WaitReturns
    BY DEF CR!New!WaitReturns, P2!WaitReturns, CR!New!cluster, P2!cluster, CR!New!memory, P2!memory,
       CR!New!locals, P2!locals, CR!New!http, P2!http
  <2>12. CR!New!ClearWake <=> P2!ClearWake
    BY DEF CR!New!ClearWake, P2!ClearWake, CR!New!cluster, P2!cluster, CR!New!memory, P2!memory,
       CR!New!locals, P2!locals, CR!New!http, P2!http
  <2>13. QED
    BY <2>1, <2>2, <2>3, <2>4, <2>5, <2>6, <2>7, <2>8, <2>9, <2>10, <2>11, <2>12 DEF CR!New!Loop,
       P2!Loop
<1>5. QED
  BY <1>1, <1>2, <1>3, <1>4

-----------------------------------------------------------------------------
\* Before the rollout the old controller knows the policy, after it the new one does
\* once it has read or written it alone; in between neither may.
RolloutInv ==
  /\ P1!TypeOK /\ P2!TypeOK
  /\ stage \in {"before", "overlap", "after"} /\ settled \in BOOLEAN /\ faults \in 0 .. RolloutFaults
  /\ P1!LocalInv /\ P2!LocalInv
  /\ P1!OnInv /\ P2!OnInv
  /\ stage = "before" => settled /\ P1!BeliefInv
  /\ stage = "overlap" => ~settled
  /\ stage = "after" /\ settled => P2!BeliefInv

LEMMA NewSteps ==
  /\ CR!New!SeedFromLivePolicy <=> P2!SeedFromLivePolicy
  /\ CR!New!ApplyPolicy <=> P2!ApplyPolicy
<1>1. CR!New!SeedFromLivePolicy <=> P2!SeedFromLivePolicy
  BY DEF CR!New!SeedFromLivePolicy, P2!SeedFromLivePolicy, CR!New!In, P2!In, CR!New!cluster, P2!cluster,
     CR!New!locals, P2!locals, CR!New!http, P2!http
<1>2. CR!New!ApplyPolicy <=> P2!ApplyPolicy
  BY DEF CR!New!ApplyPolicy, P2!ApplyPolicy, CR!New!WritePolicy, P2!WritePolicy, CR!New!In, P2!In,
     CR!New!Target, P2!Target, CR!New!Chosen, P2!Chosen, CR!New!NoGateway, P2!NoGateway,
     CR!New!locals, P2!locals, CR!New!http, P2!http
<1>3. QED
  BY <1>1, <1>2

LEMMA RolloutInit == CR!Init => RolloutInv
<1> SUFFICES ASSUME CR!Init PROVE RolloutInv
  OBVIOUS
<1>1. P1!Init /\ P2!Init /\ stage = "before" /\ settled = TRUE /\ faults = 0
  BY OldIsController, NewIsController DEF CR!Init
<1>2. P1!TypeOK /\ P2!TypeOK /\ P1!LocalInv /\ P2!LocalInv /\ P1!BeliefInv
  BY <1>1, ControllersAssume, P1!InitType, P2!InitType, P1!InitLocal, P2!InitLocal, P1!InitBelief
<1>3. P1!OnInv /\ P2!OnInv
  BY <1>1 DEF P1!Init, P2!Init, P1!OnInv, P2!OnInv
<1>4. QED
  BY <1>1, <1>2, <1>3, RolloutAssumption DEF RolloutInv

LEMMA CountedBound == ASSUME NEW f, CR!Counted(f), faults \in 0 .. RolloutFaults PROVE faults' \in 0 .. RolloutFaults
BY RolloutAssumption DEF CR!Counted

LEMMA OldStep == ASSUME RolloutInv, CR!OldRuns PROVE RolloutInv'
<1>1. P1!Loop /\ stage # "after" /\ UNCHANGED <<CR!new, stage, settled>>
  BY OldIsController DEF CR!OldRuns, CR!rollout
<1>2. P1!TypeOK' /\ P1!LocalInv' /\ P1!OnInv'
  BY <1>1, ControllersAssume, P1!LoopType, P1!LoopLocal, P1!LoopOn DEF RolloutInv
<1>3. stage = "before" => P1!BeliefInv'
  BY <1>1, ControllersAssume, P1!LoopBelief DEF RolloutInv
<1>4. P2!TypeOK'
  BY <1>1, <1>2 DEF RolloutInv, CR!new, P1!TypeOK, P2!TypeOK, P1!Links, P2!Links, P1!Snapshots, P2!Snapshots,
     P1!LoopPcs, P2!LoopPcs, P1!FailingCalls, P2!FailingCalls
<1>5. P2!LocalInv' /\ P2!OnInv'
  BY <1>1, <1>2 DEF RolloutInv, CR!new, P1!OnInv, P2!OnInv, P2!LocalInv
<1>6. faults' \in 0 .. RolloutFaults
  BY CountedBound DEF CR!OldRuns, RolloutInv
<1>7. QED
  BY <1>1, <1>2, <1>3, <1>4, <1>5, <1>6 DEF RolloutInv

LEMMA NewStep == ASSUME RolloutInv, CR!NewRuns PROVE RolloutInv'
<1>1. P2!Loop /\ stage # "before" /\ UNCHANGED <<CR!old, stage>>
  BY NewIsController DEF CR!NewRuns
<1>2. P2!TypeOK' /\ P2!LocalInv' /\ P2!OnInv'
  BY <1>1, ControllersAssume, P2!LoopType, P2!LoopLocal, P2!LoopOn DEF RolloutInv
<1>3. settled' = (settled \/ (stage = "after" /\ (CR!New!SeedFromLivePolicy \/ CR!New!ApplyPolicy)))
  BY DEF CR!NewRuns
<1>4. settled' \in BOOLEAN
  BY <1>3
<1>5. stage = "after" /\ settled' => P2!BeliefInv'
  <2>1. CASE settled
    BY <1>1, <2>1, ControllersAssume, P2!LoopBelief DEF RolloutInv
  <2>2. CASE ~settled
    <3>1. settled' => CR!New!SeedFromLivePolicy \/ CR!New!ApplyPolicy
      BY <1>3, <2>2
    <3>2. settled' => P2!SeedFromLivePolicy \/ P2!ApplyPolicy
      BY <3>1, NewSteps
    <3>3. QED
      BY <3>2, ControllersAssume, P2!BeliefComes DEF RolloutInv
  <2>3. QED
    BY <2>1, <2>2
<1>6. P1!TypeOK'
  BY <1>1, <1>2 DEF RolloutInv, CR!old, P1!TypeOK, P2!TypeOK, P1!Links, P2!Links, P1!Snapshots, P2!Snapshots,
     P1!LoopPcs, P2!LoopPcs, P1!FailingCalls, P2!FailingCalls
<1>7. P1!LocalInv' /\ P1!OnInv'
  BY <1>1, <1>2 DEF RolloutInv, CR!old, P1!OnInv, P2!OnInv, P1!LocalInv
<1>8. faults' \in 0 .. RolloutFaults
  BY CountedBound DEF CR!NewRuns, RolloutInv
<1>9. stage = "overlap" => ~settled'
  BY <1>3 DEF RolloutInv
<1>10. QED
  BY <1>1, <1>2, <1>4, <1>5, <1>6, <1>7, <1>8, <1>9 DEF RolloutInv

\* The rollout itself, and whatever gateways, nodes and the API do.
LEMMA OtherStep == ASSUME RolloutInv, CR!Rollout \/ CR!OldStops \/ CR!World PROVE RolloutInv'
<1> USE DEF RolloutInv, CR!cluster, CR!old, CR!new, CR!rollout
<1>1. CASE CR!Rollout
  <2>1. UNCHANGED <<CR!cluster, CR!old, CR!new, faults>> /\ stage' = "overlap" /\ settled' = FALSE
    BY <1>1 DEF CR!Rollout
  <2>2. P1!TypeOK' /\ P2!TypeOK' /\ P1!LocalInv' /\ P2!LocalInv' /\ P1!OnInv' /\ P2!OnInv'
    BY <2>1 DEF P1!TypeOK, P2!TypeOK, P1!LocalInv, P2!LocalInv, P1!OnInv, P2!OnInv
  <2>3. QED
    BY <2>1, <2>2
<1>2. CASE CR!OldStops
  <2>1. UNCHANGED <<CR!cluster, CR!old, CR!new, settled, faults>> /\ stage' = "after" /\ stage = "overlap"
    BY <1>2 DEF CR!OldStops
  <2>2. P1!TypeOK' /\ P2!TypeOK' /\ P1!LocalInv' /\ P2!LocalInv' /\ P1!OnInv' /\ P2!OnInv'
    BY <2>1 DEF P1!TypeOK, P2!TypeOK, P1!LocalInv, P2!LocalInv, P1!OnInv, P2!OnInv
  <2>3. QED
    BY <2>1, <2>2
<1>3. CASE CR!World
  <2>1. /\ UNCHANGED <<stateCM, links, owned, wake, post, want, unseen, CR!old, CR!new, stage, settled>>
        /\ upLink' \in [GatewayNodes -> P1!Links] /\ nodeOk' \in [GatewayNodes -> BOOLEAN] /\ settledDown' \in BOOLEAN
    <3>1. CASE CR!Old!Settle /\ CR!World
      BY <3>1 DEF CR!World, CR!Old!Settle, CR!Old!cluster, CR!Old!memory, CR!Old!locals, CR!Old!http, P1!TypeOK
    <3>2. ASSUME CR!World, NEW g \in GatewayNodes, CR!Old!NodeFlips(g) PROVE <2>1!1 /\ <2>1!2
      BY <3>2 DEF CR!World, CR!Old!NodeFlips, CR!Old!memory, CR!Old!locals, CR!Old!http, P1!TypeOK
    <3>3. ASSUME CR!World, NEW g \in GatewayNodes, NEW l \in LinkIds \cup {NoLinkId}, CR!Old!Report(g, l) PROVE <2>1!1 /\ <2>1!2
      BY <3>3 DEF CR!World, CR!Old!Report, CR!Old!memory, CR!Old!locals, CR!Old!http, P1!TypeOK, P1!Links
    <3>4. QED
      BY <1>3, <3>1, <3>2, <3>3 DEF CR!World
  <2>2. faults' \in 0 .. RolloutFaults
    BY <1>3, RolloutAssumption DEF CR!World
  <2>3. P1!TypeOK'
    BY <2>1 DEF P1!TypeOK
  <2>4. P2!TypeOK'
    BY <2>1 DEF P1!Links, P2!Links, P2!TypeOK
  <2>5. P1!LocalInv' /\ P2!LocalInv' /\ P1!OnInv' /\ P2!OnInv'
    BY <2>1 DEF P1!LocalInv, P2!LocalInv, P1!OnInv, P2!OnInv
  <2>6. /\ P1!BeliefInv => P1!BeliefInv'
        /\ P2!BeliefInv => P2!BeliefInv'
    BY <2>1 DEF P1!BeliefInv, P2!BeliefInv, P1!SnapshotHonest, P2!SnapshotHonest, P1!In, P2!In
  <2>7. QED
    BY <2>1, <2>2, <2>3, <2>4, <2>5, <2>6
<1>4. QED
  BY <1>1, <1>2, <1>3

LEMMA RolloutStep == ASSUME RolloutInv, CR!Next PROVE RolloutInv'
BY OldStep, NewStep, OtherStep DEF CR!Next

LEMMA RolloutHonest == RolloutInv => CR!TypeOK /\ CR!HonestAgain
<1> SUFFICES ASSUME RolloutInv PROVE CR!TypeOK /\ CR!HonestAgain
  OBVIOUS
<1>1. CR!TypeOK
  BY OldIsController, NewIsController DEF RolloutInv, CR!TypeOK
<1>2. P1!BeliefInv => CR!Old!SnapshotHonest
  BY DEF P1!BeliefInv, P1!SnapshotHonest, CR!Old!SnapshotHonest, P1!In, CR!Old!In
<1>3. P2!BeliefInv => CR!New!SnapshotHonest
  BY DEF P2!BeliefInv, P2!SnapshotHonest, CR!New!SnapshotHonest, P2!In, CR!New!In
<1>4. QED
  BY <1>1, <1>2, <1>3 DEF RolloutInv, CR!HonestAgain

\* Who alone writes the policy and knows it drops nothing it saw up.
LEMMA FlapsOver ==
  ASSUME RolloutInv, CR!Next, links' # links, settled,
         NEW g \in GatewayNodes, links[g] # NoLinkId, links'[g] = NoLinkId
  PROVE  ~CR!Sees(g)
<1>1. CASE CR!OldRuns
  <2>1. P1!Loop /\ UNCHANGED CR!new /\ stage = "before"
    BY <1>1, OldIsController DEF CR!OldRuns, RolloutInv
  <2>2. ~(pc2 = "policy" /\ pc2' = "publish")
    BY <2>1 DEF CR!new
  <2>3. SUFFICES ASSUME pc1 = "policy", seen1[g] # NoLinkId, ~snapshot1.errors PROVE FALSE
    BY <2>2 DEF CR!Sees
  <2>4. g \in P1!In(links) \ P1!In(links')
    BY DEF P1!In
  <2>5. P1!TypeOK /\ P1!BeliefInv /\ [P1!Next]_P1!vars
    BY <2>1 DEF RolloutInv, P1!Next
  <2>6. ~enabled1
    BY <2>3, <2>4, <2>5, ControllersAssume, P1!DropStep
  <2>7. QED
    BY <2>3, <2>6 DEF RolloutInv, P1!OnInv
<1>2. CASE CR!NewRuns
  <2>1. P2!Loop /\ UNCHANGED CR!old /\ stage = "after"
    BY <1>2, NewIsController DEF CR!NewRuns, RolloutInv
  <2>2. ~(pc1 = "policy" /\ pc1' = "publish")
    BY <2>1 DEF CR!old
  <2>3. SUFFICES ASSUME pc2 = "policy", seen2[g] # NoLinkId, ~snapshot2.errors PROVE FALSE
    BY <2>2 DEF CR!Sees
  <2>4. g \in P2!In(links) \ P2!In(links')
    BY DEF P2!In
  <2>5. P2!TypeOK /\ P2!BeliefInv /\ [P2!Next]_P2!vars
    BY <2>1 DEF RolloutInv, P2!Next
  <2>6. ~enabled2
    BY <2>3, <2>4, <2>5, ControllersAssume, P2!DropStep
  <2>7. QED
    BY <2>3, <2>6 DEF RolloutInv, P2!OnInv
<1>3. CASE CR!Rollout \/ CR!OldStops \/ CR!World
  BY <1>3 DEF CR!Rollout, CR!OldStops, CR!World, CR!cluster, CR!Old!Settle, CR!Old!NodeFlips, CR!Old!Report,
     CR!Old!cluster
<1>4. QED
  BY <1>1, <1>2, <1>3 DEF CR!Next

-----------------------------------------------------------------------------
(* All three. *)

FailoverInv == TimerInv /\ OutageInv /\ SteadyInv

LEMMA FailoverStep == ASSUME FailoverInv, VF!Next PROVE FailoverInv'
BY TimerStep, OutageStep, SteadyStep DEF FailoverInv

LEMMA InitEgress == InitAll => GatewayInv /\ FailoverInv /\ RolloutInv
BY GatewayInit, TimerInit, RolloutInit DEF InitAll, FailoverInv

LEMMA TimingStays == ASSUME FailoverInv, UNCHANGED timing PROVE FailoverInv'
BY DEF FailoverInv, TimerInv, OutageInv, SteadyInv, VF!TypeOK, timing

LEMMA RolloutStays == ASSUME RolloutInv, UNCHANGED rollout PROVE RolloutInv'
BY DEF RolloutInv, rollout, P1!TypeOK, P2!TypeOK, P1!LocalInv, P2!LocalInv, P1!OnInv, P2!OnInv,
   P1!BeliefInv, P2!BeliefInv, P1!SnapshotHonest, P2!SnapshotHonest, P1!In, P2!In

LEMMA StepEgress ==
  GatewayInv /\ FailoverInv /\ RolloutInv /\ [NextAll]_allVars => (GatewayInv /\ FailoverInv /\ RolloutInv)'
<1> SUFFICES ASSUME GatewayInv, FailoverInv, RolloutInv, [NextAll]_allVars
             PROVE  GatewayInv' /\ FailoverInv' /\ RolloutInv'
  OBVIOUS
<1>1. GatewayInv'
  <2>1. [Next]_vars
    BY DEF NextAll, allVars, Commands, Timing, RollsOut
  <2>2. QED
    BY <2>1, GatewayStep
<1>2. FailoverInv'
  <2>1. VF!Next \/ UNCHANGED timing
    BY DEF NextAll, allVars, Commands, Timing, RollsOut
  <2>2. QED
    BY <2>1, FailoverStep, TimingStays
<1>3. RolloutInv'
  <2>1. CR!Next \/ UNCHANGED rollout
    BY DEF NextAll, allVars, Commands, Timing, RollsOut
  <2>2. QED
    BY <2>1, RolloutStep, RolloutStays
<1>4. QED
  BY <1>1, <1>2, <1>3

LEMMA EgressAlways == SpecAll => [](GatewayInv /\ FailoverInv /\ RolloutInv)
BY InitEgress, StepEgress, PTL DEF SpecAll

\* Every variable of the three models keeps its type, for any constants.
THEOREM EgressTyped == SpecAll => []TypesOK
<1>1. GatewayInv /\ FailoverInv /\ RolloutInv => TypesOK
  BY RolloutHonest DEF GatewayInv, FailoverInv, TimerInv, TypesOK
<1>2. QED
  BY <1>1, EgressAlways, PTL

\* No tunnel address is ever on the link without its rule and the blackhole, so nothing
\* SNATed to it leaves on the LAN NIC, whatever restarts, reboots or changes.
THEOREM NeverLeaks == SpecAll => []NoLeak
<1>1. GatewayInv => NoLeak
  BY DEF GatewayInv, ArmedInv
<1>2. QED
  BY <1>1, EgressAlways, PTL

\* Pods are out of a dead tunnel FailsBeforeDown - 1 rounds, the life of a report and one
\* pass of the controller after it died, whatever sleeps, timeouts and intervals are set.
THEOREM DropsInTime == SpecAll => []DropBound
<1>1. FailoverInv => DropBound
  <2> SUFFICES ASSUME FailoverInv, inPolicy
               PROVE  outage <= Rounds(FailsBeforeDown - 1) + StaleTicks + CheckEvery
    BY DEF DropBound, VF!DropBound, Rounds
  <2>1. outage + check <= Rounds(FailsBeforeDown - 1) + StaleTicks + CheckEvery /\ outage \in Nat /\ check \in Nat
    BY DEF FailoverInv, OutageInv, TimerInv, VF!TypeOK
  <2>2. QED
    BY <2>1, RoundsGrow, TimingAssumption
<1>2. QED
  BY <1>1, EgressAlways, PTL

\* The status page is true before a rollout of the controller, and again once the new one
\* alone has read or written the policy.
THEOREM HonestAfterRollout == SpecAll => []HonestAgain
<1>1. RolloutInv => HonestAgain
  BY RolloutHonest DEF HonestAgain
<1>2. QED
  BY <1>1, EgressAlways, PTL

\* Whatever sleeps, timeouts and STALE_SECONDS are set: a live gateway is dropped only after
\* so many lost reports in a row that the longest rounds use STALE_SECONDS up; and, in the
\* end, not by a rollout.
THEOREM TrafficIsSteady == SpecAll => SteadyTraffic
<1>1. FailoverInv /\ [NextAll]_allVars =>
        [inPolicy /\ ~inPolicy' /\ report = "up" /\ steady =>
           (lost + 1) * VF!Round + WriteTimeout > StaleTicks]_inPolicy
  <2> SUFFICES ASSUME FailoverInv, [NextAll]_allVars, inPolicy' # inPolicy, inPolicy, ~inPolicy', report = "up", steady
               PROVE  (lost + 1) * VF!Round + WriteTimeout > StaleTicks
    OBVIOUS
  <2>1. VF!Next
    BY DEF NextAll, allVars, Commands, RollsOut, timing
  <2>2. QED
    BY <2>1, PassKeeps DEF FailoverInv, Rounds
<1>2. RolloutInv /\ [NextAll]_allVars =>
        [settled => \A g \in GatewayNodes : links[g] # NoLinkId /\ links'[g] = NoLinkId => ~CR!Sees(g)]_links
  <2> SUFFICES ASSUME RolloutInv, [NextAll]_allVars, links' # links, settled,
                      NEW g \in GatewayNodes, links[g] # NoLinkId, links'[g] = NoLinkId
               PROVE  ~CR!Sees(g)
    OBVIOUS
  <2>1. CR!Next
    BY DEF NextAll, allVars, Commands, Timing, rollout
  <2>2. QED
    BY <2>1, FlapsOver
<1>3. QED
  BY <1>1, <1>2, EgressAlways, PTL DEF SpecAll, SteadyTraffic, VF!ReportsKeepPolicy, CR!FlapsEnd
=============================================================================
