------------------------- MODULE VpnController_proofs -------------------------
(***************************************************************************)
(* Proofs about the VPN egress controller, for any gateways, links,        *)
(* clients and Rise, with or without lost replies.                         *)
(***************************************************************************)
EXTENDS VpnController, TLAPS

LEMMA EmptyTypes ==
  /\ NoGateway \in [GatewayNodes -> Links]
  /\ EmptySnapshot \in Snapshots
  /\ 0 \in 0 .. Rise
<1>1. NoGateway \in [GatewayNodes -> Links]
  BY DEF NoGateway, Links
<1>2. EmptySnapshot \in Snapshots
  BY Zenon DEF EmptySnapshot, Snapshots
<1>3. 0 \in 0 .. Rise
  BY ControllerAssumption
<1>4. QED
  BY <1>1, <1>2, <1>3

LEMMA InitType == Init => TypeOK
BY EmptyTypes, Zenon DEF Init, TypeOK, LoopPcs, FailingCalls

\* Every step of the reconcile loop keeps the types.
LEMMA LoopType == TypeOK /\ Loop => TypeOK'
<1> SUFFICES ASSUME TypeOK, Loop PROVE TypeOK'
  OBVIOUS
<1> USE ControllerAssumption DEF TypeOK, cluster, memory, locals, http, LoopPcs, FailingCalls
<1>1. CASE ReadEnabled
  BY <1>1 DEF ReadEnabled, AfterRead
<1>2. CASE CreateState
  BY <1>2 DEF CreateState, AfterRead
<1>3. CASE SeedFromLivePolicy
  BY <1>3 DEF SeedFromLivePolicy, In
<1>4. CASE ListStatus
  BY <1>4 DEF ListStatus
<1>5. CASE ListNodes
  <2>1. \A g \in GatewayNodes, l \in Links : NextStreak(g, l) \in 0 .. Rise
    BY DEF NextStreak
  <2>2. seen' \in [GatewayNodes -> Links]
    BY <1>5 DEF ListNodes, Links
  <2>3. streak' = [g \in GatewayNodes |-> NextStreak(g, seen'[g])]
    BY <1>5 DEF ListNodes
  <2>4. streak' \in [GatewayNodes -> 0 .. Rise]
    BY <2>1, <2>2, <2>3
  <2>5. QED
    BY <1>5, <2>2, <2>4 DEF ListNodes
<1>6. CASE LookupNamespace
  <2>1. pc' = "policy" /\ ownerKnown' \in BOOLEAN /\ errors' \in BOOLEAN
    BY <1>6 DEF LookupNamespace
  <2>2. UNCHANGED <<cluster, calm, streak, inPolicy, seeded, enabled, seen, wake, snapshot, http,
                    unseen>>
    BY <1>6 DEF LookupNamespace
  <2>3. QED
    BY <2>1, <2>2
<1>7. Target \in [GatewayNodes -> Links]
  BY DEF Target, NoGateway, Links
<1>8. CASE ApplyPolicy
  BY <1>7, <1>8 DEF ApplyPolicy, WritePolicy, In
<1>9. CASE ApplyPolicyFails
  BY <1>7, <1>9 DEF ApplyPolicyFails, WritePolicy
<1>10. CASE Publish
  <2>1. \A f \in BOOLEAN :
          [ready |-> TRUE, on |-> enabled, gateways |-> inPolicy, errors |-> errors \/ f]
            \in Snapshots
    BY DEF Snapshots
  <2>2. snapshot' \in Snapshots
    BY <1>10, <2>1 DEF Publish
  <2>3. QED
    BY <1>10, <2>2, EmptyTypes DEF Publish, DropLocals
<1>11. CASE PassFails
  BY <1>11 DEF PassFails, DropLocals, Snapshots, NoGateway, Links
<1>12. CASE WaitReturns
  BY <1>12 DEF WaitReturns
<1>13. CASE ClearWake
  BY <1>13 DEF ClearWake
<1>14. QED
  BY <1>1, <1>2, <1>3, <1>4, <1>5, <1>6, <1>8, <1>9, <1>10, <1>11, <1>12, <1>13 DEF Loop

LEMMA NextType == TypeOK /\ [Next]_vars => TypeOK'
<1> SUFFICES ASSUME TypeOK, [Next]_vars PROVE TypeOK'
  OBVIOUS
<1> USE DEF TypeOK, cluster, memory, locals, http
<1>1. CASE Loop
  BY <1>1, LoopType
<1>2. ASSUME NEW c \in Clients, Handler(c) PROVE TypeOK'
  <2>1. CASE PutState(c)
    BY <2>1 DEF PutState
  <2>2. CASE PutStateFails(c)
    BY <2>2 DEF PutStateFails, Finished
  <2>3. CASE SetWake(c)
    BY <2>3 DEF SetWake, Finished
  <2>4. QED
    BY <1>2, <2>1, <2>2, <2>3 DEF Handler
<1>3. CASE Environment
  <2>1. ASSUME NEW c \in Clients, NEW v \in {"on", "off"}, PostArrives(c, v)
        PROVE TypeOK'
    BY <2>1 DEF PostArrives
  <2>2. ASSUME NEW g \in GatewayNodes, NEW l \in Links, Report(g, l) PROVE TypeOK'
    BY <2>2 DEF Report
  <2>3. ASSUME NEW g \in GatewayNodes, NodeFlips(g) PROVE TypeOK'
    BY <2>3 DEF NodeFlips
  <2>4. CASE Restart
    BY <2>4, EmptyTypes, Zenon DEF Restart, DropLocals, LoopPcs, FailingCalls
  <2>5. CASE Settle
    BY <2>5 DEF Settle
  <2>6. QED
    BY <1>3, <2>1, <2>2, <2>3, <2>4, <2>5 DEF Environment
<1>4. CASE UNCHANGED vars
  BY <1>4 DEF vars
<1>5. QED
  BY <1>1, <1>2, <1>3, <1>4 DEF Next

\* Every variable keeps its type in every reachable state.
THEOREM TypeCorrect == Spec => []TypeOK
<1>1. QED
  BY InitType, NextType, PTL DEF Spec
-----------------------------------------------------------------------------
(* What the controller believes and shows.  BeliefInv is inductive on top of *)
(* the types.                                                                *)

LEMMA InitBelief == Init => BeliefInv
<1>1. Init => ~snapshot.ready
  BY DEF Init, EmptySnapshot
<1>2. QED
  BY <1>1 DEF Init, BeliefInv, SnapshotHonest

LEMMA LoopBelief == TypeOK /\ BeliefInv /\ Loop => BeliefInv'
<1> SUFFICES ASSUME TypeOK, BeliefInv, Loop PROVE BeliefInv'
  OBVIOUS
<1> USE DEF BeliefInv, SnapshotHonest, In, cluster, memory, locals, http
<1>1. CASE ReadEnabled
  BY <1>1 DEF ReadEnabled, AfterRead
<1>2. CASE CreateState
  BY <1>2 DEF CreateState, AfterRead
<1>3. CASE SeedFromLivePolicy
  BY <1>3 DEF SeedFromLivePolicy
<1>4. CASE ListStatus
  BY <1>4 DEF ListStatus
<1>5. CASE ListNodes
  BY <1>5 DEF ListNodes
<1>6. CASE LookupNamespace
  BY <1>6 DEF LookupNamespace
<1>7. CASE ApplyPolicy
  <2>1. ~enabled => In(Target) = {}
    BY DEF Target, NoGateway
  <2>2. inPolicy' = In(links') /\ owned' = (In(Target) # {} /\ ownerKnown) /\ links' = Target
    BY <1>7 DEF ApplyPolicy, WritePolicy
  <2>3. QED
    BY <1>7, <2>1, <2>2 DEF ApplyPolicy
<1>8. CASE ApplyPolicyFails
  BY <1>8 DEF ApplyPolicyFails
<1>9. CASE Publish
  <2>1. PICK nsFails \in BOOLEAN :
          snapshot' = [ready |-> TRUE, on |-> enabled, gateways |-> inPolicy,
                       errors |-> errors \/ nsFails]
    BY <1>9 DEF Publish
  <2>2. ~snapshot'.errors => ~errors
    BY <2>1
  <2>3. snapshot'.on = enabled /\ snapshot'.gateways = inPolicy
    BY <2>1
  <2>4. QED
    BY <1>9, <2>2, <2>3 DEF Publish, DropLocals
<1>10. CASE PassFails
  <2>1. snapshot'.errors /\ snapshot'.ready = snapshot.ready
    BY <1>10 DEF PassFails, TypeOK, Snapshots
  <2>2. QED
    BY <1>10, <2>1 DEF PassFails, DropLocals
<1>11. CASE WaitReturns
  BY <1>11 DEF WaitReturns
<1>12. CASE ClearWake
  BY <1>12 DEF ClearWake
<1>13. QED
  BY <1>1, <1>2, <1>3, <1>4, <1>5, <1>6, <1>7, <1>8, <1>9, <1>10, <1>11, <1>12 DEF Loop

LEMMA NextBelief == TypeOK /\ BeliefInv /\ [Next]_vars => BeliefInv'
<1> SUFFICES ASSUME TypeOK, BeliefInv, [Next]_vars PROVE BeliefInv'
  OBVIOUS
<1> USE DEF BeliefInv, SnapshotHonest, In, cluster, memory, locals
<1>1. CASE Loop
  BY <1>1, LoopBelief
<1>2. ASSUME NEW c \in Clients, Handler(c) PROVE BeliefInv'
  BY <1>2 DEF Handler, PutState, PutStateFails, SetWake
<1>3. CASE Environment
  <2>1. CASE Restart
    BY <2>1 DEF Restart, DropLocals, EmptySnapshot
  <2>2. CASE ~Restart
    BY <1>3, <2>2 DEF Environment, PostArrives, Report, NodeFlips, Settle
  <2>3. QED
    BY <2>1, <2>2
<1>4. CASE UNCHANGED vars
  BY <1>4 DEF vars
<1>5. QED
  BY <1>1, <1>2, <1>3, <1>4 DEF Next

\* A snapshot without errors tells the truth about the live policy and its owner.
THEOREM SnapshotIsHonest == Spec => []SnapshotHonest
<1>1. BeliefInv => SnapshotHonest
  BY DEF BeliefInv
<1>2. QED
  BY <1>1, InitType, NextType, InitBelief, NextBelief, PTL DEF Spec

-----------------------------------------------------------------------------
(* What a controller knows of itself, whoever else writes the policy. *)

LocalInv ==
  /\ snapshot.ready => seeded
  /\ pc = "seed" => ~seeded
  /\ pc \in {"status", "nodes", "owner", "policy", "publish"} => seeded
  /\ pc \notin {"policy", "publish"} => ~errors
  /\ pc = "policy" /\ ~errors => ownerKnown

LEMMA InitLocal == Init => LocalInv
BY DEF Init, LocalInv, EmptySnapshot

LEMMA LoopLocal == TypeOK /\ LocalInv /\ Loop => LocalInv'
<1> SUFFICES ASSUME TypeOK, LocalInv, Loop PROVE LocalInv'
  OBVIOUS
<1> USE DEF LocalInv, cluster, memory, locals, http
<1>1. CASE Publish
  <2>1. seeded /\ UNCHANGED <<seeded, ownerKnown>> /\ pc' = "wait" /\ ~errors'
    BY <1>1 DEF Publish, DropLocals
  <2>2. QED
    BY <2>1
<1>2. CASE PassFails
  <2>1. snapshot'.ready = snapshot.ready /\ pc' = "wait" /\ ~errors' /\ seeded' = seeded
    BY <1>2 DEF PassFails, TypeOK, Snapshots, DropLocals
  <2>2. QED
    BY <2>1
<1>3. CASE ~Publish /\ ~PassFails
  BY <1>3 DEF Loop, ReadEnabled, CreateState, AfterRead, SeedFromLivePolicy, ListStatus, ListNodes,
     LookupNamespace, ApplyPolicy, ApplyPolicyFails, WaitReturns, ClearWake
<1>4. QED
  BY <1>1, <1>2, <1>3

\* One read or write of the policy is enough to know it.
LEMMA BeliefComes ==
  ASSUME TypeOK, LocalInv, SeedFromLivePolicy \/ ApplyPolicy
  PROVE  BeliefInv'
<1> USE DEF LocalInv, BeliefInv, SnapshotHonest, In, cluster, memory, locals, http
<1>1. CASE SeedFromLivePolicy
  BY <1>1 DEF SeedFromLivePolicy
<1>2. CASE ApplyPolicy
  <2>1. ~enabled => In(Target) = {}
    BY DEF Target, NoGateway
  <2>2. inPolicy' = In(links') /\ owned' = (In(Target) # {} /\ ownerKnown) /\ links' = Target
    BY <1>2 DEF ApplyPolicy, WritePolicy
  <2>3. QED
    BY <1>2, <2>1, <2>2 DEF ApplyPolicy
<1>3. QED
  BY <1>1, <1>2

\* Where the default is "on" and nobody uses the toggle, every pass reads "on".
OnInv ==
  /\ stateCM # "off"
  /\ pc \in {"seed", "status", "nodes", "owner", "policy"} => enabled

LEMMA LoopOn == ASSUME DefaultEnabled = "on", TypeOK, OnInv, Loop PROVE OnInv'
BY DEF OnInv, TypeOK, Loop, ReadEnabled, CreateState, AfterRead, SeedFromLivePolicy, ListStatus, ListNodes,
   LookupNamespace, ApplyPolicy, ApplyPolicyFails, Publish, PassFails, WaitReturns, ClearWake,
   cluster, memory, locals, http

-----------------------------------------------------------------------------
(* Who may join and who may be dropped. *)

\* The only steps that write the live policy write Target.
LEMMA OnlyTargetIsWritten ==
  ASSUME TypeOK, [Next]_vars, links' # links
  PROVE  pc = "policy" /\ links' = Target
<1> USE DEF cluster, memory, locals, http
<1>1. CASE Loop
  BY <1>1 DEF Loop, ReadEnabled, CreateState, SeedFromLivePolicy, ListStatus, ListNodes,
     LookupNamespace, ApplyPolicy, ApplyPolicyFails, WritePolicy, Publish, PassFails,
     WaitReturns, ClearWake
<1>2. ASSUME NEW c \in Clients, Handler(c) PROVE links' = links
  BY <1>2 DEF Handler, PutState, PutStateFails, SetWake
<1>3. CASE Environment
  BY <1>3 DEF Environment, PostArrives, Report, NodeFlips, Restart, Settle
<1>4. CASE UNCHANGED vars
  BY <1>4 DEF vars
<1>5. QED
  BY <1>1, <1>2, <1>3, <1>4 DEF Next

\* With a clean last pass, the belief the choice rests on is the live policy.
LEMMA BeliefAtPolicy ==
  ASSUME BeliefInv, pc = "policy", ~snapshot.errors
  PROVE  inPolicy = In(links)
BY DEF BeliefInv

\* A step drops no gateway that its pass saw up while the toggle was on.
LEMMA DropStep ==
  ASSUME TypeOK, BeliefInv, [Next]_vars, links' # links,
         NEW g \in In(links) \ In(links'), seen[g] # NoLink, ~snapshot.errors
  PROVE  ~enabled
<1> SUFFICES ASSUME enabled PROVE FALSE
  BY DEF TypeOK
<1>1. pc = "policy" /\ links' = Target
  BY OnlyTargetIsWritten
<1>2. g \in Chosen
  BY <1>1, BeliefAtPolicy DEF Chosen, In
<1>3. g \in In(Target)
  BY <1>2 DEF Target, In, Chosen
<1>4. QED
  BY <1>1, <1>3

\* No gateway is dropped while the pass saw it up and the toggle on.
THEOREM DropsOnlyWhenDown == Spec => DropOnlyWhenDown
<1>1. TypeOK /\ BeliefInv /\ [Next]_vars =>
        [\A g \in In(links) \ In(links') :
            seen[g] = NoLink \/ ~enabled \/ snapshot.errors]_links
  BY DropStep
<1>2. QED
  BY <1>1, InitType, NextType, InitBelief, NextBelief, PTL DEF Spec, DropOnlyWhenDown

\* No gateway joins before Rise good checks in a row.
THEOREM JoinsAfterRise == Spec => JoinAfterRise
<1>1. TypeOK /\ BeliefInv /\ [Next]_vars =>
        [\A g \in In(links') \ In(links) : streak[g] >= Rise \/ snapshot.errors]_links
  <2> SUFFICES ASSUME TypeOK, BeliefInv, [Next]_vars, links' # links,
                      NEW g \in In(links') \ In(links), ~snapshot.errors
               PROVE  streak[g] >= Rise
    OBVIOUS
  <2>1. pc = "policy" /\ links' = Target
    BY OnlyTargetIsWritten
  <2>2. g \in Chosen
    BY <2>1 DEF Target, In, NoGateway
  <2>3. QED
    BY <2>1, <2>2, BeliefAtPolicy DEF Chosen
<1>2. QED
  BY <1>1, InitType, NextType, InitBelief, NextBelief, PTL DEF Spec, JoinAfterRise

-----------------------------------------------------------------------------
(* The event. *)

\* A toggle acknowledged while the loop sleeps has set the event, or is about to.
THEOREM WakeIsNeverLost == Spec => []WakeNotLost
<1> DEFINE Inv == /\ WakeNotLost
                  /\ unseen /\ pc \in {"create", "seed", "status", "nodes", "owner", "policy", "publish"}
                       => wake \/ \E c \in Clients : post[c] = "wake"
<1>1. Init => Inv
  BY DEF Init, WakeNotLost
<1>2. TypeOK /\ Inv /\ [Next]_vars => Inv'
  <2> SUFFICES ASSUME TypeOK, Inv, [Next]_vars PROVE Inv'
    OBVIOUS
  <2> USE DEF WakeNotLost, cluster, memory, locals, http
  <2>1. CASE Loop
    <3>1. CASE ReadEnabled \/ CreateState
      BY <3>1 DEF ReadEnabled, CreateState, AfterRead
    <3>2. CASE SeedFromLivePolicy \/ ListStatus \/ ListNodes \/ LookupNamespace
      BY <3>2 DEF SeedFromLivePolicy, ListStatus, ListNodes, LookupNamespace
    <3>3. CASE ApplyPolicy \/ ApplyPolicyFails
      BY <3>3 DEF ApplyPolicy, ApplyPolicyFails
    <3>4. CASE Publish
      BY <3>4 DEF Publish
    <3>5. CASE PassFails
      BY <3>5 DEF PassFails, FailingCalls
    <3>6. CASE WaitReturns \/ ClearWake
      BY <3>6 DEF WaitReturns, ClearWake
    <3>7. QED
      BY <2>1, <3>1, <3>2, <3>3, <3>4, <3>5, <3>6 DEF Loop
  <2>2. ASSUME NEW c \in Clients, Handler(c) PROVE Inv'
    <3>1. CASE PutState(c)
      BY <3>1 DEF PutState, TypeOK
    <3>2. CASE PutStateFails(c)
      BY <3>2 DEF PutStateFails, Finished, TypeOK
    <3>3. CASE SetWake(c)
      BY <3>3 DEF SetWake
    <3>4. QED
      BY <2>2, <3>1, <3>2, <3>3 DEF Handler
  <2>3. CASE Environment
    BY <2>3 DEF Environment, PostArrives, Report, NodeFlips, Restart, Settle, TypeOK
  <2>4. CASE UNCHANGED vars
    BY <2>4 DEF vars
  <2>5. QED
    BY <2>1, <2>2, <2>3, <2>4 DEF Next
<1>3. QED
  BY <1>1, <1>2, InitType, NextType, PTL DEF Spec
-----------------------------------------------------------------------------
(* The controller implements EgressControl. *)

LEMMA RefinesInit == Init => Control!Init
BY DEF Init, Control!Init, NoGateway, In

LEMMA LoopRefines == TypeOK /\ Loop => [Control!Next]_(Control!vars)
<1> SUFFICES ASSUME TypeOK, Loop PROVE [Control!Next]_(Control!vars)
  OBVIOUS
<1> USE DEF cluster, memory, locals, http, Control!Next, Control!vars, Control!observed
<1>1. CASE ReadEnabled
  BY <1>1 DEF ReadEnabled, Control!ObserveToggle
<1>2. CASE CreateState
  BY <1>2, ControllerAssumption DEF CreateState, Control!WantDefault
<1>3. CASE SeedFromLivePolicy
  BY <1>3 DEF SeedFromLivePolicy
<1>4. CASE ListStatus
  BY <1>4 DEF ListStatus, Control!ObserveReports
<1>5. CASE ListNodes
  <2>1. In(seen') = In(seen) \cap {g \in GatewayNodes : nodeOk[g]}
    BY <1>5 DEF ListNodes, In
  <2>2. QED
    BY <1>5, <2>1 DEF ListNodes, Control!ObserveNodes
<1>6. CASE LookupNamespace
  BY <1>6 DEF LookupNamespace
<1>7. In(Target) \in IF enabled THEN SUBSET In(seen) ELSE {{}}
  BY DEF Target, NoGateway, Chosen, In
<1>8. CASE ApplyPolicy
  BY <1>7, <1>8 DEF ApplyPolicy, WritePolicy, Control!Write
<1>9. CASE ApplyPolicyFails
  BY <1>7, <1>9 DEF ApplyPolicyFails, WritePolicy, Control!Write
<1>10. In(NoGateway) = {}
  BY DEF In, NoGateway
<1>11. CASE Publish
  BY <1>10, <1>11 DEF Publish, DropLocals, Control!Forget
<1>12. CASE PassFails
  BY <1>10, <1>12, ControllerAssumption
  DEF PassFails, DropLocals, Control!Forget, Control!ForgetDefault
<1>13. CASE WaitReturns
  BY <1>13 DEF WaitReturns
<1>14. CASE ClearWake
  BY <1>14 DEF ClearWake
<1>15. QED
  BY <1>1, <1>2, <1>3, <1>4, <1>5, <1>6, <1>8, <1>9, <1>11, <1>12, <1>13, <1>14 DEF Loop

LEMMA NextRefines == TypeOK /\ [Next]_vars => [Control!Next]_(Control!vars)
<1> SUFFICES ASSUME TypeOK, [Next]_vars PROVE [Control!Next]_(Control!vars)
  OBVIOUS
<1> USE DEF cluster, memory, locals, http, Control!Next, Control!vars, Control!observed
<1>1. CASE Loop
  BY <1>1, LoopRefines
<1>2. ASSUME NEW c \in Clients, Handler(c) PROVE [Control!Next]_(Control!vars)
  BY <1>2 DEF Handler, PutState, PutStateFails, SetWake, TypeOK, Control!Want
<1>3. CASE Environment
  <2>1. CASE Restart
    BY <2>1 DEF Restart, DropLocals, In, NoGateway, Control!Forget
  <2>2. ASSUME NEW g \in GatewayNodes, NEW l \in Links, Report(g, l)
        PROVE [Control!Next]_(Control!vars)
    BY <2>2 DEF Report, In, Control!GatewayChanges
  <2>3. ASSUME NEW g \in GatewayNodes, NodeFlips(g) PROVE [Control!Next]_(Control!vars)
    BY <2>3 DEF NodeFlips, Control!GatewayChanges
  <2>4. ASSUME NEW c \in Clients, NEW v \in {"on", "off"}, PostArrives(c, v)
        PROVE [Control!Next]_(Control!vars)
    BY <2>4 DEF PostArrives
  <2>5. CASE Settle
    BY <2>5 DEF Settle
  <2>6. QED
    BY <1>3, <2>1, <2>2, <2>3, <2>4, <2>5 DEF Environment
<1>4. CASE UNCHANGED vars
  BY <1>4 DEF vars
<1>5. QED
  BY <1>1, <1>2, <1>3, <1>4 DEF Next

\* Every behaviour of the controller is one EgressControl allows: whatever fails, pods
\* go only to gateways a pass observed up, while it observed the toggle on.
THEOREM ControllerImplementsControl == Spec => ImplementsControl
<1>1. QED
  BY RefinesInit, NextRefines, InitType, NextType, PTL
  DEF Spec, ImplementsControl, Control!Spec
=============================================================================
