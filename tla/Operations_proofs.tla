-------------------------- MODULE Operations_proofs --------------------------
(***************************************************************************)
(* Proofs about the programs that operate the cluster and the checks that  *)
(* guard its repository, for any volumes, images, trees, objects, backups, *)
(* templates, checkouts, commands and clusters.                            *)
(***************************************************************************)
EXTENDS Operations, TLAPS, FiniteSetTheorems, SequenceTheorems, WellFoundedInduction

\* The lemmas about the Longhorn Job.
LHP == INSTANCE LonghornSelinux_proofs WITH
  Claims <- Selected, Other <- Unselected, Changes <- Edits, pc <- podPc, changes <- edits

-----------------------------------------------------------------------------
(* Every program's steps in the composition are its own. *)

Jobs == {"longhorn", "registry", "rollout", "vpa", "backup", "omni", "agent", "crds", "evidence"}

LEMMA JobSteps == job \in Jobs /\ [NextAll]_allVars => (job \in Jobs)'
  BY DEF NextAll, allVars, Jobs, Runs, LonghornRuns, RegistryRuns, RolloutRuns, VpaRuns, BackupRuns, OmniRuns,
         AgentRuns, CrdsRuns, EvidenceRuns

LEMMA LonghornSteps == [NextAll]_allVars => [LH!Next]_(LH!vars)
<1> SUFFICES ASSUME [NextAll]_allVars PROVE LH!Next \/ UNCHANGED LH!vars
  OBVIOUS
<1>1. CASE LonghornRuns /\ LH!Next
  BY <1>1
<1>2. CASE RegistryRuns
  BY <1>2 DEF RegistryRuns, Runs, LH!vars, LH!pods, longhorn
<1>3. CASE RolloutRuns
  BY <1>3 DEF RolloutRuns, Runs, LH!vars, LH!pods, longhorn
<1>4. CASE VpaRuns
  BY <1>4 DEF VpaRuns, Runs, LH!vars, LH!pods, longhorn
<1>5. CASE BackupRuns
  BY <1>5 DEF BackupRuns, Runs, LH!vars, LH!pods, longhorn
<1>6. CASE OmniRuns
  BY <1>6 DEF OmniRuns, Runs, LH!vars, LH!pods, longhorn
<1>7. CASE AgentRuns
  BY <1>7 DEF AgentRuns, Runs, LH!vars, LH!pods, longhorn
<1>8. CASE CrdsRuns
  BY <1>8 DEF CrdsRuns, Runs, LH!vars, LH!pods, longhorn
<1>9. CASE EvidenceRuns
  BY <1>9 DEF EvidenceRuns, Runs, LH!vars, LH!pods, longhorn
<1>10. CASE UNCHANGED allVars
  BY <1>10 DEF allVars, LH!vars, LH!pods, longhorn
<1> QED
  BY <1>1, <1>2, <1>3, <1>4, <1>5, <1>6, <1>7, <1>8, <1>9, <1>10 DEF NextAll

LEMMA RegistrySteps == [NextAll]_allVars => [GC!Next]_(GC!vars)
<1> SUFFICES ASSUME [NextAll]_allVars PROVE GC!Next \/ UNCHANGED GC!vars
  OBVIOUS
<1>1. CASE RegistryRuns /\ GC!Next
  BY <1>1
<1>2. CASE LonghornRuns
  BY <1>2 DEF LonghornRuns, Runs, GC!vars, GC!registry, GC!store, GC!gc, registry
<1>3. CASE RolloutRuns
  BY <1>3 DEF RolloutRuns, Runs, GC!vars, GC!registry, GC!store, GC!gc, registry
<1>4. CASE VpaRuns
  BY <1>4 DEF VpaRuns, Runs, GC!vars, GC!registry, GC!store, GC!gc, registry
<1>5. CASE BackupRuns
  BY <1>5 DEF BackupRuns, Runs, GC!vars, GC!registry, GC!store, GC!gc, registry
<1>6. CASE OmniRuns
  BY <1>6 DEF OmniRuns, Runs, GC!vars, GC!registry, GC!store, GC!gc, registry
<1>7. CASE AgentRuns
  BY <1>7 DEF AgentRuns, Runs, GC!vars, GC!registry, GC!store, GC!gc, registry
<1>8. CASE CrdsRuns
  BY <1>8 DEF CrdsRuns, Runs, GC!vars, GC!registry, GC!store, GC!gc, registry
<1>9. CASE EvidenceRuns
  BY <1>9 DEF EvidenceRuns, Runs, GC!vars, GC!registry, GC!store, GC!gc, registry
<1>10. CASE UNCHANGED allVars
  BY <1>10 DEF allVars, GC!vars, GC!registry, GC!store, GC!gc, registry
<1> QED
  BY <1>1, <1>2, <1>3, <1>4, <1>5, <1>6, <1>7, <1>8, <1>9, <1>10 DEF NextAll

LEMMA RolloutSteps == [NextAll]_allVars => [GR!Next]_(GR!vars)
<1> SUFFICES ASSUME [NextAll]_allVars PROVE GR!Next \/ UNCHANGED GR!vars
  OBVIOUS
<1>1. CASE RolloutRuns /\ GR!Next
  BY <1>1
<1>2. CASE LonghornRuns
  BY <1>2 DEF LonghornRuns, Runs, GR!vars, GR!cluster, rollout
<1>3. CASE RegistryRuns
  BY <1>3 DEF RegistryRuns, Runs, GR!vars, GR!cluster, rollout
<1>4. CASE VpaRuns
  BY <1>4 DEF VpaRuns, Runs, GR!vars, GR!cluster, rollout
<1>5. CASE BackupRuns
  BY <1>5 DEF BackupRuns, Runs, GR!vars, GR!cluster, rollout
<1>6. CASE OmniRuns
  BY <1>6 DEF OmniRuns, Runs, GR!vars, GR!cluster, rollout
<1>7. CASE AgentRuns
  BY <1>7 DEF AgentRuns, Runs, GR!vars, GR!cluster, rollout
<1>8. CASE CrdsRuns
  BY <1>8 DEF CrdsRuns, Runs, GR!vars, GR!cluster, rollout
<1>9. CASE EvidenceRuns
  BY <1>9 DEF EvidenceRuns, Runs, GR!vars, GR!cluster, rollout
<1>10. CASE UNCHANGED allVars
  BY <1>10 DEF allVars, GR!vars, GR!cluster, rollout
<1> QED
  BY <1>1, <1>2, <1>3, <1>4, <1>5, <1>6, <1>7, <1>8, <1>9, <1>10 DEF NextAll

LEMMA VpaSteps == [NextAll]_allVars => [VP!Next]_(VP!vars)
<1> SUFFICES ASSUME [NextAll]_allVars PROVE VP!Next \/ UNCHANGED VP!vars
  OBVIOUS
<1>1. CASE VpaRuns /\ VP!Next
  BY <1>1
<1>2. CASE LonghornRuns
  BY <1>2 DEF LonghornRuns, Runs, VP!vars, vpa
<1>3. CASE RegistryRuns
  BY <1>3 DEF RegistryRuns, Runs, VP!vars, vpa
<1>4. CASE RolloutRuns
  BY <1>4 DEF RolloutRuns, Runs, VP!vars, vpa
<1>5. CASE BackupRuns
  BY <1>5 DEF BackupRuns, Runs, VP!vars, vpa
<1>6. CASE OmniRuns
  BY <1>6 DEF OmniRuns, Runs, VP!vars, vpa
<1>7. CASE AgentRuns
  BY <1>7 DEF AgentRuns, Runs, VP!vars, vpa
<1>8. CASE CrdsRuns
  BY <1>8 DEF CrdsRuns, Runs, VP!vars, vpa
<1>9. CASE EvidenceRuns
  BY <1>9 DEF EvidenceRuns, Runs, VP!vars, vpa
<1>10. CASE UNCHANGED allVars
  BY <1>10 DEF allVars, VP!vars, vpa
<1> QED
  BY <1>1, <1>2, <1>3, <1>4, <1>5, <1>6, <1>7, <1>8, <1>9, <1>10 DEF NextAll

LEMMA BackupSteps == [NextAll]_allVars => [KC!Next]_(KC!vars)
<1> SUFFICES ASSUME [NextAll]_allVars PROVE KC!Next \/ UNCHANGED KC!vars
  OBVIOUS
<1>1. CASE BackupRuns /\ KC!Next
  BY <1>1
<1>2. CASE LonghornRuns
  BY <1>2 DEF LonghornRuns, Runs, KC!vars, backup
<1>3. CASE RegistryRuns
  BY <1>3 DEF RegistryRuns, Runs, KC!vars, backup
<1>4. CASE RolloutRuns
  BY <1>4 DEF RolloutRuns, Runs, KC!vars, backup
<1>5. CASE VpaRuns
  BY <1>5 DEF VpaRuns, Runs, KC!vars, backup
<1>6. CASE OmniRuns
  BY <1>6 DEF OmniRuns, Runs, KC!vars, backup
<1>7. CASE AgentRuns
  BY <1>7 DEF AgentRuns, Runs, KC!vars, backup
<1>8. CASE CrdsRuns
  BY <1>8 DEF CrdsRuns, Runs, KC!vars, backup
<1>9. CASE EvidenceRuns
  BY <1>9 DEF EvidenceRuns, Runs, KC!vars, backup
<1>10. CASE UNCHANGED allVars
  BY <1>10 DEF allVars, KC!vars, backup
<1> QED
  BY <1>1, <1>2, <1>3, <1>4, <1>5, <1>6, <1>7, <1>8, <1>9, <1>10 DEF NextAll

LEMMA OmniSteps == [NextAll]_allVars => [Next]_vars
<1> SUFFICES ASSUME [NextAll]_allVars PROVE Next \/ UNCHANGED vars
  OBVIOUS
<1>1. CASE OmniRuns /\ Next
  BY <1>1
<1>2. CASE LonghornRuns
  BY <1>2 DEF LonghornRuns, Runs, vars
<1>3. CASE RegistryRuns
  BY <1>3 DEF RegistryRuns, Runs, vars
<1>4. CASE RolloutRuns
  BY <1>4 DEF RolloutRuns, Runs, vars
<1>5. CASE VpaRuns
  BY <1>5 DEF VpaRuns, Runs, vars
<1>6. CASE BackupRuns
  BY <1>6 DEF BackupRuns, Runs, vars
<1>7. CASE AgentRuns
  BY <1>7 DEF AgentRuns, Runs, vars
<1>8. CASE CrdsRuns
  BY <1>8 DEF CrdsRuns, Runs, vars
<1>9. CASE EvidenceRuns
  BY <1>9 DEF EvidenceRuns, Runs, vars
<1>10. CASE UNCHANGED allVars
  BY <1>10 DEF allVars, vars
<1> QED
  BY <1>1, <1>2, <1>3, <1>4, <1>5, <1>6, <1>7, <1>8, <1>9, <1>10 DEF NextAll

LEMMA AgentSteps == [NextAll]_allVars => [AG!Next]_(AG!vars)
<1> SUFFICES ASSUME [NextAll]_allVars PROVE AG!Next \/ UNCHANGED AG!vars
  OBVIOUS
<1>1. CASE AgentRuns /\ AG!Next
  BY <1>1
<1>2. CASE LonghornRuns
  BY <1>2 DEF LonghornRuns, Runs, AG!vars, agent
<1>3. CASE RegistryRuns
  BY <1>3 DEF RegistryRuns, Runs, AG!vars, agent
<1>4. CASE RolloutRuns
  BY <1>4 DEF RolloutRuns, Runs, AG!vars, agent
<1>5. CASE VpaRuns
  BY <1>5 DEF VpaRuns, Runs, AG!vars, agent
<1>6. CASE BackupRuns
  BY <1>6 DEF BackupRuns, Runs, AG!vars, agent
<1>7. CASE OmniRuns
  BY <1>7 DEF OmniRuns, Runs, AG!vars, agent
<1>8. CASE CrdsRuns
  BY <1>8 DEF CrdsRuns, Runs, AG!vars, agent
<1>9. CASE EvidenceRuns
  BY <1>9 DEF EvidenceRuns, Runs, AG!vars, agent
<1>10. CASE UNCHANGED allVars
  BY <1>10 DEF allVars, AG!vars, agent
<1> QED
  BY <1>1, <1>2, <1>3, <1>4, <1>5, <1>6, <1>7, <1>8, <1>9, <1>10 DEF NextAll

LEMMA CrdsSteps == [NextAll]_allVars => [CS!Next]_(CS!vars)
<1> SUFFICES ASSUME [NextAll]_allVars PROVE CS!Next \/ UNCHANGED CS!vars
  OBVIOUS
<1>1. CASE CrdsRuns /\ CS!Next
  BY <1>1
<1>2. CASE LonghornRuns
  BY <1>2 DEF LonghornRuns, Runs, CS!vars, crds
<1>3. CASE RegistryRuns
  BY <1>3 DEF RegistryRuns, Runs, CS!vars, crds
<1>4. CASE RolloutRuns
  BY <1>4 DEF RolloutRuns, Runs, CS!vars, crds
<1>5. CASE VpaRuns
  BY <1>5 DEF VpaRuns, Runs, CS!vars, crds
<1>6. CASE BackupRuns
  BY <1>6 DEF BackupRuns, Runs, CS!vars, crds
<1>7. CASE OmniRuns
  BY <1>7 DEF OmniRuns, Runs, CS!vars, crds
<1>8. CASE AgentRuns
  BY <1>8 DEF AgentRuns, Runs, CS!vars, crds
<1>9. CASE EvidenceRuns
  BY <1>9 DEF EvidenceRuns, Runs, CS!vars, crds
<1>10. CASE UNCHANGED allVars
  BY <1>10 DEF allVars, CS!vars, crds
<1> QED
  BY <1>1, <1>2, <1>3, <1>4, <1>5, <1>6, <1>7, <1>8, <1>9, <1>10 DEF NextAll

LEMMA EvidenceSteps == [NextAll]_allVars => [SE!Next]_(SE!vars)
<1> SUFFICES ASSUME [NextAll]_allVars PROVE SE!Next \/ UNCHANGED SE!vars
  OBVIOUS
<1>1. CASE EvidenceRuns /\ SE!Next
  BY <1>1
<1>2. CASE LonghornRuns
  BY <1>2 DEF LonghornRuns, Runs, SE!vars, SE!cluster, evidence
<1>3. CASE RegistryRuns
  BY <1>3 DEF RegistryRuns, Runs, SE!vars, SE!cluster, evidence
<1>4. CASE RolloutRuns
  BY <1>4 DEF RolloutRuns, Runs, SE!vars, SE!cluster, evidence
<1>5. CASE VpaRuns
  BY <1>5 DEF VpaRuns, Runs, SE!vars, SE!cluster, evidence
<1>6. CASE BackupRuns
  BY <1>6 DEF BackupRuns, Runs, SE!vars, SE!cluster, evidence
<1>7. CASE OmniRuns
  BY <1>7 DEF OmniRuns, Runs, SE!vars, SE!cluster, evidence
<1>8. CASE AgentRuns
  BY <1>8 DEF AgentRuns, Runs, SE!vars, SE!cluster, evidence
<1>9. CASE CrdsRuns
  BY <1>9 DEF CrdsRuns, Runs, SE!vars, SE!cluster, evidence
<1>10. CASE UNCHANGED allVars
  BY <1>10 DEF allVars, SE!vars, SE!cluster, evidence
<1> QED
  BY <1>1, <1>2, <1>3, <1>4, <1>5, <1>6, <1>7, <1>8, <1>9, <1>10 DEF NextAll

LEMMA JobsKept == SpecAll => [](job \in Jobs)
<1>1. InitAll => job \in Jobs
  BY DEF InitAll, Jobs
<1> QED
  BY <1>1, JobSteps, PTL DEF SpecAll

\* The Job is the one the lemmas of LonghornSelinux_proofs are about.
LEMMA LonghornSame ==
  /\ LH!Init <=> LHP!Init
  /\ LH!Next <=> LHP!Next
  /\ LH!TypeOK <=> LHP!TypeOK
  /\ LH!CompleteMeansConverged <=> LHP!CompleteMeansConverged
<1>1. LH!Init <=> LHP!Init
  BY DEF LH!Init, LHP!Init, LH!Absent, LHP!Absent
<1>2. LH!Next <=> LHP!Next
  BY DEF LH!Next, LHP!Next, LH!Run, LHP!Run, LH!List, LHP!List, LH!Patch, LHP!Patch, LH!Complete, LHP!Complete,
    LH!LoseAnswer, LHP!LoseAnswer, LH!Retry, LHP!Retry, LH!Replace, LHP!Replace, LH!StartPod, LHP!StartPod,
    LH!Deadline, LHP!Deadline, LH!Sync, LHP!Sync, LH!Create, LHP!Create, LH!Edit, LHP!Edit, LH!Delete, LHP!Delete,
    LH!Change, LHP!Change, LH!Stale, LHP!Stale, LH!Goto, LHP!Goto, LH!Write, LHP!Write,
    LH!Unchanged, LHP!Unchanged, LH!Desired, LHP!Desired, LH!ToChange, LHP!ToChange, LH!Targets, LHP!Targets,
    LH!Refused, LHP!Refused, LH!Conflicting, LHP!Conflicting, LH!Shapes, LHP!Shapes, LH!Modes, LHP!Modes,
    LH!Absent, LHP!Absent, LH!Idle, LHP!Idle
<1>3. LH!TypeOK <=> LHP!TypeOK
  BY DEF LH!TypeOK, LHP!TypeOK, LH!Absent, LHP!Absent, LH!OptionLists, LHP!OptionLists, LH!Modes, LHP!Modes
<1>4. LH!CompleteMeansConverged <=> LHP!CompleteMeansConverged
  BY DEF LH!CompleteMeansConverged, LHP!CompleteMeansConverged, LH!Converged, LHP!Converged,
    LH!Desired, LHP!Desired, LH!ToChange, LHP!ToChange, LH!Targets, LHP!Targets, LH!Refused, LHP!Refused,
    LH!Conflicting, LHP!Conflicting, LH!Absent, LHP!Absent
<1> QED
  BY <1>1, <1>2, <1>3, <1>4

LEMMA LonghornSpec == SpecAll => LHP!Spec
<1>1. InitAll => LHP!Init
  BY LonghornSame DEF InitAll
<1>2. [NextAll]_allVars => [LHP!Next]_(LHP!vars)
  BY LonghornSteps, LonghornSame DEF LH!vars, LHP!vars, LH!pods, LHP!pods
<1> QED
  BY <1>1, <1>2, PTL DEF SpecAll, LHP!Spec

LEMMA LonghornSafe == SpecAll => [](LH!TypeOK /\ LH!CompleteMeansConverged)
<1>1. Edits \in Nat /\ Backoff \in Nat
  BY BoundsAssumption
<1>2. Given \subseteq LHP!OptionLists
  BY LonghornAssumption DEF LH!OptionLists, LHP!OptionLists
<1>3. LHP!Spec => []LHP!TypeOK
  BY <1>1, <1>2, LHP!JobTyped
<1>4. LHP!Spec => []LHP!CompleteMeansConverged
  BY <1>1, <1>2, LHP!CompleteIsConverged
<1> QED
  BY <1>3, <1>4, LonghornSame, LonghornSpec, PTL

-----------------------------------------------------------------------------
(* RegistryGc *)

\* Until a command before the collection fails, the switch to read-only is complete when
\* the collector starts; it runs in a pod that takes no pushes, so that what it has marked
\* stays garbage, and a pod that takes them comes without it.
ReadOnlyInv ==
  ~flipFailed =>
    /\ gcPc \in {"status", "exec"} => wanted = "ro"
    /\ gcPc = "exec" => pod = "ro"
    /\ collector => pod = "ro" /\ garbage \cap manifests = {}
    /\ GC!StoreIntact

RegistryInv == GC!TypeOK /\ ReadOnlyInv

LEMMA RegistryInit == GC!Init => RegistryInv
<1>1. GcFaults \in Nat
  BY BoundsAssumption
<1> SUFFICES ASSUME GC!Init PROVE RegistryInv
  OBVIOUS
<1>2. collector = FALSE /\ flipFailed = FALSE
  BY DEF GC!Init
<1>3. collector \in BOOLEAN /\ flipFailed \in BOOLEAN
  BY <1>2
<1>4. GC!TypeOK
  BY <1>1, <1>3 DEF GC!Init, GC!TypeOK
<1>5. ReadOnlyInv
  BY DEF GC!Init, ReadOnlyInv, GC!StoreIntact
<1> QED
  BY <1>4, <1>5 DEF RegistryInv

LEMMA RegistryTyped == GC!TypeOK /\ [GC!Next]_(GC!vars) => GC!TypeOK'
<1> SUFFICES ASSUME GC!TypeOK, [GC!Next]_(GC!vars) PROVE GC!TypeOK'
  OBVIOUS
<1>0. GcFaults \in Nat
  BY BoundsAssumption
<1> USE <1>0 DEF GC!TypeOK, GC!Fault, GC!registry, GC!store, GC!gc
<1>1. CASE GC!Script
  <2>1. CASE GC!Schedule \/ GC!Flip \/ GC!Status
    <3>1. flipFailed' \in BOOLEAN
      BY <2>1 DEF GC!Schedule, GC!Flip, GC!Status
    <3>2. gcFaults' \in 0 .. GcFaults
      BY <2>1 DEF GC!Schedule, GC!Flip, GC!Status
    <3> QED
      BY <2>1, <3>1, <3>2 DEF GC!Schedule, GC!Flip, GC!Status
  <2>2. CASE GC!Exec \/ GC!Done
    BY <2>2 DEF GC!Exec, GC!Done
  <2>3. CASE GC!Restore \/ GC!Settle
    BY <2>3 DEF GC!Restore, GC!Settle
  <2> QED
    BY <1>1, <2>1, <2>2, <2>3 DEF GC!Script
<1>2. CASE GC!Killed
  BY <1>2 DEF GC!Killed
<1>3. CASE GC!Rollout
  BY <1>3 DEF GC!Rollout, GC!StopPod, GC!StartPod
<1>4. CASE GC!Sweep
  BY <1>4 DEF GC!Sweep
<1>5. ASSUME NEW i \in Images, GC!Push(i) \/ GC!Remove(i) PROVE GC!TypeOK'
  BY <1>5 DEF GC!Push, GC!Remove
<1>6. CASE UNCHANGED GC!vars
  BY <1>6 DEF GC!vars
<1> QED
  BY <1>1, <1>2, <1>3, <1>4, <1>5, <1>6 DEF GC!Next

LEMMA RegistryStep == RegistryInv /\ [GC!Next]_(GC!vars) => RegistryInv'
<1> SUFFICES ASSUME RegistryInv, [GC!Next]_(GC!vars) PROVE ReadOnlyInv'
  BY RegistryTyped DEF RegistryInv
<1> USE DEF ReadOnlyInv, GC!StoreIntact, GC!registry, GC!store, GC!gc
<1>0. ReadOnlyInv /\ GC!TypeOK
  BY DEF RegistryInv
<1>1. CASE GC!Script
  <2>1. CASE GC!Schedule
    BY <1>0, <2>1 DEF GC!Schedule
  <2>2. CASE GC!Flip
    BY <1>0, <2>2 DEF GC!Flip, GC!TypeOK
  <2>3. CASE GC!Status
    BY <1>0, <2>3 DEF GC!Status
  <2>4. CASE GC!Exec
    BY <1>0, <2>4 DEF GC!Exec
  <2>5. CASE GC!Done
    BY <1>0, <2>5 DEF GC!Done
  <2>6. CASE GC!Restore
    BY <1>0, <2>6 DEF GC!Restore
  <2>7. CASE GC!Settle
    BY <1>0, <2>7 DEF GC!Settle
  <2> QED
    BY <1>1, <2>1, <2>2, <2>3, <2>4, <2>5, <2>6, <2>7 DEF GC!Script
<1>2. CASE GC!Killed
  BY <1>0, <1>2 DEF GC!Killed
<1>3. CASE GC!Rollout
  BY <1>0, <1>3 DEF GC!Rollout, GC!StopPod, GC!StartPod
<1>4. CASE GC!Sweep
  BY <1>0, <1>4 DEF GC!Sweep
<1>5. ASSUME NEW i \in Images, GC!Push(i) \/ GC!Remove(i) PROVE ReadOnlyInv'
  BY <1>0, <1>5 DEF GC!Push, GC!Remove
<1>6. CASE UNCHANGED GC!vars
  BY <1>0, <1>6 DEF GC!vars
<1> QED
  BY <1>1, <1>2, <1>3, <1>4, <1>5, <1>6 DEF GC!Next

LEMMA RegistrySafe == SpecAll => [](GC!TypeOK /\ GC!IntactAfterFlip)
<1>1. InitAll => RegistryInv
  BY RegistryInit DEF InitAll
<1>2. RegistryInv /\ [NextAll]_allVars => RegistryInv'
  BY RegistrySteps, RegistryStep
<1>3. RegistryInv => GC!TypeOK /\ GC!IntactAfterFlip
  BY DEF RegistryInv, ReadOnlyInv, GC!TypeOK, GC!IntactAfterFlip
<1> QED
  BY <1>1, <1>2, <1>3, PTL DEF SpecAll

\* A Longhorn Job that is complete has left nothing to do, and a registry whose switch to
\* read-only was complete has lost nothing that is wanted, for any volumes, pods, images
\* and faults.
THEOREM MaintenanceIsSafe == SpecAll => []MaintenanceSafe
<1>1. LH!TypeOK /\ LH!CompleteMeansConverged /\ GC!TypeOK /\ GC!IntactAfterFlip => MaintenanceSafe
  BY DEF MaintenanceSafe
<1> QED
  BY <1>1, LonghornSafe, RegistrySafe, PTL

-----------------------------------------------------------------------------
(* KopiurCoverage *)

\* What is merged was accepted.
BackupInv == KC!TypeOK /\ KC!Accepted(backups)

LEMMA BackupInit == KC!Init => BackupInv
<1> SUFFICES ASSUME KC!Init PROVE BackupInv
  OBVIOUS
<1>1. backups \in Repositories /\ KC!Accepted(backups)
  BY BackupAssumption DEF KC!Init
<1>2. reachable \in BOOLEAN
  BY DEF KC!Init
<1>3. KC!TypeOK
  BY <1>1, <1>2 DEF KC!Init, KC!TypeOK
<1> QED
  BY <1>1, <1>3 DEF BackupInv

\* A populator that a rendered claim names takes a policy's snapshot.
LEMMA LinkedPolicy ==
  ASSUME BackupInv, NEW c \in Stored, c \in DOMAIN backups.pvcs, backups.pvcs[c] # "none"
  PROVE  /\ backups.restores[backups.pvcs[c]].policy \in Policies
         /\ backups.restores[backups.pvcs[c]].foreign \in BOOLEAN
<1>1. backups \in Repositories /\ KC!Accepted(backups)
  BY DEF BackupInv, KC!TypeOK
<1>2. backups.pvcs[c] \in DOMAIN backups.restores
  <2>1. CASE KC!Unbacked(backups, c)
    BY <1>1, <2>1 DEF KC!Accepted, KC!UnbackedOk, KC!Populator
  <2>2. CASE ~KC!Unbacked(backups, c)
    <3>1. PICK p \in DOMAIN backups.policies : backups.policies[p].claim = c
      BY <2>2 DEF KC!Unbacked, KC!Backs
    <3> QED
      BY <1>1, <3>1 DEF KC!Accepted, KC!PolicyOk, KC!RestoreLink, KC!Populator
  <2> QED
    BY <2>1, <2>2
<1> QED
  BY <1>1, <1>2, BackupAssumption

LEMMA BackupStep == BackupInv /\ [KC!Next]_(KC!vars) => BackupInv'
<1> SUFFICES ASSUME BackupInv, [KC!Next]_(KC!vars) PROVE BackupInv'
  OBVIOUS
<1>0. KC!TypeOK /\ KC!Accepted(backups)
  BY DEF BackupInv
<1>1. CASE KC!Merge
  <2>1. backups' \in Repositories /\ KC!Accepted(backups')
    BY <1>1 DEF KC!Merge
  <2>2. UNCHANGED <<volume, snapshot, reachable>>
    BY <1>1 DEF KC!Merge
  <2>3. KC!TypeOK'
    BY <1>0, <2>1, <2>2 DEF KC!TypeOK
  <2>4. KC!Accepted(backups)' <=> KC!Accepted(backups')
    BY DEF KC!Accepted, KC!PolicyOk, KC!Populator, KC!RestoreLink, KC!Direct, KC!Unbacked, KC!UnbackedOk, KC!Backs, KC!Labelled
  <2> QED
    BY <2>1, <2>3, <2>4 DEF BackupInv
<1>2. ASSUME UNCHANGED backups, KC!TypeOK' PROVE BackupInv'
  BY <1>0, <1>2 DEF BackupInv, KC!Accepted, KC!PolicyOk, KC!Populator, KC!RestoreLink, KC!Direct, KC!Unbacked, KC!UnbackedOk,
    KC!Backs, KC!Labelled
<1>3. CASE KC!Disaster
  BY <1>0, <1>2, <1>3 DEF KC!Disaster, KC!TypeOK
<1>4. CASE KC!Store
  <2>1. reachable' \in BOOLEAN
    BY <1>4 DEF KC!Store
  <2> QED
    BY <1>0, <1>2, <1>4, <2>1 DEF KC!Store, KC!TypeOK
<1>5. ASSUME NEW c \in Stored, KC!BindRendered(c) PROVE BackupInv'
  <2>1. backups.pvcs[c] # "none" =>
          backups.restores[backups.pvcs[c]].policy \in Policies /\ backups.restores[backups.pvcs[c]].foreign \in BOOLEAN
    BY <1>5, LinkedPolicy DEF KC!BindRendered
  <2>2. backups.pvcs[c] # "none" => KC!Restored(backups.pvcs[c]) \in {"unbound", "empty", "foreign"} \cup Stored
    BY <1>0, <2>1 DEF KC!Restored, KC!TypeOK
  <2>3. KC!TypeOK'
    BY <1>0, <1>5, <2>2 DEF KC!BindRendered, KC!TypeOK
  <2> QED
    BY <1>2, <1>5, <2>3 DEF KC!BindRendered
<1>6. ASSUME NEW c \in Stored, KC!BindOperators(c) PROVE BackupInv'
  <2>1. \A s \in DOMAIN backups.restores : KC!Restored(s) \in {"unbound", "empty", "foreign"} \cup Stored
    <3>1. \A s \in DOMAIN backups.restores :
            backups.restores[s].policy \in Policies /\ backups.restores[s].foreign \in BOOLEAN
      BY <1>0, BackupAssumption DEF KC!TypeOK
    <3> QED
      BY <1>0, <3>1 DEF KC!Restored, KC!TypeOK
  <2>2. volume' \in [Stored -> {"unbound", "empty", "foreign"} \cup Stored]
    BY <1>0, <1>6, <2>1 DEF KC!BindOperators, KC!TypeOK
  <2> QED
    BY <1>0, <1>2, <1>6, <2>2 DEF KC!BindOperators, KC!TypeOK
<1>7. ASSUME NEW c \in Stored, KC!Fill(c) PROVE BackupInv'
  BY <1>0, <1>2, <1>7 DEF KC!Fill, KC!TypeOK
<1>8. ASSUME NEW p \in Policies, KC!Snapshot(p) PROVE BackupInv'
  <2>1. backups.policies[p].claim \in Stored
    BY <1>0, <1>8, BackupAssumption DEF KC!Snapshot, KC!TypeOK
  <2>2. volume[backups.policies[p].claim] \in {"empty", "foreign"} \cup Stored
    BY <1>0, <1>8, <2>1 DEF KC!Snapshot, KC!TypeOK
  <2>3. snapshot' \in [Policies -> {"none", "empty", "foreign"} \cup Stored]
    BY <1>0, <1>8, <2>2 DEF KC!Snapshot, KC!TypeOK
  <2> QED
    BY <1>0, <1>2, <1>8, <2>3 DEF KC!Snapshot, KC!TypeOK
<1>9. CASE UNCHANGED KC!vars
  BY <1>0, <1>2, <1>9 DEF KC!vars, KC!TypeOK
<1> QED
  BY <1>1, <1>3, <1>4, <1>5, <1>6, <1>7, <1>8, <1>9 DEF KC!Next

\* A claim that a policy backs up is bound to that policy's snapshot.
LEMMA BoundFromBackup ==
  ASSUME BackupInv, [KC!Next]_(KC!vars), NEW c \in Stored, NEW p \in DOMAIN backups.policies,
         KC!Backs(backups, p, c), volume[c] = "unbound", volume'[c] # "unbound", snapshot[p] # "none"
  PROVE  volume'[c] = snapshot[p] \/ KC!Unmatched(p, c)
<1>0. backups \in Repositories /\ KC!Accepted(backups) /\ volume \in [Stored -> {"unbound", "empty", "foreign"} \cup Stored]
  BY DEF BackupInv, KC!TypeOK
<1>1. \A d \in Stored : KC!BindRendered(d) \/ KC!BindOperators(d) => d = c
  <2> SUFFICES ASSUME NEW d \in Stored, KC!BindRendered(d) \/ KC!BindOperators(d), d # c PROVE FALSE
    OBVIOUS
  <2>1. \E v : volume' = [volume EXCEPT ![d] = v]
    BY DEF KC!BindRendered, KC!BindOperators
  <2> QED
    BY <1>0, <2>1
<1>2. KC!BindRendered(c) \/ KC!BindOperators(c)
  <2>1. ~KC!Merge /\ ~KC!Store /\ volume' # volume
    BY DEF KC!Merge, KC!Store
  <2>2. ~KC!Disaster
    BY DEF KC!Disaster
  <2>3. \A d \in Stored : ~KC!Fill(d)
    <3> SUFFICES ASSUME NEW d \in Stored, KC!Fill(d) PROVE FALSE
      OBVIOUS
    <3>1. d # c
      BY DEF KC!Fill
    <3> QED
      BY <1>0, <3>1 DEF KC!Fill
  <2>4. \A q \in Policies : ~KC!Snapshot(q)
    BY <2>1 DEF KC!Snapshot
  <2> QED
    BY <1>1, <2>1, <2>2, <2>3, <2>4 DEF KC!Next, KC!vars
<1>3. KC!PolicyOk(backups, p) /\ backups.policies[p].claim = c
  BY <1>0 DEF KC!Accepted, KC!Backs
<1>4. CASE KC!BindRendered(c)
  <2>1. c \in DOMAIN backups.pvcs
    BY <1>4 DEF KC!BindRendered
  <2>2. backups.pvcs[c] # "none" /\ KC!RestoreLink(backups, c, p)
    BY <1>3, <2>1 DEF KC!PolicyOk
  <2>3. backups.restores[backups.pvcs[c]].policy = p /\ ~backups.restores[backups.pvcs[c]].foreign
    BY <2>2 DEF KC!RestoreLink
  <2>4. KC!Restored(backups.pvcs[c]) = snapshot[p]
    BY <2>3 DEF KC!Restored
  <2> QED
    BY <1>0, <1>4, <2>2, <2>4 DEF KC!BindRendered
<1>5. CASE KC!BindOperators(c) /\ ~KC!Unmatched(p, c)
  <2>1. c \notin DOMAIN backups.pvcs
    BY <1>5 DEF KC!BindOperators
  <2>2. KC!Direct(backups, p, c) # {} /\ \A s \in KC!Direct(backups, p, c) : ~backups.restores[s].foreign
    BY <1>3, <1>5, <2>1 DEF KC!PolicyOk, KC!Unmatched
  <2>3. PICK s \in DOMAIN backups.restores :
          backups.restores[s].target = c /\ backups.restores[s].policy = p /\ ~backups.restores[s].foreign
    BY <2>2 DEF KC!Direct
  <2>4. \A t \in DOMAIN backups.restores : backups.restores[t].target = c => t = s
    BY <1>0, <2>3, BackupAssumption
  <2>5. volume' = [volume EXCEPT ![c] = KC!Restored(s)]
    BY <1>5, <2>3, <2>4 DEF KC!BindOperators
  <2>6. KC!Restored(s) = snapshot[p]
    BY <2>3 DEF KC!Restored
  <2> QED
    BY <1>0, <2>5, <2>6
<1>6. CASE KC!Unmatched(p, c)
  BY <1>6
<1> QED
  BY <1>2, <1>4, <1>5, <1>6

LEMMA BackupSafe == SpecAll => []BackupInv
<1>1. InitAll => BackupInv
  BY BackupInit DEF InitAll
<1>2. BackupInv /\ [NextAll]_allVars => BackupInv'
  BY BackupSteps, BackupStep
<1> QED
  BY <1>1, <1>2, PTL DEF SpecAll

\* A patch changes only a volume that is selected and reviewed at that moment, and a claim
\* of a rebuilt cluster is bound to the snapshot of the policy that backs it up, unless an
\* operator makes it and either restores it by hand or has a Restore of another namespace's
\* policy, for any volumes and claims and any repository the validator accepts.
THEOREM StepsAreAsJudged == SpecAll => StepsAsJudged
<1>1. Edits \in Nat
  BY BoundsAssumption
<1>2. LHP!Spec => LHP!WritesAsJudged
  BY <1>1, LHP!WritesAreJudged
<1>3. LHP!WritesAsJudged <=> LH!WritesAsJudged
  BY DEF LH!Desired, LHP!Desired, LH!Targets, LHP!Targets, LH!WritesAsJudged, LHP!WritesAsJudged,
    LH!vars, LHP!vars, LH!pods, LHP!pods, LH!Conflicting, LHP!Conflicting, LH!Modes, LHP!Modes, LH!Absent, LHP!Absent
<1>4. BackupInv /\ [NextAll]_allVars =>
        [\A c \in Stored, p \in DOMAIN backups.policies :
           /\ KC!Backs(backups, p, c) /\ volume[c] = "unbound" /\ volume'[c] # "unbound"
           /\ snapshot[p] # "none"
           => volume'[c] = snapshot[p] \/ KC!Unmatched(p, c)]_(KC!vars)
  BY BackupSteps, BoundFromBackup
<1>5. SpecAll => KC!RestoredFromBackup
  BY <1>4, BackupSafe, PTL DEF SpecAll, KC!RestoredFromBackup
<1> QED
  BY <1>2, <1>3, <1>5, LonghornSpec, PTL DEF StepsAsJudged

-----------------------------------------------------------------------------
(* VpaPolicies *)

\* What is rendered was accepted, and is one of a key; a coverage exemption of a workload that is
\* rendered came with it or after it.
VpaInv ==
  /\ VP!TypeOK
  /\ DOMAIN vpas # {} => VP!Accepted(DOMAIN vpas)
  /\ VP!Unique(DOMAIN vpas)
  /\ VP!ExemptionsAreReviewed

LEMMA VpaInit == VP!Init => VpaInv
<1> SUFFICES ASSUME VP!Init PROVE VpaInv
  OBVIOUS
<1>1. DOMAIN vpas = {} /\ commit = 0 /\ Commits \in Nat
  BY BoundsAssumption DEF VP!Init
<1> QED
  BY <1>1 DEF VpaInv, VP!TypeOK, VP!Unique, VP!ExemptionsAreReviewed, VP!Kind

\* A workload with an exact coverage exemption of its key that was there before it was there before,
\* too: an exemption without a workload would be stale, and a workload without a namespace
\* is no reason to keep one for a workload with one.
LEMMA ExemptionMeansWorkload ==
  ASSUME VpaInv, NEW e \in DOMAIN vpas, NEW w \in Objects,
         e.is = "exempt", e.exact, e.list = "coverage", w.is = "workload", e.key = w.key
  PROVE  \E q \in DOMAIN vpas : VP!Same(q, w)
<1>1. DOMAIN vpas \subseteq Objects /\ ~VP!Stale(DOMAIN vpas)
  BY DEF VpaInv, VP!TypeOK, VP!Accepted
<1>2. VP!TargetExists(e.key, DOMAIN vpas)
  BY <1>1 DEF VP!Stale, VP!Kind
<1>3. PICK q \in DOMAIN vpas : q.is = "workload" /\ q.key.name = e.key.name /\ q.key.ns \in {"", e.key.ns}
  BY <1>2 DEF VP!TargetExists, VP!Kind
<1>4. q.key \in [ns : STRING, name : STRING] /\ w.key \in [ns : STRING, name : STRING]
  BY <1>1, VpaAssumption
<1>5. q.key.ns = w.key.ns
  <2>1. CASE q.key.ns = ""
    <3>1. q \in Objects /\ q.key.name = w.key.name
      BY <1>1, <1>3
    <3> QED
      BY <1>3, <2>1, <3>1, VpaAssumption
  <2>2. CASE q.key.ns = e.key.ns
    BY <2>2
  <2> QED
    BY <1>3, <2>1, <2>2
<1>6. q.key = w.key
  BY <1>3, <1>4, <1>5
<1> QED
  BY <1>3, <1>6 DEF VP!Same

\* A commit: what replaces an object of its kind and key takes its number over.
LEMMA CommitKeeps ==
  ASSUME VpaInv, NEW gone, NEW added \in SUBSET Objects, VP!Commit(gone, added)
  PROVE  VpaInv'
<1> DEFINE before == DOMAIN vpas
           after == (before \ gone) \cup added
           Earliest(o) == {vpas[p] : p \in {q \in before : VP!Same(q, o)}}
<1>1. /\ commit < Commits /\ commit' = commit + 1
      /\ VP!Unique(after) /\ VP!Accepted(after)
      /\ vpas' = [o \in after |-> IF Earliest(o) = {} THEN commit + 1 ELSE CHOOSE n \in Earliest(o) : TRUE]
  BY DEF VP!Commit
<1>2. /\ before \subseteq Objects /\ commit \in 0 .. Commits /\ Commits \in Nat
      /\ \A o \in before : vpas[o] \in 1 .. commit
  BY BoundsAssumption DEF VpaInv, VP!TypeOK
<1>3. DOMAIN vpas' = after
  BY <1>1
<1>4. after \subseteq Objects
  BY <1>2
<1>5. \A o \in after : (vpas'[o] = commit + 1 /\ Earliest(o) = {}) \/ vpas'[o] \in Earliest(o)
  BY <1>1
<1>6. \A o \in after : vpas'[o] \in 1 .. commit'
  <2> SUFFICES ASSUME NEW o \in after PROVE vpas'[o] \in 1 .. commit'
    OBVIOUS
  <2>1. CASE vpas'[o] = commit + 1
    BY <1>1, <1>2, <2>1
  <2>2. CASE vpas'[o] \in Earliest(o)
    <3>1. PICK p \in before : vpas'[o] = vpas[p]
      BY <2>2
    <3> QED
      BY <1>1, <1>2, <3>1
  <2> QED
    BY <1>5, <2>1, <2>2
<1>7. VP!TypeOK'
  BY <1>1, <1>2, <1>3, <1>4, <1>6 DEF VP!TypeOK
<1>8. ASSUME NEW e \in after, NEW w \in after, e.is = "exempt", w.is = "workload", e.exact,
             e.list = "coverage", e.key = w.key
      PROVE  vpas'[e] >= vpas'[w]
  <2>1. \A q \in before : VP!Same(q, e) => q.is = "exempt" /\ q.key = e.key /\ q.exact /\ q.list = "coverage"
    BY <1>2, <1>4, <1>8, VpaAssumption DEF VP!Same
  <2>2. CASE Earliest(w) = {}
    <3>1. \A q \in before : ~VP!Same(q, w)
      BY <2>2
    <3>2. \A q \in before : ~VP!Same(q, e)
      BY <1>4, <1>8, <2>1, <3>1, ExemptionMeansWorkload
    <3>3. Earliest(e) = {}
      BY <3>2
    <3>4. vpas'[e] = commit + 1 /\ vpas'[w] = commit + 1
      BY <1>5, <2>2, <3>3
    <3> QED
      BY <1>2, <3>4
  <2>3. CASE Earliest(w) # {}
    <3>1. PICK q \in before : VP!Same(q, w) /\ vpas'[w] = vpas[q]
      BY <1>5, <2>3
    <3>2. q.is = "workload" /\ q.key = e.key
      BY <1>8, <3>1 DEF VP!Same
    <3>3. CASE Earliest(e) = {}
      <4>1. vpas'[e] = commit + 1
        BY <1>5, <3>3
      <4> QED
        BY <1>2, <3>1, <4>1
    <3>4. CASE Earliest(e) # {}
      <4>1. PICK f \in before : VP!Same(f, e) /\ vpas'[e] = vpas[f]
        BY <1>5, <3>4
      <4>2. f.is = "exempt" /\ f.exact /\ f.list = "coverage" /\ f.key = q.key
        BY <2>1, <3>2, <4>1
      <4>3. vpas[f] >= vpas[q]
        BY <3>2, <4>2 DEF VpaInv, VP!ExemptionsAreReviewed, VP!Kind
      <4> QED
        BY <3>1, <4>1, <4>3
    <3> QED
      BY <3>3, <3>4
  <2> QED
    BY <2>2, <2>3
<1>9. VP!ExemptionsAreReviewed'
  BY <1>3, <1>8 DEF VP!ExemptionsAreReviewed, VP!Kind
<1>10. VP!Accepted(DOMAIN vpas)' /\ VP!Unique(DOMAIN vpas)'
  BY <1>1, <1>3 DEF VP!Accepted, VP!Unique
<1> QED
  BY <1>7, <1>9, <1>10 DEF VpaInv

LEMMA VpaStep == VpaInv /\ [VP!Next]_(VP!vars) => VpaInv'
<1> SUFFICES ASSUME VpaInv, [VP!Next]_(VP!vars) PROVE VpaInv'
  OBVIOUS
<1>1. CASE VP!Next
  <2>1. PICK gone \in VP!Small(DOMAIN vpas), added \in VP!Small(Objects) : VP!Commit(gone, added)
    BY <1>1 DEF VP!Next
  <2>2. added \in SUBSET Objects
    BY DEF VP!Small
  <2> QED
    BY <2>1, <2>2, CommitKeeps
<1>2. CASE UNCHANGED VP!vars
  <2>1. vpas' = vpas /\ commit' = commit
    BY <1>2 DEF VP!vars
  <2> QED
    BY <2>1 DEF VpaInv, VP!TypeOK, VP!Accepted, VP!Unique, VP!ExemptionsAreReviewed, VP!Kind
<1> QED
  BY <1>1, <1>2

\* The CPU that a scaler rendered with its namespace measures is not moved by a VPA with a
\* policy for the container.
LEMMA ContractKept == VpaInv => VP!ContractWhereRendered
<1> SUFFICES ASSUME VpaInv, NEW w \in DOMAIN vpas, NEW v \in DOMAIN vpas, NEW h \in DOMAIN vpas,
                    v.is = "vpa", h.is = "hpa", NEW c,
                    VP!Both(v, h, w, c), h.key = v.key, VP!PolicyOf(v, c) # {}
             PROVE  FALSE
  BY DEF VP!ContractWhereRendered, VP!Kind
<1>1. ~VP!Steered(DOMAIN vpas)
  BY DEF VpaInv, VP!Accepted
<1>2. v.key \in VP!HpaCpuTargets(DOMAIN vpas)
  BY DEF VP!HpaCpuTargets, VP!Kind
<1>3. ~VP!CpuControlled(v)
  BY <1>1, <1>2 DEF VP!Steered, VP!Kind
<1>4. PICK p \in VP!PolicyOf(v, c) : ~p.off /\ "cpu" \in p.resources
  BY DEF VP!Both, VP!SteersCpu
<1>5. p \in v.policies
  BY <1>4 DEF VP!PolicyOf
<1> QED
  BY <1>3, <1>4, <1>5 DEF VP!CpuControlled, VP!Controlling

LEMMA VpaSafe == SpecAll => [](VP!TypeOK /\ VP!ContractWhereRendered /\ VP!ExemptionsAreReviewed)
<1>1. InitAll => VpaInv
  BY VpaInit DEF InitAll
<1>2. VpaInv /\ [NextAll]_allVars => VpaInv'
  BY VpaSteps, VpaStep
<1>3. VpaInv => VP!TypeOK /\ VP!ContractWhereRendered /\ VP!ExemptionsAreReviewed
  BY ContractKept DEF VpaInv
<1> QED
  BY <1>1, <1>2, <1>3, PTL DEF SpecAll

\* Whatever sequence of commits the validator accepts, a rendered scaler's CPU is not moved
\* by a policy, and an exact coverage exemption is not older than the workload it exempts.
THEOREM PoliciesAreReviewed == SpecAll => []PoliciesReviewed
<1>1. VP!TypeOK /\ VP!ContractWhereRendered /\ VP!ExemptionsAreReviewed => PoliciesReviewed
  BY DEF PoliciesReviewed
<1> QED
  BY <1>1, VpaSafe, PTL

-----------------------------------------------------------------------------
(* Machine templates *)

\* Machines keep to the template, two replicas to different zones.
ZonesApart ==
  /\ template = NoTemplate \/ Accepted(template)
  /\ \A n \in nodes : n.host = Host(n.set, n.number)
  /\ \A r, q \in replicas : r # q => r.set.zone # q.set.zone
  /\ \A r \in replicas : "wired-storage" \in r.set.tags

OmniInv == TypeOK /\ ZonesApart

LEMMA EqualPairs ==
  ASSUME NEW a, NEW b, NEW c, NEW d, <<a, b>> = <<c, d>> PROVE a = c /\ b = d
<1>1. <<a, b>>[1] = a /\ <<a, b>>[2] = b /\ <<c, d>>[1] = c /\ <<c, d>>[2] = d
  OBVIOUS
<1> QED
  BY <1>1

LEMMA SizesAreNumbers == template \in Templates \cup {NoTemplate} => \A s \in template.sets : s.size \in Nat
  BY OmniAssumption DEF NoTemplate

\* Replicas in different zones are on different hosts: providers have one zone, bare-metal
\* machines are hosts of their own.
LEMMA ZonesMeanHosts == OmniInv => HostsApart
<1> SUFFICES ASSUME OmniInv,
                    NEW r \in replicas, NEW q \in replicas, r # q, r.host = q.host
             PROVE  FALSE
  BY DEF HostsApart
<1>1. /\ r.set \in template.sets /\ r.host = Host(r.set, r.number) /\ r.number \in 1 .. r.set.size
      /\ q.set \in template.sets /\ q.host = Host(q.set, q.number) /\ q.number \in 1 .. q.set.size
      /\ r.set.zone # q.set.zone
  BY DEF OmniInv, TypeOK, ZonesApart
<1>2. Accepted(template)
  BY <1>1 DEF OmniInv, ZonesApart, NoTemplate
<1>3. r.number # 0 /\ q.number # 0
  <2>1. r.set.size \in Nat /\ q.set.size \in Nat
    BY <1>1, SizesAreNumbers DEF OmniInv, TypeOK
  <2> QED
    BY <1>1, <2>1
<1>4. CASE r.set.from = "class" /\ q.set.from = "class"
  <2>1. Classes[r.set.class].provider = Classes[q.set.class].provider
    <3>1. <<Classes[r.set.class].provider, 0>> = <<Classes[q.set.class].provider, 0>>
      BY <1>1, <1>4 DEF Host
    <3> QED
      BY <3>1, EqualPairs
  <2> QED
    BY <1>1, <1>2, <1>4, <2>1 DEF Accepted, OneZone
<1>5. CASE r.set.from # "class" /\ q.set.from # "class"
  <2>1. r.set.id = q.set.id
    <3>1. <<r.set.id, r.number>> = <<q.set.id, q.number>>
      BY <1>1, <1>5 DEF Host
    <3> QED
      BY <3>1, EqualPairs
  <2> QED
    BY <1>1, <1>2, <2>1 DEF Accepted
<1>6. CASE r.set.from = "class" /\ q.set.from # "class"
  <2>1. <<Classes[r.set.class].provider, 0>> = <<q.set.id, q.number>>
    BY <1>1, <1>6 DEF Host
  <2> QED
    BY <1>3, <2>1, EqualPairs
<1>7. CASE r.set.from # "class" /\ q.set.from = "class"
  <2>1. <<r.set.id, r.number>> = <<Classes[q.set.class].provider, 0>>
    BY <1>1, <1>7 DEF Host
  <2> QED
    BY <1>3, <2>1, EqualPairs
<1> QED
  BY <1>4, <1>5, <1>6, <1>7

\* validate() refuses the tag that would let a replica behind a provider's Wi-Fi.
LEMMA TagsMeanWired == OmniInv => ReplicasWired
<1> SUFFICES ASSUME OmniInv, NEW r \in replicas, r.set.from = "class"
             PROVE  r.set.link # "wifi"
  BY DEF ReplicasWired
<1>1. r.set \in template.sets /\ "wired-storage" \in r.set.tags
  BY DEF OmniInv, TypeOK, ZonesApart
<1>2. Accepted(template)
  BY <1>1 DEF OmniInv, ZonesApart, NoTemplate
<1> QED
  BY <1>1, <1>2 DEF Accepted, ClassOk, WifiOk

LEMMA OmniStep == OmniInv /\ [Next]_vars => OmniInv'
<1> SUFFICES ASSUME OmniInv, [Next]_vars PROVE OmniInv'
  OBVIOUS
<1>0. /\ template \in Templates \cup {NoTemplate}
      /\ \A n \in nodes : n.set \in template.sets /\ n.number \in 1 .. n.set.size /\ n.host = Host(n.set, n.number)
      /\ replicas \subseteq nodes
  BY DEF OmniInv, TypeOK, ZonesApart
<1>1. CASE Apply
  <2>1. nodes = {} /\ replicas = {}
    BY <1>0, <1>1 DEF Apply, NoTemplate
  <2>2. nodes' = {} /\ replicas' = {} /\ template' \in Templates /\ Accepted(template')
    BY <1>1, <2>1 DEF Apply
  <2> QED
    BY <2>2 DEF OmniInv, TypeOK, ZonesApart, Accepted, OneZone
<1>2. CASE Join
  <2>1. PICK s \in template.sets : \E i \in 1 .. s.size :
          nodes' = nodes \cup {[set |-> s, number |-> i, host |-> Host(s, i)]}
    BY <1>2 DEF Join
  <2>2. PICK i \in 1 .. s.size :
          nodes' = nodes \cup {[set |-> s, number |-> i, host |-> Host(s, i)]}
    BY <2>1
  <2>3. template' = template /\ replicas' = replicas
    BY <1>2 DEF Join
  <2>4. TypeOK'
    BY <1>0, <2>2, <2>3 DEF TypeOK
  <2>5. ZonesApart'
    BY <2>2, <2>3 DEF OmniInv, ZonesApart, Host, Accepted, OneZone
  <2> QED
    BY <2>4, <2>5 DEF OmniInv
<1>3. CASE Leave
  <2>1. template' = template /\ nodes' \subseteq nodes /\ replicas' \subseteq replicas /\ replicas' \subseteq nodes'
    BY <1>0, <1>3 DEF Leave
  <2>2. TypeOK'
    BY <1>0, <2>1 DEF TypeOK
  <2>3. ZonesApart'
    BY <2>1 DEF OmniInv, ZonesApart, Host, Accepted, OneZone
  <2> QED
    BY <2>2, <2>3 DEF OmniInv
<1>4. CASE Place
  <2>1. PICK n \in nodes \ replicas :
          /\ "wired-storage" \in n.set.tags
          /\ \A r \in replicas : r.set.zone # n.set.zone
          /\ replicas' = replicas \cup {n}
    BY <1>4 DEF Place
  <2>2. template' = template /\ nodes' = nodes
    BY <1>4 DEF Place
  <2>3. TypeOK'
    BY <1>0, <2>1, <2>2 DEF TypeOK
  <2>4. ZonesApart'
    BY <2>1, <2>2 DEF OmniInv, ZonesApart, Host, Accepted, OneZone
  <2> QED
    BY <2>3, <2>4 DEF OmniInv
<1>5. CASE UNCHANGED vars
  BY <1>5 DEF vars, OmniInv, TypeOK, ZonesApart, Host, Accepted, OneZone
<1> QED
  BY <1>1, <1>2, <1>3, <1>4, <1>5 DEF Next

LEMMA OmniSafe == SpecAll => [](TypeOK /\ HostsApart /\ ReplicasWired)
<1>1. InitAll => OmniInv
  BY DEF InitAll, Init, OmniInv, TypeOK, ZonesApart, NoTemplate
<1>2. OmniInv /\ [NextAll]_allVars => OmniInv'
  BY OmniSteps, OmniStep
<1>3. OmniInv => TypeOK /\ HostsApart /\ ReplicasWired
  BY ZonesMeanHosts, TagsMeanWired DEF OmniInv
<1> QED
  BY <1>1, <1>2, <1>3, PTL DEF SpecAll

-----------------------------------------------------------------------------
(* The agent's guard *)

AgentInv == AG!TypeOK /\ AG!NoDefaultWritten

\* The instances' cardinality is the library's.
LEMMA SameCardinality == \A S : AG!Cardinality(S) = Cardinality(S) /\ SE!Cardinality(S) = Cardinality(S)
  BY DEF AG!Cardinality, SE!Cardinality, Cardinality

\* What the guard lets through writes no protected branch, or it is overlooked.
LEMMA AllowedWritesNothing ==
  ASSUME NEW r, NEW g, ~AG!Denies(r, g), g.op \in {"commit", "push"}, g.values \in Nat,
         NEW b \in AG!Wrote(r, g), b \in AG!Protected(r)
  PROVE  AG!Overlooked(r, g)
<1>1. r.branch # AG!Unset /\ r.branch \notin AG!Protected(r)
  BY DEF AG!Denies
<1>2. g.op = "push" /\ b \in AG!Pushed(r, g)
  BY <1>1 DEF AG!Wrote
<1>3. /\ g.flags \cap AG!Bulk = {}
      /\ \A ref \in AG!Named(g) : ref \notin AG!Protected(r) /\ ref # AG!AllRefs
      /\ r.push \notin AG!Protected(r) /\ r.push # AG!AllRefs
      /\ ~AG!Implicit(r, g)
  BY <1>2 DEF AG!Denies, AG!DeniesPush, AG!UnsafeRef
<1>4. CASE AG!Named(g) # {}
  <2>1. b \in UNION {AG!Dst(r, ref) : ref \in g.refs} \/ b \in UNION {AG!BareDst(r, ref) : ref \in g.bare}
    <3> DEFINE out == (UNION {AG!Dst(r, ref) : ref \in g.refs}) \cup (UNION {AG!BareDst(r, ref) : ref \in g.bare})
    <3>1. AG!Pushed(r, g) = {} \/ AG!Pushed(r, g) = out
      BY <1>4 DEF AG!Pushed
    <3>2. b \in out
      <4> HIDE DEF out
      <4> QED
        BY <1>2, <3>1
    <3> QED
      BY <3>2
  <2>2. SUFFICES ASSUME AG!Matching \notin AG!Named(g) PROVE AG!Overlooked(r, g)
    BY <1>2 DEF AG!Overlooked
  <2>3. \A ref \in AG!Named(g) : AG!Dst(r, ref) = {ref}
    BY <1>3, <2>2 DEF AG!Dst
  <2>4. b \notin UNION {AG!Dst(r, ref) : ref \in g.refs}
    BY <1>3, <2>3 DEF AG!Named
  <2>5. PICK ref \in g.bare : b \in AG!BareDst(r, ref)
    BY <2>1, <2>4
  <2>6. ref \in AG!Named(g)
    BY DEF AG!Named
  <2>7. r.mode \in AG!Upstreams /\ b = AG!Upstream(r, ref)
    BY <1>1, <1>3, <2>3, <2>5, <2>6 DEF AG!BareDst
  <2> QED
    BY <1>2, <2>7 DEF AG!Overlooked
<1>5. CASE AG!Named(g) = {}
  <2>1. CASE g.flags \cap AG!GitBulk # {}
    <3>1. g.flags \cap (AG!GitBulk \ AG!Bulk) # {}
      BY <1>3, <2>1
    <3> QED
      BY <1>2, <1>5, <3>1 DEF AG!Overlooked
  <2>2. CASE g.flags \cap AG!GitBulk = {}
    <3>1. b \in AG!Default(r)
      BY <1>2, <1>5, <2>2 DEF AG!Pushed
    <3>2. SUFFICES ASSUME ~r.mirror, r.push # AG!Matching PROVE AG!Overlooked(r, g)
      BY <1>2, <1>5 DEF AG!Overlooked
    <3>3. r.push = AG!Unset
      BY <1>3, <3>1, <3>2 DEF AG!Default
    <3>4. r.mode = "matching" \/ (r.mode \in AG!Upstreams /\ b = AG!Upstream(r, r.branch))
      BY <1>1, <3>1, <3>2, <3>3 DEF AG!Default, AG!Upstreams, AG!Unset, AG!AllRefs, AG!Matching
    <3>5. CASE r.mode = "tracking"
      BY <1>2, <1>5, <3>4, <3>5 DEF AG!Overlooked
    <3>6. CASE r.mode # "tracking"
      <4>1. AG!Unclear(r)
        BY <3>4, <3>6 DEF AG!Unclear, AG!Upstreams, AG!UnsafeRef
      <4>2. AG!Cardinality(g.refs) = 0 /\ AG!Cardinality(g.bare) = 0
        BY <1>5, FS_EmptySet, SameCardinality DEF AG!Named
      <4>3. g.values > 0
        BY <1>3, <4>1, <4>2 DEF AG!Implicit
      <4> QED
        BY <1>2, <1>5, <4>1, <4>3 DEF AG!Overlooked
    <3> QED
      BY <3>5, <3>6
  <2> QED
    BY <2>1, <2>2
<1> QED
  BY <1>4, <1>5

LEMMA AgentStep == AgentInv /\ [AG!Next]_(AG!vars) => AgentInv'
<1> SUFFICES ASSUME AgentInv, [AG!Next]_(AG!vars) PROVE AgentInv'
  OBVIOUS
<1>1. ASSUME NEW d \in Dirs, AG!Change(d) PROVE AgentInv'
  BY <1>1 DEF AgentInv, AG!TypeOK, AG!NoDefaultWritten, AG!Change
<1>2. ASSUME NEW cmd \in Commands, AG!Run(cmd) PROVE AgentInv'
  <2>1. checkout' = checkout
    BY <1>2 DEF AG!Run
  <2>2. \A k \in AG!Gits(cmd) : ~AG!Denies(checkout[AG!Where(cmd, k)], cmd[k])
    BY <1>2 DEF AG!Run, AG!Allowed
  <2>3. \A k \in AG!Gits(cmd) : cmd[k].op \in {"commit", "push"} /\ cmd[k].values \in Nat
    BY AgentAssumption DEF AG!Gits
  <2>4. ASSUME NEW w \in damage' PROVE w.by.op \in {"commit", "push"} /\ AG!Overlooked(w.at, w.by)
    <3>1. PICK k \in AG!Gits(cmd) :
            /\ w = [at |-> checkout[AG!Where(cmd, k)], by |-> cmd[k]]
            /\ AG!Wrote(checkout[AG!Where(cmd, k)], cmd[k]) \cap AG!Protected(checkout[AG!Where(cmd, k)]) # {}
      BY <1>2 DEF AG!Run
    <3>2. PICK b \in AG!Wrote(checkout[AG!Where(cmd, k)], cmd[k]) : b \in AG!Protected(checkout[AG!Where(cmd, k)])
      BY <3>1
    <3> QED
      BY <2>2, <2>3, <3>1, <3>2, AllowedWritesNothing
  <2> QED
    BY <2>1, <2>4 DEF AgentInv, AG!TypeOK, AG!NoDefaultWritten
<1>3. CASE UNCHANGED AG!vars
  BY <1>3 DEF AG!vars, AgentInv, AG!TypeOK, AG!NoDefaultWritten
<1> QED
  BY <1>1, <1>2, <1>3 DEF AG!Next

\* What names one branch of the checkout's own, that is not protected, passes.
LEMMA FeaturesPass == AG!FeaturePushPasses
<1> SUFFICES ASSUME NEW cmd \in Commands, NEW k \in AG!Gits(cmd),
                    AG!Gits(cmd) = {k}, cmd[k].op = "push", cmd[k].remote, cmd[k].flags = {},
                    AG!Named(cmd[k]) = {checkout[AG!Where(cmd, k)].branch},
                    checkout[AG!Where(cmd, k)].branch \notin AG!Protected(checkout[AG!Where(cmd, k)]) \cup {AG!Unset, AG!AllRefs},
                    ~AG!UnsafeRef(checkout[AG!Where(cmd, k)].push, AG!Protected(checkout[AG!Where(cmd, k)]))
             PROVE  AG!Allowed(cmd)
  BY DEF AG!FeaturePushPasses
<1> DEFINE r == checkout[AG!Where(cmd, k)]
           g == cmd[k]
<1> HIDE DEF r, g
<1>0. /\ AG!Gits(cmd) = {k} /\ g.op = "push" /\ g.remote /\ g.flags = {} /\ AG!Named(g) = {r.branch}
      /\ r.branch \notin AG!Protected(r) /\ r.branch # AG!Unset /\ r.branch # AG!AllRefs
      /\ ~AG!UnsafeRef(r.push, AG!Protected(r))
  BY DEF r, g
<1>1. AG!Cardinality(g.refs) + AG!Cardinality(g.bare) \in {1, 2}
  <2>1. Cardinality({r.branch}) = 1 /\ Cardinality({}) = 0
    BY FS_Singleton, FS_EmptySet
  <2>2. g.refs \in {{}, {r.branch}} /\ g.bare \in {{}, {r.branch}} /\ ~(g.refs = {} /\ g.bare = {})
    BY <1>0 DEF AG!Named
  <2> QED
    BY <2>1, <2>2, SameCardinality
<1>2. ~AG!Implicit(r, g)
  <2>1. g.values \in Nat
    BY AgentAssumption DEF AG!Gits, g
  <2>2. AG!Cardinality(g.refs) \in {0, 1} /\ AG!Cardinality(g.bare) \in {0, 1}
    <3>1. g.refs \in {{}, {r.branch}} /\ g.bare \in {{}, {r.branch}}
      BY <1>0 DEF AG!Named
    <3>2. Cardinality({r.branch}) = 1 /\ Cardinality({}) = 0
      BY FS_Singleton, FS_EmptySet
    <3> QED
      BY <3>1, <3>2, SameCardinality
  <2> QED
    BY <1>0, <1>1, <2>1, <2>2 DEF AG!Implicit
<1>3. ~AG!DeniesPush(r, g)
  BY <1>0, <1>2 DEF AG!DeniesPush, AG!UnsafeRef
<1>4. ~AG!Denies(r, g)
  BY <1>0, <1>3 DEF AG!Denies
<1> QED
  BY <1>0, <1>4 DEF AG!Allowed, r, g

LEMMA AgentSafe == SpecAll => [](AG!TypeOK /\ AG!NoDefaultWritten)
<1>1. InitAll => AgentInv
  <2>1. \A d \in Dirs : (CHOOSE c \in Config[d] : c.branch = "topic" /\ c.push = AG!Unset) \in Config[d]
    BY AgentAssumption
  <2> QED
    BY <2>1 DEF InitAll, AG!Init, AgentInv, AG!TypeOK, AG!NoDefaultWritten
<1>2. AgentInv /\ [NextAll]_allVars => AgentInv'
  BY AgentSteps, AgentStep
<1> QED
  BY <1>1, <1>2, PTL DEF SpecAll, AgentInv

\* Whatever template validate() accepts and whatever machines join, leave and are placed
\* on in whatever order, no host holds two replicas of a volume, and none is behind a
\* provider's Wi-Fi; whatever the checkouts' configuration has become, what the guard lets
\* through writes no default branch but where it overlooks how git reads the command or the
\* configuration, and a feature branch by its name passes.
THEOREM GuardsAreExact == SpecAll => []GuardsExact
<1>1. (HostsApart /\ ReplicasWired) /\ AG!NoDefaultWritten => GuardsExact
  BY FeaturesPass DEF GuardsExact
<1> QED
  BY <1>1, OmniSafe, AgentSafe, PTL

-----------------------------------------------------------------------------
(* Storage evidence *)

\* What a cluster is: its claims' volumes, its nodes and the volumes' replicas.
Placings == UNION {[vs -> SUBSET Hosts] : vs \in SUBSET SE!Handles}
Bindings == [Bindable -> DOMAIN PVs \cup {"none"}]
Clusters == [bound : Bindings, nodes : SUBSET Hosts, replicas : Placings]

\* The k-th query's answer in state s.
Answer(s, k) ==
  CASE k = 1 -> s.nodes
    [] k = 2 -> s.bound
    [] k = 3 -> DOMAIN PVs
    [] k = 4 -> DOMAIN s.replicas
    [] k = 5 -> s.replicas

Results ==
  [status : {"collected"}, data : (SUBSET Hosts) \cup Bindings \cup {DOMAIN PVs} \cup (SUBSET SE!Handles) \cup Placings]
  \cup [status : {"unavailable"}]

Summary == [claims |-> [c \in DOMAIN SE!Items(2) |-> SE!Record(c)], partial |-> SE!Partial, saw |-> raw[5]]

\* What was collected was so in some state since the collection began, and the report is
\* made of it.
EvidenceInv ==
  /\ SE!Now \in Clusters /\ SE!Now \in since /\ since \subseteq Clusters
  /\ raw \in Seq(Results) /\ Len(raw) <= 5 /\ moves \in 0 .. MaxMoves
  /\ \A k \in 1 .. Len(raw) : raw[k].status = "collected" => \E s \in since : raw[k].data = Answer(s, k)
  /\ report # <<>> => Len(raw) = 5 /\ report = Summary

LEMMA ClusterFields ==
  /\ \A s \in Clusters : s.bound \in Bindings /\ s.nodes \subseteq Hosts /\ s.replicas \in Placings
  /\ \A f \in Placings : DOMAIN f \subseteq SE!Handles /\ \A v \in DOMAIN f : f[v] \subseteq Hosts
  /\ \A vs \in SUBSET SE!Handles : \A f \in [vs -> SUBSET Hosts] : f \in Placings
  BY DEF Clusters, Placings

LEMMA EvidenceInit == SE!Init => EvidenceInv
<1> SUFFICES ASSUME SE!Init PROVE EvidenceInv
  OBVIOUS
<1>1. copies \in Placings
  <2>1. copies = <<>> /\ copies \in [{} -> SUBSET Hosts]
    BY DEF SE!Init
  <2> QED
    BY <2>1 DEF Placings
<1>2. bound \in Bindings /\ present \in SUBSET Hosts
  BY DEF SE!Init, Bindings
<1>3. SE!Now \in Clusters
  BY <1>1, <1>2 DEF SE!Now, Clusters
<1>4. raw = <<>> /\ report = <<>> /\ since = {SE!Now} /\ moves = 0
  BY DEF SE!Init
<1> QED
  BY <1>3, <1>4, BoundsAssumption DEF EvidenceInv

\* The report is made of the results alone.
LEMMA SummaryOfRaw == ASSUME raw' = raw PROVE Summary' = Summary
<1>1. \A k : SE!Items(k)' = SE!Items(k) /\ SE!SetItems(k)' = SE!SetItems(k)
  BY DEF SE!Items, SE!SetItems
<1>2. \A c : SE!Handle(c)' = SE!Handle(c)
  BY <1>1 DEF SE!Handle
<1>3. \A v : SE!Placement(v)' = SE!Placement(v)
  BY <1>1 DEF SE!Placement
<1>4. \A c : SE!Record(c)' = SE!Record(c)
  BY <1>1, <1>2, <1>3 DEF SE!Record
<1>5. SE!Partial' = SE!Partial
  BY DEF SE!Partial
<1> QED
  BY <1>1, <1>4, <1>5 DEF Summary

LEMMA BelowFive == \A n \in Nat : n < 5 => n \in 0 .. 4 /\ n \in {0, 1, 2, 3, 4} /\ n + 1 \in {1, 2, 3, 4, 5}
  OBVIOUS

LEMMA QueryKeeps == ASSUME EvidenceInv, SE!Query PROVE EvidenceInv'
<1>a. /\ Len(raw) < 5
      /\ bound' = bound /\ present' = present /\ copies' = copies
      /\ report' = report /\ since' = since /\ moves' = moves
  BY DEF SE!Query, SE!cluster
<1>b. raw \in Seq(Results)
  BY DEF EvidenceInv
<1>c. Len(raw) \in 0 .. 4 /\ Len(raw) + 1 \in {1, 2, 3, 4, 5}
  <2>1. Len(raw) \in Nat
    BY <1>b
  <2>2. Len(raw) < 5
    BY <1>a
  <2> QED
    BY <2>1, <2>2, BelowFive
<1>1. /\ Len(raw) < 5 /\ raw \in Seq(Results) /\ Len(raw) \in 0 .. 4
      /\ bound' = bound /\ present' = present /\ copies' = copies
      /\ report' = report /\ since' = since /\ moves' = moves
  BY <1>a, <1>b, <1>c
<1>2. PICK x \in Results : raw' = Append(raw, x) /\ (x.status = "collected" => x.data = Answer(SE!Now, Len(raw) + 1))
  <2>1. CASE raw' = Append(raw, [status |-> "collected", data |-> SE!Seen(SE!Queries[Len(raw) + 1])])
    <3>1. Len(raw) + 1 \in {1, 2, 3, 4, 5}
      BY <1>c
    <3>2. SE!Seen(SE!Queries[Len(raw) + 1]) = Answer(SE!Now, Len(raw) + 1)
      <4>1. CASE Len(raw) + 1 = 1
        BY <4>1 DEF SE!Seen, SE!Queries, Answer, SE!Now
      <4>2. CASE Len(raw) + 1 = 2
        BY <4>2 DEF SE!Seen, SE!Queries, Answer, SE!Now
      <4>3. CASE Len(raw) + 1 = 3
        BY <4>3 DEF SE!Seen, SE!Queries, Answer, SE!Now
      <4>4. CASE Len(raw) + 1 = 4
        BY <4>4 DEF SE!Seen, SE!Queries, Answer, SE!Now
      <4>5. CASE Len(raw) + 1 = 5
        BY <4>5 DEF SE!Seen, SE!Queries, Answer, SE!Now
      <4> QED
        BY <3>1, <4>1, <4>2, <4>3, <4>4, <4>5
    <3>3. Answer(SE!Now, Len(raw) + 1) \in (SUBSET Hosts) \cup Bindings \cup {DOMAIN PVs} \cup (SUBSET SE!Handles) \cup Placings
      BY <3>1, ClusterFields DEF Answer, EvidenceInv
    <3> QED
      BY <2>1, <3>2, <3>3 DEF Results
  <2>2. CASE raw' = Append(raw, [status |-> "unavailable"])
    <3>1. [status |-> "unavailable"] \in Results
      BY DEF Results
    <3> QED
      BY <2>2, <3>1
  <2> QED
    BY <2>1, <2>2 DEF SE!Query
<1>3. raw' \in Seq(Results) /\ Len(raw') = Len(raw) + 1 /\ Len(raw') <= 5
  BY <1>1, <1>2
<1>4. \A k \in 1 .. Len(raw') : raw'[k].status = "collected" => \E s \in since : raw'[k].data = Answer(s, k)
  <2> SUFFICES ASSUME NEW k \in 1 .. Len(raw'), raw'[k].status = "collected"
               PROVE  \E s \in since : raw'[k].data = Answer(s, k)
    OBVIOUS
  <2>1. CASE k \in 1 .. Len(raw)
    <3>1. raw'[k] = raw[k]
      BY <1>1, <1>2, <2>1
    <3> QED
      BY <2>1, <3>1 DEF EvidenceInv
  <2>2. CASE k = Len(raw) + 1
    <3>1. raw'[k] = x
      BY <1>1, <1>2, <2>2
    <3> QED
      BY <1>2, <2>2, <3>1 DEF EvidenceInv
  <2> QED
    BY <1>1, <1>3, <2>1, <2>2
<1>5. report = <<>>
  BY <1>1 DEF EvidenceInv
<1>6. SE!Now' = SE!Now
  BY <1>1 DEF SE!Now
<1> QED
  BY <1>1, <1>3, <1>4, <1>5, <1>6 DEF EvidenceInv, Answer

LEMMA SummarizeKeeps == ASSUME EvidenceInv, SE!Summarize PROVE EvidenceInv'
<1>1. /\ Len(raw) = 5 /\ report' = Summary /\ raw' = raw
      /\ bound' = bound /\ present' = present /\ copies' = copies
      /\ since' = since /\ moves' = moves
  BY DEF SE!Summarize, SE!cluster, Summary
<1>2. SE!Now' = SE!Now
  BY <1>1 DEF SE!Now
<1>3. Summary' = Summary
  BY <1>1, SummaryOfRaw
<1> QED
  BY <1>1, <1>2, <1>3 DEF EvidenceInv, Answer

LEMMA ChangeKeeps == ASSUME EvidenceInv, SE!Change PROVE EvidenceInv'
<1>1. /\ raw' = raw /\ report' = report
      /\ since' = IF raw = <<>> THEN {SE!Now'} ELSE since \cup {SE!Now'}
      /\ moves' = IF raw = <<>> THEN 0 ELSE moves + 1
      /\ raw = <<>> \/ (moves < MaxMoves /\ Len(raw) < 5)
  BY DEF SE!Change
<1>2. bound \in Bindings /\ present \subseteq Hosts /\ copies \in Placings
  BY ClusterFields DEF EvidenceInv, SE!Now
<1>3. bound' \in Bindings /\ present' \in SUBSET Hosts /\ copies' \in Placings
  <2>1. CASE \E c \in Bindable : bound' \in {[bound EXCEPT ![c] = p] : p \in DOMAIN PVs \cup {"none"}} /\ UNCHANGED <<present, copies>>
    BY <1>2, <2>1 DEF Bindings
  <2>2. CASE present' \in {present \cup {n} : n \in Hosts} \cup {present \ {n} : n \in Hosts} /\ UNCHANGED <<bound, copies>>
    BY <1>2, <2>2
  <2>3. ASSUME NEW v \in SE!Handles, UNCHANGED <<bound, present>>,
               IF v \in DOMAIN copies
                 THEN copies' \in {[copies EXCEPT ![v] = @ \cup {n}] : n \in present} \cup {[copies EXCEPT ![v] = @ \ {n}] : n \in Hosts}
                                  \cup {SE!Restrict(copies, DOMAIN copies \ {v})}
                 ELSE copies' = [w \in DOMAIN copies \cup {v} |-> IF w = v THEN {} ELSE copies[w]]
        PROVE  bound' \in Bindings /\ present' \in SUBSET Hosts /\ copies' \in Placings
    <3>1. PICK vs \in SUBSET SE!Handles : copies \in [vs -> SUBSET Hosts]
      BY <1>2 DEF Placings
    <3>2. CASE v \notin DOMAIN copies
      <4>1. copies' \in [vs \cup {v} -> SUBSET Hosts]
        BY <2>3, <3>1, <3>2
      <4> QED
        BY <1>2, <2>3, <4>1, ClusterFields
    <3>3. ASSUME v \in DOMAIN copies, NEW n \in present, copies' = [copies EXCEPT ![v] = @ \cup {n}] PROVE copies' \in Placings
      <4>1. copies' \in [vs -> SUBSET Hosts]
        BY <1>2, <3>1, <3>3
      <4> QED
        BY <4>1, ClusterFields
    <3>4. ASSUME v \in DOMAIN copies, NEW n \in Hosts, copies' = [copies EXCEPT ![v] = @ \ {n}] PROVE copies' \in Placings
      <4>1. copies' \in [vs -> SUBSET Hosts]
        BY <3>1, <3>4
      <4> QED
        BY <4>1, ClusterFields
    <3>5. CASE copies' = SE!Restrict(copies, DOMAIN copies \ {v})
      <4>1. copies' \in [vs \ {v} -> SUBSET Hosts]
        BY <3>1, <3>5 DEF SE!Restrict
      <4>2. vs \ {v} \in SUBSET SE!Handles
        OBVIOUS
      <4> QED
        BY <1>2, <2>3, <4>1, <4>2, ClusterFields
    <3> QED
      BY <1>2, <2>3, <3>2, <3>3, <3>4, <3>5
  <2> QED
    BY <2>1, <2>2, <2>3 DEF SE!Change
<1>4. SE!Now' \in Clusters
  BY <1>3 DEF SE!Now, Clusters
<1>5. SE!Now' \in since' /\ since' \subseteq Clusters
  BY <1>1, <1>4 DEF EvidenceInv
<1>6. Len(raw') <= 5 /\ raw' \in Seq(Results) /\ report' = <<>>
  BY <1>1 DEF EvidenceInv
<1>7. moves' \in 0 .. MaxMoves
  BY <1>1, BoundsAssumption DEF EvidenceInv
<1>8. \A k \in 1 .. Len(raw') : raw'[k].status = "collected" => \E s \in since' : raw'[k].data = Answer(s, k)
  BY <1>1 DEF EvidenceInv
<1> QED
  BY <1>4, <1>5, <1>6, <1>7, <1>8 DEF EvidenceInv, Answer

LEMMA EvidenceStep == EvidenceInv /\ [SE!Next]_(SE!vars) => EvidenceInv'
<1> SUFFICES ASSUME EvidenceInv, [SE!Next]_(SE!vars) PROVE EvidenceInv'
  OBVIOUS
<1>1. CASE UNCHANGED SE!vars
  <2>1. /\ bound' = bound /\ present' = present /\ copies' = copies
        /\ raw' = raw /\ report' = report /\ since' = since /\ moves' = moves
    BY <1>1 DEF SE!vars, SE!cluster
  <2> QED
    BY <2>1, SummaryOfRaw DEF EvidenceInv, SE!Now, Answer
<1> QED
  BY <1>1, QueryKeeps, SummarizeKeeps, ChangeKeeps DEF SE!Next

\* The claim's volume as the report takes it: from the claims' query, by a persistent volume
\* that Longhorn made.
LEMMA HandleSeen ==
  ASSUME EvidenceInv, report # <<>>, NEW c \in DOMAIN SE!Items(2)
  PROVE  \E s \in since : /\ raw[2].data = s.bound /\ c \in Bindable
                          /\ SE!Items(2) = s.bound
                          /\ raw[3].status = "collected" => SE!Handle(c) = SE!Volume(s, c)
                          /\ SE!Handle(c) \in {SE!Volume(s, c), "none"}
<1>1. Len(raw) = 5 /\ raw[2].status = "collected"
  BY DEF EvidenceInv, SE!Items
<1>2. PICK s \in since : raw[2].data = s.bound
  BY <1>1 DEF EvidenceInv, Answer
<1>3. s.bound \in Bindings /\ SE!Items(2) = s.bound
  BY <1>1, <1>2, ClusterFields DEF EvidenceInv, SE!Items
<1>4. c \in Bindable /\ s.bound[c] \in DOMAIN PVs \cup {"none"}
  BY <1>3 DEF Bindings
<1>5. CASE raw[3].status = "collected"
  <2>1. raw[3].data = DOMAIN PVs
    BY <1>1, <1>5 DEF EvidenceInv, Answer
  <2>2. SE!SetItems(3) = DOMAIN PVs
    BY <1>5, <2>1 DEF SE!SetItems
  <2>3. SE!Handle(c) = SE!Volume(s, c)
    BY <1>3, <2>2 DEF SE!Handle, SE!Volume
  <2> QED
    BY <1>2, <1>3, <1>4, <2>3
<1>6. CASE raw[3].status # "collected"
  <2>1. SE!SetItems(3) = {}
    BY <1>6 DEF SE!SetItems
  <2>2. SE!Handle(c) = "none"
    BY <2>1 DEF SE!Handle
  <2> QED
    BY <1>2, <1>3, <1>4, <1>6, <2>2
<1> QED
  BY <1>5, <1>6

\* In two states with one Placed, a claim's replicas on any nodes of the one are those of
\* the other.
LEMMA PlacedDetermines ==
  ASSUME NEW s, NEW t, NEW c, SE!Placed(s, c) = SE!Placed(t, c), SE!Volume(s, c) = SE!Volume(t, c)
  PROVE  LET v == SE!Volume(s, c) IN
         /\ v \in DOMAIN s.replicas <=> v \in DOMAIN t.replicas
         /\ v \in DOMAIN s.replicas => /\ s.replicas[v] = t.replicas[v]
                                       /\ s.replicas[v] \cap s.nodes = t.replicas[v] \cap t.nodes
<1> DEFINE v == SE!Volume(s, c)
<1>1. ASSUME NEW a, NEW b, NEW d PROVE <<a>> # <<a, b, d>>
  <2>1. Len(<<a>>) = 1 /\ Len(<<a, b, d>>) = 3
    OBVIOUS
  <2> QED
    BY <2>1
<1>2. ASSUME NEW a, NEW b, NEW d, NEW e, NEW f, <<a, b, d>> = <<a, e, f>> PROVE b = e /\ d = f
  <2>1. <<a, b, d>>[2] = b /\ <<a, b, d>>[3] = d /\ <<a, e, f>>[2] = e /\ <<a, e, f>>[3] = f
    OBVIOUS
  <2> QED
    BY <1>2, <2>1
<1>3. /\ v \notin DOMAIN s.replicas => SE!Placed(s, c) = <<v>>
      /\ v \in DOMAIN s.replicas => SE!Placed(s, c) = <<v, s.replicas[v], s.replicas[v] \cap s.nodes>>
  BY DEF SE!Placed
<1>4. /\ v \notin DOMAIN t.replicas => SE!Placed(t, c) = <<v>>
      /\ v \in DOMAIN t.replicas => SE!Placed(t, c) = <<v, t.replicas[v], t.replicas[v] \cap t.nodes>>
  BY DEF SE!Placed
<1> HIDE DEF v
<1>5. v \in DOMAIN s.replicas <=> v \in DOMAIN t.replicas
  BY <1>1, <1>3, <1>4
<1>6. ASSUME v \in DOMAIN s.replicas
      PROVE  s.replicas[v] = t.replicas[v] /\ s.replicas[v] \cap s.nodes = t.replicas[v] \cap t.nodes
  <2>1. <<v, s.replicas[v], s.replicas[v] \cap s.nodes>> = <<v, t.replicas[v], t.replicas[v] \cap t.nodes>>
    BY <1>3, <1>4, <1>5, <1>6
  <2> QED
    BY <1>2, <2>1
<1> QED
  BY <1>5, <1>6 DEF v

\* What did not change for a claim is reported as it was: all five queries saw it.
LEMMA QuietIsExact == EvidenceInv => SE!ExactWhereQuiet
<1> SUFFICES ASSUME EvidenceInv, report # <<>>, ~report.partial, NEW c \in Bindable,
                    \A s, t \in since : SE!Placed(s, c) = SE!Placed(t, c) /\ s.bound[c] = t.bound[c],
                    NEW s \in since
             PROVE  report.claims[c] = SE!True(s, c)
  BY DEF SE!ExactWhereQuiet
<1>1. Len(raw) = 5 /\ report = Summary /\ ~SE!Partial
  BY DEF EvidenceInv, Summary
<1>2. \A k \in 1 .. 5 : raw[k].status = "collected"
  BY <1>1 DEF SE!Partial
<1>3. PICK s1 \in since : raw[1].data = s1.nodes
  BY <1>1, <1>2 DEF EvidenceInv, Answer
<1>4. PICK s2 \in since : raw[2].data = s2.bound
  BY <1>1, <1>2 DEF EvidenceInv, Answer
<1>5. PICK s4 \in since : raw[4].data = DOMAIN s4.replicas
  BY <1>1, <1>2 DEF EvidenceInv, Answer
<1>6. PICK s5 \in since : raw[5].data = s5.replicas
  BY <1>1, <1>2 DEF EvidenceInv, Answer
<1>7. /\ SE!SetItems(1) = s1.nodes /\ SE!Items(2) = s2.bound
      /\ SE!SetItems(4) = DOMAIN s4.replicas /\ SE!Items(5) = s5.replicas
  BY <1>2, <1>3, <1>4, <1>5, <1>6 DEF SE!Items, SE!SetItems
<1>8. c \in DOMAIN SE!Items(2)
  BY <1>7, ClusterFields DEF EvidenceInv, Bindings
<1>9. report.claims[c] = SE!Record(c)
  BY <1>1, <1>8 DEF Summary
<1> DEFINE v == SE!Volume(s, c)
<1>10. \A t \in since : SE!Volume(t, c) = v
  BY DEF SE!Volume
<1>11. SE!Handle(c) = v
  BY <1>2, <1>8, <1>10, HandleSeen
<1>12. \A t \in since : /\ v \in DOMAIN t.replicas <=> v \in DOMAIN s.replicas
                        /\ v \in DOMAIN s.replicas => /\ t.replicas[v] = s.replicas[v]
                                                      /\ t.replicas[v] \cap t.nodes = s.replicas[v] \cap s.nodes
  BY <1>10, PlacedDetermines
<1> HIDE DEF v
<1>13. CASE v \notin DOMAIN s.replicas
  <2>1. v \notin SE!SetItems(4)
    BY <1>7, <1>12, <1>13
  <2>2. SE!Record(c) = [volume |-> "none"]
    BY <1>11, <2>1 DEF SE!Record
  <2>3. SE!True(s, c) = [volume |-> "none"]
    BY <1>13 DEF SE!True, v
  <2> QED
    BY <1>9, <2>2, <2>3
<1>14. CASE v \in DOMAIN s.replicas
  <2>1. v \in SE!SetItems(4)
    BY <1>7, <1>12, <1>14
  <2>2. SE!Placement(v) = s.replicas[v]
    BY <1>7, <1>12, <1>14 DEF SE!Placement
  <2>3. s.replicas[v] \cap s1.nodes = s.replicas[v] \cap s.nodes
    BY <1>12, <1>14
  <2>4. s.replicas[v] \ s1.nodes = s.replicas[v] \ s.nodes
    BY <2>3
  <2>5. SE!Record(c) = [volume |-> v, zones |-> {Zone[n] : n \in s.replicas[v] \cap s.nodes},
                        unknown |-> SE!Cardinality(s.replicas[v] \ s.nodes)]
    BY <1>7, <1>11, <2>1, <2>2, <2>3, <2>4 DEF SE!Record
  <2>6. SE!True(s, c) = [volume |-> v, zones |-> {Zone[n] : n \in s.replicas[v] \cap s.nodes},
                         unknown |-> SE!Cardinality(s.replicas[v] \ s.nodes)]
    BY <1>14 DEF SE!True, v
  <2> QED
    BY <1>9, <2>5, <2>6
<1> QED
  BY <1>13, <1>14

\* What is reported of a claim's volume was so: its volume, each of its zones, and how many
\* replicas there are.
LEMMA SpreadWasSeen == EvidenceInv => SE!NoFalseSpread
<1> SUFFICES ASSUME EvidenceInv, report # <<>>, NEW c \in DOMAIN report.claims, report.claims[c].volume # "none"
             PROVE  LET r == report.claims[c] IN
               /\ \E s \in since : s.bound[c] \in DOMAIN PVs /\ PVs[s.bound[c]] = [driver |-> "driver.longhorn.io", handle |-> r.volume]
               /\ \A z \in r.zones : \E s \in since : r.volume \in DOMAIN s.replicas /\ \E n \in s.replicas[r.volume] : Zone[n] = z
               /\ report.saw.status = "collected" /\ r.volume \in DOMAIN report.saw.data =>
                    (\/ SE!Cardinality(report.saw.data[r.volume])
                          = SE!Cardinality({n \in report.saw.data[r.volume] : Zone[n] \in r.zones}) + r.unknown
                     \/ r.unknown > 0)
  BY DEF SE!NoFalseSpread
<1> DEFINE r == report.claims[c]
           v == SE!Handle(c)
<1>1. Len(raw) = 5 /\ report = Summary
  BY DEF EvidenceInv
<1>2. c \in DOMAIN SE!Items(2) /\ r = SE!Record(c) /\ report.saw = raw[5]
  BY <1>1 DEF Summary
<1>3. /\ v \in SE!SetItems(4)
      /\ r = [volume |-> v, zones |-> {Zone[n] : n \in SE!Placement(v) \cap SE!SetItems(1)},
              unknown |-> SE!Cardinality(SE!Placement(v) \ SE!SetItems(1))]
  BY <1>2 DEF SE!Record
<1>4. /\ r.volume = v /\ r.zones = {Zone[n] : n \in SE!Placement(v) \cap SE!SetItems(1)}
      /\ r.unknown = SE!Cardinality(SE!Placement(v) \ SE!SetItems(1))
      /\ v # "none"
  BY <1>3
<1> HIDE DEF r, v
<1>5. \E s \in since : s.bound[c] \in DOMAIN PVs /\ PVs[s.bound[c]] = [driver |-> "driver.longhorn.io", handle |-> r.volume]
  <2>1. PICK s \in since : v \in {SE!Volume(s, c), "none"}
    BY <1>2, HandleSeen DEF v
  <2>2. v = SE!Volume(s, c)
    BY <1>4, <2>1
  <2>3. s.bound[c] \in DOMAIN PVs /\ PVs[s.bound[c]].driver = "driver.longhorn.io" /\ PVs[s.bound[c]].handle = v
    BY <1>4, <2>2 DEF SE!Volume
  <2>4. PVs[s.bound[c]] \in [driver : STRING, handle : STRING \ {"none"}]
    BY <2>3, EvidenceAssumption
  <2> QED
    BY <1>4, <2>3, <2>4
<1>6. \A z \in r.zones : \E s \in since : r.volume \in DOMAIN s.replicas /\ \E n \in s.replicas[r.volume] : Zone[n] = z
  <2> SUFFICES ASSUME NEW n \in SE!Placement(v)
               PROVE  \E s \in since : v \in DOMAIN s.replicas /\ n \in s.replicas[v]
    BY <1>4
  <2>1. v \in DOMAIN SE!Items(5) /\ n \in SE!Items(5)[v]
    BY DEF SE!Placement
  <2>2. raw[5].status = "collected" /\ SE!Items(5) = raw[5].data
    BY <2>1 DEF SE!Items
  <2>3. PICK s \in since : raw[5].data = s.replicas
    BY <1>1, <2>2 DEF EvidenceInv, Answer
  <2> QED
    BY <2>1, <2>2, <2>3
<1>7. ASSUME report.saw.status = "collected", r.volume \in DOMAIN report.saw.data
      PROVE  \/ SE!Cardinality(report.saw.data[r.volume])
                  = SE!Cardinality({n \in report.saw.data[r.volume] : Zone[n] \in r.zones}) + r.unknown
             \/ r.unknown > 0
  <2> DEFINE R == SE!Placement(v)
             N == SE!SetItems(1)
  <2>1. report.saw.data[r.volume] = R
    BY <1>2, <1>4, <1>7 DEF SE!Placement, SE!Items
  <2>2. IsFiniteSet(R)
    <3>1. PICK s \in since : raw[5].data = s.replicas
      BY <1>1, <1>2, <1>7 DEF EvidenceInv, Answer
    <3>2. v \in DOMAIN s.replicas /\ R = s.replicas[v]
      BY <1>2, <1>4, <1>7, <2>1, <3>1
    <3>3. R \subseteq Hosts
      BY <3>2, ClusterFields DEF EvidenceInv
    <3> QED
      BY <3>3, EvidenceAssumption, FS_Subset
  <2> HIDE DEF R, N
  <2>3. r.zones = {Zone[n] : n \in R \cap N} /\ r.unknown = Cardinality(R \ N)
    BY <1>4, SameCardinality DEF R, N
  <2>4. CASE R \subseteq N
    <3>1. {n \in R : Zone[n] \in r.zones} = R
      BY <2>3, <2>4
    <3>2. R \ N = {}
      BY <2>4
    <3>3. r.unknown = 0
      BY <2>3, <3>2, FS_EmptySet
    <3>4. Cardinality(R) \in Nat
      BY <2>2, FS_CardinalityType
    <3>5. SE!Cardinality(report.saw.data[r.volume]) = Cardinality(R)
      BY <2>1, SameCardinality
    <3>6. SE!Cardinality({n \in report.saw.data[r.volume] : Zone[n] \in r.zones}) = Cardinality(R)
      BY <2>1, <3>1, SameCardinality
    <3> QED
      BY <3>3, <3>4, <3>5, <3>6
  <2>5. CASE ~(R \subseteq N)
    <3>1. R \ N # {} /\ IsFiniteSet(R \ N)
      BY <2>2, <2>5, FS_Subset
    <3>2. Cardinality(R \ N) \in Nat /\ Cardinality(R \ N) # 0
      BY <3>1, FS_CardinalityType, FS_EmptySet
    <3> QED
      BY <2>3, <3>2
  <2> QED
    BY <2>4, <2>5
<1> QED
  BY <1>5, <1>6, <1>7 DEF r

LEMMA EvidenceTyped == EvidenceInv => SE!TypeOK
<1> SUFFICES ASSUME EvidenceInv PROVE SE!TypeOK
  OBVIOUS
<1>1. bound \in Bindings /\ present \subseteq Hosts /\ copies \in Placings
  BY ClusterFields DEF EvidenceInv, SE!Now
<1>2. DOMAIN copies \subseteq SE!Handles /\ \A v \in DOMAIN copies : copies[v] \subseteq Hosts
  BY <1>1, ClusterFields
<1> QED
  BY <1>1, <1>2 DEF EvidenceInv, SE!TypeOK, Bindings

LEMMA EvidenceSafe == SpecAll => [](SE!TypeOK /\ SE!ExactWhereQuiet /\ SE!NoFalseSpread)
<1>1. InitAll => EvidenceInv
  BY EvidenceInit DEF InitAll
<1>2. EvidenceInv /\ [NextAll]_allVars => EvidenceInv'
  BY EvidenceSteps, EvidenceStep
<1>3. EvidenceInv => SE!TypeOK /\ SE!ExactWhereQuiet /\ SE!NoFalseSpread
  BY EvidenceTyped, QuietIsExact, SpreadWasSeen
<1> QED
  BY <1>1, <1>2, <1>3, PTL DEF SpecAll

\* Whatever happens to the cluster between the queries and whichever of them fail, a report
\* that is not PARTIAL is exact where nothing moved, and no report counts a zone or passes
\* over a replica.
THEOREM ReportsAreTrue == SpecAll => []ReportsTrue
<1>1. SE!TypeOK /\ SE!ExactWhereQuiet /\ SE!NoFalseSpread => ReportsTrue
  BY DEF ReportsTrue
<1> QED
  BY <1>1, EvidenceSafe, PTL

-----------------------------------------------------------------------------
(* Rollout of a change *)

RolloutTyped ==
  /\ GR!TypeOK
  /\ root = [running |-> root.running, rev |-> root.rev, compared |-> root.compared, todo |-> root.todo]
  /\ gate = [at |-> gate.at, todo |-> gate.todo, ok |-> gate.ok]
  /\ apps = [n \in DOMAIN apps |-> GR!Live(apps[n].def, apps[n].rev)]
  /\ \A c \in claims : c = [key |-> c.key, app |-> c.app, uid |-> c.uid]

LEMMA MainTyped == RolloutTyped => main \in Seq([tree : DOMAIN Trees, calm : BOOLEAN, synced : BOOLEAN]) /\ GR!Tip \in Nat /\ GR!Tip = Len(main)
  BY DEF RolloutTyped, GR!TypeOK, GR!Tip

LEMMA NamedHasName == ASSUME NEW S, NEW n \in GR!Names(S) PROVE GR!Named(S, n) \in S /\ GR!Named(S, n).name = n
  BY DEF GR!Names, GR!Named

LEMMA RolloutInit == GR!Init => RolloutTyped
<1> SUFFICES ASSUME GR!Init PROVE RolloutTyped
  OBVIOUS
<1> DEFINE S == GR!Settled(Trees[1])
<1>1. main = <<[tree |-> 1, calm |-> TRUE, synced |-> TRUE]>> /\ main \in Seq([tree : DOMAIN Trees, calm : BOOLEAN, synced : BOOLEAN]) /\ GR!Tip = 1
  BY TreesAssumption DEF GR!Init, GR!Tip
<1>2. specs \in [GR!Sets -> 1 .. GR!Tip] /\ view \in [GR!Sets -> 1 .. GR!Tip]
  BY <1>1 DEF GR!Init
<1>3. apps = [n \in GR!Names(S) |-> GR!Live(GR!Named(S, n), 1)]
  BY DEF GR!Init
<1>4. \A n \in DOMAIN apps : apps[n].def.name = n /\ apps[n].rev \in 0 .. GR!Tip
  <2> SUFFICES ASSUME NEW n \in GR!Names(S) PROVE apps[n].def.name = n /\ apps[n].rev \in 0 .. GR!Tip
    BY <1>3
  <2>1. apps[n] = [def |-> GR!Named(S, n), rev |-> 1]
    BY <1>3 DEF GR!Live
  <2> QED
    BY <1>1, <2>1, NamedHasName
<1>5. claims = UNION {{[key |-> k, app |-> a.name, uid |-> 0] : k \in GR!Guards(Trees[1], a)} : a \in S}
  BY DEF GR!Init
<1>6. \A c \in claims : \E a \in S : \E k \in GR!Guards(Trees[1], a) : c = [key |-> k, app |-> a.name, uid |-> 0]
  BY <1>5
<1>7. \A c \in claims : c.uid \in 0 .. GR!Tip /\ c = [key |-> c.key, app |-> c.app, uid |-> c.uid]
  BY <1>1, <1>6
<1>8. ASSUME NEW c \in claims, NEW d \in claims, c.key = d.key PROVE c = d
  <2>a. PICK a \in S : \E k \in GR!Guards(Trees[1], a) : c = [key |-> k, app |-> a.name, uid |-> 0]
    BY <1>6
  <2>1. PICK k \in GR!Guards(Trees[1], a) : c = [key |-> k, app |-> a.name, uid |-> 0]
    BY <2>a
  <2>b. PICK b \in S : \E l \in GR!Guards(Trees[1], b) : d = [key |-> l, app |-> b.name, uid |-> 0]
    BY <1>6
  <2>2. PICK l \in GR!Guards(Trees[1], b) : d = [key |-> l, app |-> b.name, uid |-> 0]
    BY <2>b
  <2>3. k = l
    BY <1>8, <2>1, <2>2
  <2>4. a = b
    BY <2>3, TreesAssumption
  <2> QED
    BY <2>1, <2>2, <2>3, <2>4
<1>9. root = [running |-> FALSE, rev |-> 1, compared |-> 1, todo |-> {}] /\ gate = [at |-> "idle", todo |-> <<>>, ok |-> TRUE]
  BY DEF GR!Init
<1>10. apps = [n \in DOMAIN apps |-> GR!Live(apps[n].def, apps[n].rev)]
  BY <1>3 DEF GR!Live
<1> QED
  BY <1>1, <1>2, <1>4, <1>7, <1>8, <1>9, <1>10 DEF RolloutTyped, GR!TypeOK

\* The gate and a merge leave the cluster alone.
LEMMA GateTyped == ASSUME RolloutTyped, GR!Gate PROVE RolloutTyped'
<1>1. /\ main' = main /\ specs' = specs /\ view' = view /\ apps' = apps /\ claims' = claims /\ root' = root
  BY DEF GR!Gate, GR!GateStart, GR!GateRead, GR!GateReport, GR!cluster
<1>2. gate' = [at |-> gate'.at, todo |-> gate'.todo, ok |-> gate'.ok] /\ gate'.ok \in BOOLEAN
  <2>1. gate = [at |-> gate.at, todo |-> gate.todo, ok |-> gate.ok]
    BY DEF RolloutTyped
  <2>2. CASE GR!GateStart
    BY <2>2 DEF GR!GateStart
  <2>3. CASE GR!GateRead
    <3>1. gate' = [at |-> gate.at, todo |-> Tail(gate.todo), ok |-> gate.ok /\ GR!Check(gate.todo[1])]
      BY <2>1, <2>3 DEF GR!GateRead
    <3>2. (gate.ok /\ GR!Check(gate.todo[1])) \in BOOLEAN
      OBVIOUS
    <3> QED
      BY <3>1, <3>2
  <2>4. CASE GR!GateReport
    <3>1. gate' = [at |-> IF gate.ok THEN "pass" ELSE "block", todo |-> gate.todo, ok |-> TRUE]
      BY <2>1, <2>4 DEF GR!GateReport
    <3> QED
      BY <3>1
  <2> QED
    BY <2>2, <2>3, <2>4 DEF GR!Gate
<1> QED
  BY <1>1, <1>2 DEF RolloutTyped, GR!TypeOK, GR!Tip, GR!Sets, GR!Live

LEMMA MergeTyped == ASSUME RolloutTyped, NEW t \in DOMAIN Trees, GR!Merge(t) PROVE RolloutTyped'
<1>1. /\ main' = Append(main, [tree |-> t, calm |-> GR!Calm, synced |-> GR!Synced]) /\ gate' = [gate EXCEPT !.at = "idle"]
      /\ specs' = specs /\ view' = view /\ apps' = apps /\ claims' = claims /\ root' = root
  BY DEF GR!Merge, GR!cluster
<1>2. main \in Seq([tree : DOMAIN Trees, calm : BOOLEAN, synced : BOOLEAN]) /\ GR!Tip \in Nat /\ GR!Tip = Len(main)
  BY MainTyped
<1>3. GR!Calm \in BOOLEAN /\ GR!Synced \in BOOLEAN
  BY DEF GR!Calm, GR!Synced
<1>4. [tree |-> t, calm |-> GR!Calm, synced |-> GR!Synced] \in [tree : DOMAIN Trees, calm : BOOLEAN, synced : BOOLEAN]
  BY <1>3
<1>5. main' \in Seq([tree : DOMAIN Trees, calm : BOOLEAN, synced : BOOLEAN]) /\ GR!Tip' = GR!Tip + 1
  BY <1>1, <1>2, <1>4 DEF GR!Tip
<1>6. gate' = [at |-> "idle", todo |-> gate.todo, ok |-> gate.ok] /\ gate.ok \in BOOLEAN
  BY <1>1 DEF RolloutTyped, GR!TypeOK
<1>7. \A x \in 1 .. GR!Tip : x \in 1 .. GR!Tip'
  BY <1>2, <1>5
<1>8. \A x \in 0 .. GR!Tip : x \in 0 .. GR!Tip'
  BY <1>2, <1>5
<1>9. specs' \in [GR!Sets -> 1 .. GR!Tip'] /\ view' \in [GR!Sets -> 1 .. GR!Tip']
  BY <1>1, <1>7 DEF RolloutTyped, GR!TypeOK
<1>10. \A n \in DOMAIN apps' : apps'[n].def.name = n /\ apps'[n].rev \in 0 .. GR!Tip'
  BY <1>1, <1>8 DEF RolloutTyped, GR!TypeOK
<1>11. \A c \in claims' : c.uid \in 0 .. GR!Tip'
  BY <1>1, <1>8 DEF RolloutTyped, GR!TypeOK
<1>12. root'.rev \in 1 .. GR!Tip' /\ root'.compared \in 1 .. GR!Tip'
  BY <1>1, <1>7 DEF RolloutTyped, GR!TypeOK
<1>13. GR!TypeOK'
  BY <1>1, <1>5, <1>6, <1>9, <1>10, <1>11, <1>12 DEF RolloutTyped, GR!TypeOK, GR!Sets
<1> QED
  BY <1>1, <1>6, <1>13 DEF RolloutTyped, GR!Live

\* The root's operation.
LEMMA RootTyped ==
  ASSUME RolloutTyped, GR!RootCompare \/ GR!RootStart \/ GR!RootDone \/ \E s \in GR!Sets : GR!RootApplySet(s) \/ GR!Refresh(s)
  PROVE  RolloutTyped'
<1>1. main' = main /\ apps' = apps /\ claims' = claims /\ gate' = gate
  BY DEF GR!RootCompare, GR!RootStart, GR!RootDone, GR!RootApplySet, GR!Refresh
<1>2. /\ GR!Tip \in Nat /\ GR!Tip \in 1 .. GR!Tip /\ GR!Tip' = GR!Tip
      /\ root.rev \in 1 .. GR!Tip /\ root.compared \in 1 .. GR!Tip
      /\ specs \in [GR!Sets -> 1 .. GR!Tip] /\ view \in [GR!Sets -> 1 .. GR!Tip]
  <2>1. GR!Tip \in Nat /\ root.rev \in 1 .. GR!Tip
    BY MainTyped DEF RolloutTyped, GR!TypeOK
  <2>2. GR!Tip \in 1 .. GR!Tip
    BY <2>1
  <2>3. GR!Tip' = GR!Tip
    BY <1>1 DEF GR!Tip
  <2> QED
    BY <2>1, <2>2, <2>3 DEF RolloutTyped, GR!TypeOK
<1>3. root = [running |-> root.running, rev |-> root.rev, compared |-> root.compared, todo |-> root.todo]
  BY DEF RolloutTyped
<1>4. /\ root' = [running |-> root'.running, rev |-> root'.rev, compared |-> root'.compared, todo |-> root'.todo]
      /\ root'.rev \in 1 .. GR!Tip /\ root'.compared \in 1 .. GR!Tip
      /\ specs' \in [GR!Sets -> 1 .. GR!Tip] /\ view' \in [GR!Sets -> 1 .. GR!Tip]
  <2>1. CASE GR!RootCompare
    <3>1. root' = [running |-> root.running, rev |-> root.rev, compared |-> GR!Tip, todo |-> root.todo]
      BY <1>3, <2>1 DEF GR!RootCompare
    <3> QED
      BY <1>2, <2>1, <3>1 DEF GR!RootCompare
  <2>2. CASE GR!RootStart
    <3>1. root' = [running |-> TRUE, rev |-> GR!Tip, compared |-> GR!Tip, todo |-> root'.todo]
      BY <2>2 DEF GR!RootStart
    <3> QED
      BY <1>2, <2>2, <3>1 DEF GR!RootStart
  <2>3. CASE GR!RootDone
    <3>1. root' = [running |-> FALSE, rev |-> root.rev, compared |-> root.compared, todo |-> root.todo]
      BY <1>3, <2>3 DEF GR!RootDone
    <3> QED
      BY <1>2, <2>3, <3>1 DEF GR!RootDone
  <2>4. ASSUME NEW s \in GR!Sets, GR!RootApplySet(s)
        PROVE  /\ root' = [running |-> root'.running, rev |-> root'.rev, compared |-> root'.compared, todo |-> root'.todo]
               /\ root'.rev \in 1 .. GR!Tip /\ root'.compared \in 1 .. GR!Tip
               /\ specs' \in [GR!Sets -> 1 .. GR!Tip] /\ view' \in [GR!Sets -> 1 .. GR!Tip]
    <3>1. root' = [running |-> root.running, rev |-> root.rev, compared |-> root.compared, todo |-> root.todo \ {<<s>>}]
      BY <1>3, <2>4 DEF GR!RootApplySet
    <3>2. specs' = [specs EXCEPT ![s] = root.rev] /\ view' = view
      BY <2>4 DEF GR!RootApplySet
    <3> QED
      BY <1>2, <3>1, <3>2
  <2>5. ASSUME NEW s \in GR!Sets, GR!Refresh(s)
        PROVE  /\ root' = [running |-> root'.running, rev |-> root'.rev, compared |-> root'.compared, todo |-> root'.todo]
               /\ root'.rev \in 1 .. GR!Tip /\ root'.compared \in 1 .. GR!Tip
               /\ specs' \in [GR!Sets -> 1 .. GR!Tip] /\ view' \in [GR!Sets -> 1 .. GR!Tip]
    <3>1. root' = root /\ specs' = specs /\ view' = [view EXCEPT ![s] = GR!Tip]
      BY <2>5 DEF GR!Refresh
    <3> QED
      BY <1>2, <1>3, <3>1
  <2> QED
    BY <2>1, <2>2, <2>3, <2>4, <2>5
<1> QED
  BY <1>1, <1>2, <1>4 DEF RolloutTyped, GR!TypeOK, GR!Sets, GR!Live

LEMMA ApplyAppTyped == ASSUME RolloutTyped, NEW n, GR!RootApplyApp(n) PROVE RolloutTyped'
<1>1. /\ main' = main /\ specs' = specs /\ view' = view /\ claims' = claims /\ gate' = gate
      /\ root' = [root EXCEPT !.todo = @ \ {n}]
  BY DEF GR!RootApplyApp
<1>2. GR!Tip' = GR!Tip /\ GR!Tip \in Nat
  BY <1>1, MainTyped DEF GR!Tip
<1>3. PICK a \in GR!Alone(root.rev) :
        /\ a.name = n
        /\ apps' = [m \in DOMAIN apps \cup {n} |->
                     IF m = n THEN GR!Live(a, IF n \in DOMAIN apps THEN apps[n].rev ELSE 0) ELSE apps[m]]
  BY DEF GR!RootApplyApp
<1>4. root' = [running |-> root.running, rev |-> root.rev, compared |-> root.compared, todo |-> root.todo \ {n}]
  BY <1>1 DEF RolloutTyped
<1>5. \A m \in DOMAIN apps : apps[m] = GR!Live(apps[m].def, apps[m].rev) /\ apps[m].def.name = m /\ apps[m].rev \in 0 .. GR!Tip
  BY DEF RolloutTyped, GR!TypeOK
<1>6. \A m \in DOMAIN apps' : apps'[m] = GR!Live(apps'[m].def, apps'[m].rev) /\ apps'[m].def.name = m /\ apps'[m].rev \in 0 .. GR!Tip
  <2> SUFFICES ASSUME NEW m \in DOMAIN apps \cup {n}
               PROVE  apps'[m] = GR!Live(apps'[m].def, apps'[m].rev) /\ apps'[m].def.name = m /\ apps'[m].rev \in 0 .. GR!Tip
    BY <1>3
  <2>1. CASE m = n
    <3>1. (IF n \in DOMAIN apps THEN apps[n].rev ELSE 0) \in 0 .. GR!Tip
      BY <1>2, <1>5
    <3>2. apps'[m] = [def |-> a, rev |-> IF n \in DOMAIN apps THEN apps[n].rev ELSE 0]
      BY <1>3, <2>1 DEF GR!Live
    <3> QED
      BY <1>3, <2>1, <3>1, <3>2 DEF GR!Live
  <2>2. CASE m # n
    <3>1. apps'[m] = apps[m] /\ m \in DOMAIN apps
      BY <1>3, <2>2
    <3> QED
      BY <1>5, <3>1
  <2> QED
    BY <2>1, <2>2
<1>7. apps' = [m \in DOMAIN apps' |-> GR!Live(apps'[m].def, apps'[m].rev)]
  BY <1>3, <1>6
<1>8. GR!TypeOK'
  BY <1>1, <1>2, <1>4, <1>6 DEF RolloutTyped, GR!TypeOK, GR!Sets
<1> QED
  BY <1>1, <1>4, <1>7, <1>8 DEF RolloutTyped

LEMMA GenerateTyped == ASSUME RolloutTyped, NEW s \in GR!Sets, GR!Generate(s) PROVE RolloutTyped'
<1> DEFINE spec == GR!T(specs[s]).sets[s]
           want == {GR!Expand(s, spec, p) : p \in GR!Discovered(spec, GR!T(view[s]).dirs)}
           mine == {n \in DOMAIN apps : apps[n].def.owner = s}
           gone == mine \ GR!Names(want)
           kept == DOMAIN apps \ gone
           new  == {n \in GR!Names(want) : n \notin kept \/ n \in mine}
<1>1. /\ apps' = [n \in kept \cup new |->
                    IF n \in new THEN GR!Live(GR!Named(want, n), IF n \in kept THEN apps[n].rev ELSE 0) ELSE apps[n]]
      /\ claims' = {c \in claims : c.app \notin gone \/ spec.preserve}
      /\ main' = main /\ specs' = specs /\ view' = view /\ root' = root /\ gate' = gate
  BY DEF GR!Generate
<1>2. kept \subseteq DOMAIN apps /\ new \subseteq GR!Names(want)
  OBVIOUS
<1> HIDE DEF spec, want, mine, gone, kept, new
<1>3. GR!Tip' = GR!Tip /\ GR!Tip \in Nat
  BY <1>1, MainTyped DEF GR!Tip
<1>4. \A m \in DOMAIN apps : apps[m] = GR!Live(apps[m].def, apps[m].rev) /\ apps[m].def.name = m /\ apps[m].rev \in 0 .. GR!Tip
  BY DEF RolloutTyped, GR!TypeOK
<1>5. \A m \in DOMAIN apps' : apps'[m] = GR!Live(apps'[m].def, apps'[m].rev) /\ apps'[m].def.name = m /\ apps'[m].rev \in 0 .. GR!Tip
  <2> SUFFICES ASSUME NEW m \in kept \cup new
               PROVE  apps'[m] = GR!Live(apps'[m].def, apps'[m].rev) /\ apps'[m].def.name = m /\ apps'[m].rev \in 0 .. GR!Tip
    BY <1>1
  <2>1. CASE m \in new
    <3>1. (IF m \in kept THEN apps[m].rev ELSE 0) \in 0 .. GR!Tip
      BY <1>2, <1>3, <1>4
    <3>2. apps'[m] = [def |-> GR!Named(want, m), rev |-> IF m \in kept THEN apps[m].rev ELSE 0]
      BY <1>1, <2>1 DEF GR!Live
    <3>3. GR!Named(want, m).name = m
      BY <1>2, <2>1, NamedHasName
    <3> QED
      BY <3>1, <3>2, <3>3 DEF GR!Live
  <2>2. CASE m \notin new
    <3>1. apps'[m] = apps[m] /\ m \in DOMAIN apps
      BY <1>1, <1>2, <2>2
    <3> QED
      BY <1>4, <3>1
  <2> QED
    BY <2>1, <2>2
<1>6. apps' = [m \in DOMAIN apps' |-> GR!Live(apps'[m].def, apps'[m].rev)]
  BY <1>1, <1>5
<1>7. claims' \subseteq claims
  BY <1>1
<1>8. GR!TypeOK'
  BY <1>1, <1>3, <1>5, <1>7 DEF RolloutTyped, GR!TypeOK, GR!Sets
<1> QED
  BY <1>1, <1>6, <1>7, <1>8 DEF RolloutTyped

LEMMA SyncTyped == ASSUME RolloutTyped, NEW n \in DOMAIN apps, GR!SyncApp(n) PROVE RolloutTyped'
<1>1. PICK r \in apps[n].rev .. GR!Tip :
        LET a == apps[n].def
            keys == GR!Guards(GR!T(r), a)
            here == {c \in claims : c.key \in keys}
            goes == {c \in claims : c.app = n /\ c.key \notin keys}
        IN  /\ r > 0
            /\ claims' = (claims \ (here \cup IF a.prune THEN goes ELSE {}))
                         \cup {[c EXCEPT !.app = n] : c \in here}
                         \cup {[key |-> k, app |-> n, uid |-> GR!Tip] : k \in keys \ {c.key : c \in here}}
            /\ apps' = [apps EXCEPT ![n].rev = r]
            /\ UNCHANGED <<main, specs, view, root, gate, baseline>>
  BY DEF GR!SyncApp
<1> DEFINE a == apps[n].def
           keys == GR!Guards(GR!T(r), a)
           here == {c \in claims : c.key \in keys}
           goes == {c \in claims : c.app = n /\ c.key \notin keys}
           left == claims \ (here \cup IF a.prune THEN goes ELSE {})
           moved == {[c EXCEPT !.app = n] : c \in here}
           fresh == {[key |-> k, app |-> n, uid |-> GR!Tip] : k \in keys \ {c.key : c \in here}}
<1>2. /\ main' = main /\ specs' = specs /\ view' = view /\ root' = root /\ gate' = gate
      /\ claims' = left \cup moved \cup fresh /\ apps' = [apps EXCEPT ![n].rev = r]
  BY <1>1
<1>3. GR!Tip' = GR!Tip /\ GR!Tip \in Nat /\ apps[n].rev \in 0 .. GR!Tip /\ GR!Tip \in 1 .. GR!Tip /\ r \in 0 .. GR!Tip
  <2>1. GR!Tip' = GR!Tip /\ GR!Tip \in Nat /\ apps[n].rev \in 0 .. GR!Tip
    BY <1>2, MainTyped DEF GR!Tip, RolloutTyped, GR!TypeOK
  <2>2. r \in apps[n].rev .. GR!Tip /\ r > 0
    BY <1>1
  <2> QED
    BY <2>1, <2>2
<1>4. \A m \in DOMAIN apps : apps[m] = GR!Live(apps[m].def, apps[m].rev) /\ apps[m].def.name = m /\ apps[m].rev \in 0 .. GR!Tip
  BY DEF RolloutTyped, GR!TypeOK
<1>5. \A m \in DOMAIN apps' : apps'[m] = GR!Live(apps'[m].def, apps'[m].rev) /\ apps'[m].def.name = m /\ apps'[m].rev \in 0 .. GR!Tip
  <2> SUFFICES ASSUME NEW m \in DOMAIN apps
               PROVE  apps'[m] = GR!Live(apps'[m].def, apps'[m].rev) /\ apps'[m].def.name = m /\ apps'[m].rev \in 0 .. GR!Tip
    BY <1>2
  <2>1. CASE m = n
    <3>1. apps[n] = [def |-> apps[n].def, rev |-> apps[n].rev]
      BY <1>4 DEF GR!Live
    <3>2. apps'[n] = [def |-> apps[n].def, rev |-> r]
      BY <1>2, <3>1
    <3> QED
      BY <1>3, <1>4, <2>1, <3>2 DEF GR!Live
  <2>2. CASE m # n
    <3>1. apps'[m] = apps[m]
      BY <1>2, <2>2
    <3> QED
      BY <1>4, <3>1
  <2> QED
    BY <2>1, <2>2
<1>6. apps' = [m \in DOMAIN apps' |-> GR!Live(apps'[m].def, apps'[m].rev)]
  <2>1. DOMAIN apps' = DOMAIN apps /\ apps' = [m \in DOMAIN apps |-> apps'[m]]
    BY <1>2
  <2> QED
    BY <1>5, <2>1
<1>7. \A c \in claims : c = [key |-> c.key, app |-> c.app, uid |-> c.uid] /\ c.uid \in 0 .. GR!Tip
  BY DEF RolloutTyped, GR!TypeOK
<1>8. \A c \in moved : \E d \in claims : d.key \in keys /\ c = [key |-> d.key, app |-> n, uid |-> d.uid]
  BY <1>7
<1>9. \A c \in fresh : c.key \in keys \ {d.key : d \in here} /\ c = [key |-> c.key, app |-> n, uid |-> GR!Tip]
  OBVIOUS
<1>10. left \subseteq claims /\ \A c \in left : c.key \notin keys
  OBVIOUS
<1> HIDE DEF moved, fresh, left
<1>11. \A c \in claims' : c = [key |-> c.key, app |-> c.app, uid |-> c.uid] /\ c.uid \in 0 .. GR!Tip
  <2> SUFFICES ASSUME NEW c \in left \cup moved \cup fresh
               PROVE  c = [key |-> c.key, app |-> c.app, uid |-> c.uid] /\ c.uid \in 0 .. GR!Tip
    BY <1>2
  <2>1. CASE c \in left
    BY <1>7, <1>10, <2>1
  <2>2. CASE c \in moved
    <3>1. PICK d \in claims : c = [key |-> d.key, app |-> n, uid |-> d.uid]
      BY <1>8, <2>2
    <3> QED
      BY <1>7, <3>1
  <2>3. CASE c \in fresh
    <3>1. c = [key |-> c.key, app |-> n, uid |-> GR!Tip]
      BY <1>9, <2>3
    <3> QED
      BY <1>3, <3>1
  <2> QED
    BY <2>1, <2>2, <2>3
<1>12. \A c, d \in claims : c.key = d.key => c = d
  BY DEF RolloutTyped, GR!TypeOK
<1>13. ASSUME NEW c \in claims', NEW d \in claims', c.key = d.key PROVE c = d
  <2>1. CASE c.key \notin keys
    <3>1. c \in left /\ d \in left
      BY <1>2, <1>8, <1>9, <1>13, <2>1
    <3> QED
      BY <1>10, <1>12, <1>13, <3>1
  <2>2. CASE c.key \in keys /\ c.key \in {e.key : e \in here}
    <3>1. c \in moved /\ d \in moved
      BY <1>2, <1>9, <1>10, <1>13, <2>2
    <3>2. PICK e \in claims : c = [key |-> e.key, app |-> n, uid |-> e.uid]
      BY <1>8, <3>1
    <3>3. PICK f \in claims : d = [key |-> f.key, app |-> n, uid |-> f.uid]
      BY <1>8, <3>1
    <3>4. e = f
      BY <1>12, <1>13, <3>2, <3>3
    <3> QED
      BY <3>2, <3>3, <3>4
  <2>3. CASE c.key \in keys /\ c.key \notin {e.key : e \in here}
    <3>1. \A e \in moved : e.key \in {f.key : f \in here}
      BY <1>8
    <3>2. c \in fresh /\ d \in fresh
      BY <1>2, <1>10, <1>13, <2>3, <3>1
    <3> QED
      BY <1>9, <1>13, <3>2
  <2> QED
    BY <2>1, <2>2, <2>3
<1>14. GR!TypeOK'
  BY <1>2, <1>3, <1>5, <1>11, <1>13 DEF RolloutTyped, GR!TypeOK, GR!Sets
<1> QED
  BY <1>2, <1>6, <1>11, <1>14 DEF RolloutTyped

LEMMA RolloutStep == RolloutTyped /\ [GR!Next]_(GR!vars) => RolloutTyped'
<1> SUFFICES ASSUME RolloutTyped, [GR!Next]_(GR!vars) PROVE RolloutTyped'
  OBVIOUS
<1>1. CASE UNCHANGED GR!vars
  BY <1>1 DEF GR!vars, GR!cluster, RolloutTyped, GR!TypeOK, GR!Tip, GR!Sets, GR!Live
<1>2. CASE GR!Argo
  BY <1>2, RootTyped, ApplyAppTyped, GenerateTyped, SyncTyped DEF GR!Argo
<1> QED
  BY <1>1, <1>2, GateTyped, MergeTyped DEF GR!Next

LEMMA RolloutIsTyped == SpecAll => []RolloutTyped
<1>1. InitAll => RolloutTyped
  BY RolloutInit DEF InitAll
<1>2. RolloutTyped /\ [NextAll]_allVars => RolloutTyped'
  BY RolloutSteps, RolloutStep
<1> QED
  BY <1>1, <1>2, PTL DEF SpecAll

-----------------------------------------------------------------------------
(* What the review and the gate preserve of the Applications *)

\* What a set wants of one commit's spec and another's directories.
Wanted(x, y, s) == {GR!Expand(s, GR!T(x).sets[s], p) : p \in GR!Discovered(GR!T(x).sets[s], GR!T(y).dirs)}

Same(a, b) == a.name = b.name /\ GR!Kept(a) = GR!Kept(b)
Deployed(a) == a.name \in DOMAIN apps /\ apps[a.name].def = a

\* Whichever of the last two specs and trees meet, every Application of the commit before
\* is there once, under its owner.
MixInv ==
  /\ \A x, y \in GR!Recent : ~GR!Duplicate(GR!Mixed(x, y)) /\ \A a \in GR!Mixed(GR!Before, GR!Before) : \E b \in GR!Mixed(x, y) : Same(a, b)
  /\ \A k \in 1 .. GR!Before : \A a \in GR!Mixed(k, k) : \E b \in GR!Mixed(GR!Before, GR!Before) : Same(a, b)

\* No ApplicationSet is more than one commit behind.
SetsInv ==
  \A s \in GR!Sets : view[s] \in GR!Recent /\ \E x \in GR!Recent : GR!T(specs[s]).sets[s] = GR!T(x).sets[s]

\* An Application of a set that still reads the commit before has its directory there.
PathInv ==
  \A n \in DOMAIN apps :
    apps[n].def.owner \in GR!Sets /\ view[apps[n].def.owner] = GR!Before => apps[n].def.path \in GR!T(GR!Before).dirs

SurviveInv == \A a \in GR!Mixed(GR!Before, GR!Before) : a.name \in DOMAIN apps /\ Same(a, apps[a.name].def)

\* The root applies the last commit, and has applied what it does not still have to.
RootInv ==
  /\ root.running => root.rev = GR!Tip
  /\ ~root.running => root.todo = {}
  /\ root.rev = GR!Tip => \A a \in GR!Alone(GR!Tip) : a.name \in root.todo \/ Deployed(a)

RootItem == [kind |-> "root"]
SetItem(s) == [kind |-> "set", name |-> s]
AppItem(a) == [kind |-> "app", app |-> a]
ObjectItem(c) == [kind |-> "object", object |-> c]
Planned(c) == {a \in GR!Settled(GR!T(c)) : a.owner # "root"}
Rank(item) == CASE item.kind = "root" -> 0 [] item.kind = "set" -> 1 [] item.kind = "app" -> 2 [] OTHER -> 3

\* What the gate has read, and found well.
ReadWell(item) ==
  \/ gate.at = "pass"
  \/ gate.at = "reading" /\ gate.ok /\ \A i \in 1 .. Len(gate.todo) : gate.todo[i] # item

\* ... stays so: first the root has come to rest, then the specs, then the Applications.
ReadInv ==
  /\ ReadWell(RootItem) => ~root.running /\ root.rev = GR!Tip
  /\ \A s \in GR!Sets : ReadWell(SetItem(s)) => ReadWell(RootItem) /\ GR!SetOk(s)
  /\ \A a \in Planned(GR!Tip) : ReadWell(AppItem(a)) => Deployed(a) /\ ReadWell(RootItem) /\ \A s \in GR!Sets : ReadWell(SetItem(s))

\* The gate reads in the order of its plan.
Items ==
  {RootItem} \cup {SetItem(s) : s \in GR!Sets} \cup {AppItem(a) : a \in Planned(GR!Tip)}
  \cup {ObjectItem(c) : c \in baseline}
Sorted(seq) == \A i, j \in 1 .. Len(seq) : i < j => Rank(seq[i]) <= Rank(seq[j])
OrderInv == gate.at = "reading" => gate.todo \in Seq(Items) /\ Sorted(gate.todo)

FiniteInv == IsFiniteSet(claims) /\ IsFiniteSet(baseline)

CalmParts == MixInv /\ SetsInv /\ PathInv /\ SurviveInv /\ RootInv /\ ReadInv
CalmInv == GR!Unhurried => CalmParts

-----------------------------------------------------------------------------
LEMMA TreeOf == ASSUME RolloutTyped, NEW x \in 1 .. GR!Tip PROVE main[x].tree \in DOMAIN Trees
<1>1. main \in Seq([tree : DOMAIN Trees, calm : BOOLEAN, synced : BOOLEAN]) /\ x \in 1 .. Len(main)
  BY MainTyped
<1>2. main[x] \in [tree : DOMAIN Trees, calm : BOOLEAN, synced : BOOLEAN]
  BY <1>1, ElementOfSeq
<1> QED
  BY <1>2

LEMMA RecentCommits == ASSUME RolloutTyped PROVE /\ GR!Tip \in Nat /\ GR!Tip >= 1 /\ GR!Tip \in 1 .. GR!Tip
                                                /\ GR!Before \in 1 .. GR!Tip /\ GR!Recent \subseteq 1 .. GR!Tip
<1>1. GR!Tip \in Nat /\ GR!Tip >= 1
  <2>1. root.rev \in 1 .. GR!Tip /\ GR!Tip \in Nat
    BY MainTyped DEF RolloutTyped, GR!TypeOK
  <2> QED
    BY <2>1
<1> QED
  BY <1>1 DEF GR!Before, GR!Recent

\* What specs and directories of any two commits give: what is written out in the tree, and
\* what each set wants.
LEMMA MixedParts ==
  ASSUME RolloutTyped, NEW x \in 1 .. GR!Tip, NEW y \in 1 .. GR!Tip
  PROVE  /\ GR!T(x).alone \subseteq GR!Mixed(x, y)
         /\ \A a \in GR!T(x).alone : a.owner \notin GR!Sets /\ a.name \notin {<<s>> : s \in GR!Sets}
         /\ \A s \in GR!Sets : /\ Wanted(x, y, s) \subseteq GR!Mixed(x, y)
                               /\ \A a \in Wanted(x, y, s) : a.owner = s /\ a.path \in GR!T(y).dirs
         /\ \A a \in GR!Mixed(x, y) : IF a.owner \in GR!Sets THEN a \in Wanted(x, y, a.owner) ELSE a \in GR!T(x).alone
<1>1. main[x].tree \in DOMAIN Trees
  BY TreeOf
<1>2. DOMAIN GR!T(x).sets = GR!Sets /\ \A a \in GR!T(x).alone : a.owner \notin GR!Sets /\ a.name \notin {<<s>> : s \in GR!Sets}
  BY <1>1, TreesAssumption DEF GR!T
<1>3. GR!Mixed(x, y) = GR!T(x).alone \cup UNION {Wanted(x, y, s) : s \in GR!Sets}
  BY <1>2 DEF GR!Mixed, Wanted, GR!Inventory
<1>4. ASSUME NEW s \in GR!Sets, NEW a \in Wanted(x, y, s) PROVE a.owner = s /\ a.path \in GR!T(y).dirs
  BY DEF Wanted, GR!Expand, GR!Discovered
<1>5. ASSUME NEW a \in GR!Mixed(x, y) PROVE IF a.owner \in GR!Sets THEN a \in Wanted(x, y, a.owner) ELSE a \in GR!T(x).alone
  <2>1. CASE a \in GR!T(x).alone
    BY <1>2, <2>1
  <2>2. ASSUME NEW s \in GR!Sets, a \in Wanted(x, y, s) PROVE a.owner \in GR!Sets /\ a \in Wanted(x, y, a.owner)
    BY <1>4, <2>2
  <2> QED
    BY <1>3, <2>1, <2>2
<1>6. \A s \in GR!Sets : Wanted(x, y, s) \subseteq GR!Mixed(x, y)
  BY <1>3
<1>7. GR!T(x).alone \subseteq GR!Mixed(x, y)
  BY <1>3
<1> QED
  BY <1>2, <1>4, <1>5, <1>6, <1>7

\* What a set wants of one tree it wants of any other that has its directory.
LEMMA WantedElsewhere ==
  ASSUME NEW x, NEW y, NEW z, NEW s, NEW a \in Wanted(x, y, s), a.path \in GR!T(z).dirs
  PROVE  a \in Wanted(x, z, s)
<1>1. PICK p \in GR!Discovered(GR!T(x).sets[s], GR!T(y).dirs) : a = GR!Expand(s, GR!T(x).sets[s], p)
  BY DEF Wanted
<1>2. a.path = p
  BY <1>1 DEF GR!Expand
<1>3. p \in GR!Discovered(GR!T(x).sets[s], GR!T(z).dirs)
  BY <1>1, <1>2 DEF GR!Discovered
<1> QED
  BY <1>1, <1>3 DEF Wanted

LEMMA NamedIs ==
  ASSUME NEW S, NEW W, W \subseteq S, ~GR!Duplicate(S), NEW a \in W
  PROVE  a.name \in GR!Names(W) /\ GR!Named(W, a.name) = a
  BY DEF GR!Duplicate, GR!Named, GR!Names

LEMMA SameTwice == \A a, b, c : Same(a, b) /\ Same(b, c) => Same(a, c)
  BY DEF Same

\* A change that is not blocked keeps every Application under its name and owner in every
\* transition, and gives no name twice.
LEMMA VerdictKeeps ==
  ASSUME NEW old, NEW new, GR!Verdict(old, new) # "BLOCK"
  PROVE  /\ ~GR!Duplicate(GR!Settled(old))
         /\ \A t \in GR!Transitions(old, new) :
              ~GR!Duplicate(t.apps) /\ \A a \in GR!Settled(old) : \E b \in t.apps : Same(a, b)
<1> DEFINE levels == {f.level : f \in GR!Findings(old, new)}
<1>1. ~GR!CheckFails(old, new) /\ "BLOCK" \notin levels
  BY DEF GR!Verdict
<1>2. ~GR!Duplicate(GR!Settled(old)) /\ \A t \in GR!Transitions(old, new) : ~GR!Duplicate(t.apps)
  BY <1>1 DEF GR!CheckFails
<1>3. \A f \in GR!TransitionFindings(old, new) : f.level # "BLOCK"
  BY <1>1 DEF GR!Findings
<1>4. ASSUME NEW t \in GR!Transitions(old, new), NEW a \in GR!Settled(old) PROVE \E b \in t.apps : Same(a, b)
  <2> DEFINE oo == GR!Settled(old)
             gone == GR!Names(oo) \ GR!Names(t.apps)
             other == {n \in GR!Names(oo) \ gone : GR!Kept(GR!Named(oo, n)) # GR!Kept(GR!Named(t.apps, n))}
  <2>1. a.name \in GR!Names(oo) /\ GR!Named(oo, a.name) = a
    BY <1>2, NamedIs
  <2>2. GR!Find("BLOCK", "application-disappears", gone) \cup GR!Find("BLOCK", "application-ownership", other)
          \subseteq GR!TransitionFindings(old, new)
    <3> DEFINE Of(s) ==
          LET g == GR!Names(oo) \ GR!Names(s.apps)
              h == {n \in GR!Names(oo) \ g : GR!Kept(GR!Named(oo, n)) # GR!Kept(GR!Named(s.apps, n))}
              i == {n \in GR!Names(oo) \ g : GR!Named(s.apps, n).path \notin s.dirs}
              j == {b.name : b \in {c \in oo : c.path \notin s.dirs}}
          IN  GR!Find("BLOCK", "application-disappears", g)
              \cup GR!Find("BLOCK", "application-ownership", h)
              \cup GR!Find("WARN", "missing-next-source-directory", i)
              \cup GR!Find("WARN", "missing-source-directory", j)
    <3>1. GR!TransitionFindings(old, new) = UNION {Of(s) : s \in GR!Transitions(old, new)}
      BY DEF GR!TransitionFindings
    <3>2. GR!Find("BLOCK", "application-disappears", gone) \cup GR!Find("BLOCK", "application-ownership", other) \subseteq Of(t)
      OBVIOUS
    <3> HIDE DEF Of
    <3> QED
      BY <3>1, <3>2
  <2>3. a.name \notin gone
    <3>1. SUFFICES ASSUME a.name \in gone PROVE FALSE
      OBVIOUS
    <3>2. [level |-> "BLOCK", code |-> "application-disappears", target |-> a.name] \in GR!Find("BLOCK", "application-disappears", gone)
      BY <3>1 DEF GR!Find
    <3> QED
      BY <1>3, <2>2, <3>2
  <2>4. a.name \notin other
    <3>1. SUFFICES ASSUME a.name \in other PROVE FALSE
      OBVIOUS
    <3>2. [level |-> "BLOCK", code |-> "application-ownership", target |-> a.name] \in GR!Find("BLOCK", "application-ownership", other)
      BY <3>1 DEF GR!Find
    <3> QED
      BY <1>3, <2>2, <3>2
  <2>5. a.name \in GR!Names(t.apps)
    BY <2>1, <2>3
  <2>6. GR!Named(t.apps, a.name) \in t.apps /\ GR!Named(t.apps, a.name).name = a.name
    BY <2>5, NamedHasName
  <2>7. GR!Kept(a) = GR!Kept(GR!Named(t.apps, a.name))
    BY <2>1, <2>3, <2>4
  <2> QED
    BY <2>6, <2>7 DEF Same
<1> QED
  BY <1>2, <1>4

-----------------------------------------------------------------------------
(* The gate's plan *)

LEMMA FiniteImage ==
  ASSUME NEW S, IsFiniteSet(S), NEW f, DOMAIN f = S PROVE IsFiniteSet({f[x] : x \in S})
<1> DEFINE T == {f[x] : x \in S}
           g == [x \in S |-> f[x]]
<1>1. g \in [S -> T] /\ \A t \in T : \E x \in S : g[x] = t
  OBVIOUS
<1>2. g \in Surjection(S, T)
  BY <1>1 DEF Surjection
<1> QED
  BY <1>2, FS_Surjection

LEMMA SeqOfSet ==
  ASSUME NEW S, IsFiniteSet(S)
  PROVE  GR!SetToSeq(S) \in Seq(S) /\ \A x \in S : \E i \in 1 .. Len(GR!SetToSeq(S)) : GR!SetToSeq(S)[i] = x
<1> DEFINE n == Cardinality(S)
           D == 1 .. n
           g == GR!SetToSeq(S)
<1>1. n \in Nat /\ ExistsBijection(D, S)
  BY FS_CardinalityType
<1>2. PICK f : f \in Bijection(D, S)
  BY <1>1 DEF ExistsBijection
<1>3. f \in [D -> S] /\ IsInjective(f)
  BY <1>2 DEF Bijection, Injection
<1>4. g = CHOOSE h \in [D -> S] : IsInjective(h)
  BY DEF GR!SetToSeq, GR!Cardinality, Cardinality, GR!IsInjective, IsInjective
<1> HIDE DEF g
<1>5. g \in [D -> S] /\ IsInjective(g)
  BY <1>3, <1>4
<1>6. g \in Injection(D, S)
  BY <1>5 DEF Injection
<1>7. IsFiniteSet(D) /\ Cardinality(D) = n
  BY <1>1, FS_Interval
<1>8. g \in Surjection(D, S)
  BY <1>6, <1>7, FS_Injection
<1>9. \A x \in S : \E i \in D : g[i] = x
  BY <1>8 DEF Surjection
<1>10. g \in Seq(S) /\ Len(g) = n
  BY <1>1, <1>5
<1> QED
  BY <1>9, <1>10 DEF g

LEMMA MixedFinite ==
  ASSUME RolloutTyped, NEW x \in 1 .. GR!Tip, NEW y \in 1 .. GR!Tip PROVE IsFiniteSet(GR!Mixed(x, y))
<1>1. main[x].tree \in DOMAIN Trees /\ main[y].tree \in DOMAIN Trees
  BY TreeOf
<1>2. /\ DOMAIN GR!T(x).sets = GR!Sets /\ IsFiniteSet(GR!Sets) /\ IsFiniteSet(GR!T(x).alone)
      /\ IsFiniteSet(GR!T(y).dirs)
  BY <1>1, TreesAssumption DEF GR!T
<1>3. ASSUME NEW s \in GR!Sets PROVE IsFiniteSet(Wanted(x, y, s))
  <2> DEFINE P == GR!Discovered(GR!T(x).sets[s], GR!T(y).dirs)
             f == [p \in P |-> GR!Expand(s, GR!T(x).sets[s], p)]
  <2>1. P \in SUBSET GR!T(y).dirs
    BY DEF GR!Discovered
  <2>2. IsFiniteSet(P)
    BY <1>2, <2>1, FS_Subset
  <2>3. Wanted(x, y, s) = {f[p] : p \in P}
    BY DEF Wanted
  <2>4. DOMAIN f = P
    OBVIOUS
  <2> HIDE DEF f, P
  <2> QED
    BY <2>2, <2>3, <2>4, FiniteImage
<1> DEFINE F == [s \in GR!Sets |-> Wanted(x, y, s)]
<1>4. IsFiniteSet({F[s] : s \in GR!Sets})
  <2>1. DOMAIN F = GR!Sets
    OBVIOUS
  <2> HIDE DEF F
  <2> QED
    BY <1>2, <2>1, FiniteImage
<1>5. IsFiniteSet(UNION {F[s] : s \in GR!Sets})
  BY <1>3, <1>4, FS_UNION
<1> DEFINE U == UNION {F[s] : s \in GR!Sets}
<1>6. GR!Mixed(x, y) = GR!T(x).alone \cup U
  BY <1>2 DEF GR!Mixed, Wanted, GR!Inventory
<1>7. IsFiniteSet(U)
  BY <1>5
<1> HIDE DEF U
<1> QED
  BY <1>2, <1>6, <1>7, FS_Union

LEMMA GuardsFinite == ASSUME NEW k \in DOMAIN Trees, NEW a PROVE IsFiniteSet(GR!Guards(Trees[k], a))
<1> DEFINE t == Trees[k]
           D == GR!DependencyDirs(t, a.path) \cap DOMAIN t.files
           O == UNION {t.files[d].objs : d \in D}
           R == {q \in GR!Rendered(t, a) : GR!Guarded(q)}
<1>1. IsFiniteSet(DOMAIN t.files) /\ \A d \in DOMAIN t.files : IsFiniteSet(t.files[d].objs)
  BY TreesAssumption
<1>2. IsFiniteSet(D)
  BY <1>1, FS_Subset
<1>3. IsFiniteSet(O)
  <2> DEFINE f == [d \in D |-> t.files[d].objs]
  <2>1. DOMAIN f = D /\ {t.files[d].objs : d \in D} = {f[d] : d \in D}
    OBVIOUS
  <2>2. IsFiniteSet({f[d] : d \in D})
    <3> HIDE DEF f, D
    <3> QED
      BY <1>2, <2>1, FiniteImage
  <2>3. \A T \in {t.files[d].objs : d \in D} : IsFiniteSet(T)
    BY <1>1
  <2> QED
    BY <2>1, <2>2, <2>3, FS_UNION
<1>4. IsFiniteSet(GR!Rendered(t, a))
  <2> DEFINE f == [o \in O |-> [ns |-> a.ns, obj |-> o]]
  <2>1. DOMAIN f = O /\ GR!Rendered(t, a) = {f[o] : o \in O}
    BY DEF GR!Rendered
  <2> HIDE DEF f, O
  <2> QED
    BY <1>3, <2>1, FiniteImage
<1>5. IsFiniteSet(R)
  BY <1>4, FS_Subset
<1>6. GR!Guards(t, a) = {GR!Key(r) : r \in R}
  BY DEF GR!Guards
<1> DEFINE f == [r \in R |-> GR!Key(r)]
<1>7. DOMAIN f = R /\ GR!Guards(t, a) = {f[r] : r \in R}
  BY <1>6
<1> HIDE DEF f, R
<1> QED
  BY <1>5, <1>7, FiniteImage

LEMMA Ranks ==
  /\ Rank(RootItem) = 0 /\ (\A s : Rank(SetItem(s)) = 1) /\ (\A a : Rank(AppItem(a)) = 2)
  /\ \A c : Rank(ObjectItem(c)) = 3
  BY DEF Rank, RootItem, SetItem, AppItem, ObjectItem

Below(seq, r) == \A i \in 1 .. Len(seq) : Rank(seq[i]) < r
Level(S, r) == \A x \in S : Rank(x) = r
Lists(seq, S) == \A x \in S : \E i \in 1 .. Len(seq) : seq[i] = x

LEMMA ItemRanks == \A item \in Items : Rank(item) \in Nat
  BY Ranks DEF Items

\* A part of the plan: a set as a sequence, all of one rank, behind what has none greater.
LEMMA Appended ==
  ASSUME NEW X, \A x \in X : Rank(x) \in Nat, NEW r \in Nat,
         NEW seq, seq \in Seq(X) /\ Sorted(seq) /\ Below(seq, r),
         NEW S, S \subseteq X /\ IsFiniteSet(S) /\ Level(S, r)
  PROVE  LET all == seq \o GR!SetToSeq(S) IN
         /\ all \in Seq(X) /\ Sorted(all) /\ Below(all, r + 1) /\ Lists(all, S)
         /\ \A P : Lists(seq, P) => Lists(all, P)
<1> DEFINE more == GR!SetToSeq(S)
           all == seq \o more
           n == Len(seq)
           m == Len(more)
<1>1. more \in Seq(S) /\ \A x \in S : \E i \in 1 .. m : more[i] = x
  BY SeqOfSet
<1>2. more \in Seq(X)
  BY <1>1, SeqMonotonic
<1>3. /\ all \in Seq(X) /\ Len(all) = n + m /\ n \in Nat /\ m \in Nat
      /\ \A i \in 1 .. n + m : all[i] = IF i <= n THEN seq[i] ELSE more[i - n]
  BY <1>2, ConcatProperties, LenProperties
<1> HIDE DEF more, all
<1>4. \A i \in 1 .. m : Rank(more[i]) = r
  <2>1. \A i \in 1 .. m : more[i] \in S
    BY <1>1, ElementOfSeq
  <2> QED
    BY <2>1 DEF Level
<1>5. \A i \in 1 .. n : Rank(seq[i]) \in Nat /\ Rank(seq[i]) < r
  BY ElementOfSeq DEF Below
<1>6. \A i \in 1 .. n : i \in 1 .. n + m /\ all[i] = seq[i]
  BY <1>3
<1>7. ASSUME NEW i \in 1 .. m PROVE i + n \in 1 .. n + m /\ all[i + n] = more[i]
  <2>1. i + n \in 1 .. n + m /\ ~(i + n <= n) /\ (i + n) - n = i
    BY <1>3
  <2> QED
    BY <1>3, <2>1
<1>8. \A i \in 1 .. n + m : i > n => i - n \in 1 .. m /\ all[i] = more[i - n]
  BY <1>3
<1>9. \A i \in 1 .. n + m : Rank(all[i]) \in Nat /\ Rank(all[i]) < r + 1 /\ (i > n => Rank(all[i]) = r)
  <2> SUFFICES ASSUME NEW i \in 1 .. n + m
               PROVE  Rank(all[i]) \in Nat /\ Rank(all[i]) < r + 1 /\ (i > n => Rank(all[i]) = r)
    OBVIOUS
  <2>1. CASE i > n
    <3>1. i - n \in 1 .. m /\ all[i] = more[i - n]
      BY <1>8, <2>1
    <3>2. Rank(more[i - n]) = r
      BY <1>4, <3>1
    <3> QED
      BY <3>1, <3>2
  <2>2. CASE ~(i > n)
    <3>1. i \in 1 .. n
      BY <1>3, <2>2
    <3> QED
      BY <1>5, <1>6, <2>2, <3>1
  <2> QED
    BY <2>1, <2>2
<1>10. Sorted(all)
  <2> SUFFICES ASSUME NEW i \in 1 .. n + m, NEW j \in 1 .. n + m, i < j PROVE Rank(all[i]) <= Rank(all[j])
    BY <1>3 DEF Sorted
  <2>1. CASE j > n
    <3>1. Rank(all[i]) \in Nat /\ Rank(all[i]) < r + 1
      BY <1>9
    <3>2. Rank(all[j]) = r
      BY <1>9, <2>1
    <3> QED
      BY <3>1, <3>2
  <2>2. CASE ~(j > n)
    <3>1. i \in 1 .. n /\ j \in 1 .. n
      BY <1>3, <2>2
    <3>2. Rank(seq[i]) <= Rank(seq[j])
      BY <3>1 DEF Sorted
    <3> QED
      BY <1>6, <3>1, <3>2
  <2> QED
    BY <2>1, <2>2
<1>11. \A x \in S : \E i \in 1 .. n + m : all[i] = x
  BY <1>1, <1>7
<1>12. Below(all, r + 1) /\ Lists(all, S) /\ \A P : Lists(seq, P) => Lists(all, P)
  BY <1>3, <1>6, <1>9, <1>11 DEF Below, Lists
<1> QED
  BY <1>3, <1>10, <1>12 DEF all, more

\* The plan names the root, every set, every Application to wait for and every object that must
\* survive, in this order.
LEMMA PlanInOrder ==
  ASSUME RolloutTyped, FiniteInv
  PROVE  LET p == GR!Plan(GR!T(GR!Tip)) IN
         /\ p \in Seq(Items) /\ Sorted(p)
         /\ \E i \in 1 .. Len(p) : p[i] = RootItem
         /\ \A s \in GR!Sets : \E i \in 1 .. Len(p) : p[i] = SetItem(s)
         /\ \A a \in Planned(GR!Tip) : \E i \in 1 .. Len(p) : p[i] = AppItem(a)
         /\ \A c \in baseline : \E i \in 1 .. Len(p) : p[i] = ObjectItem(c)
<1> DEFINE ss == {SetItem(s) : s \in GR!Sets}
           aa == {AppItem(a) : a \in Planned(GR!Tip)}
           oo == {ObjectItem(c) : c \in baseline}
           one == <<RootItem>>
           two == one \o GR!SetToSeq(ss)
           three == two \o GR!SetToSeq(aa)
           four == three \o GR!SetToSeq(oo)
<1>1. GR!Tip \in 1 .. GR!Tip /\ main[GR!Tip].tree \in DOMAIN Trees
  BY RecentCommits, TreeOf
<1>2. DOMAIN GR!T(GR!Tip).sets = GR!Sets /\ IsFiniteSet(GR!Sets)
  BY <1>1, TreesAssumption DEF GR!T
<1>3. GR!Plan(GR!T(GR!Tip)) = four
  BY <1>2 DEF GR!Plan, SetItem, AppItem, ObjectItem, RootItem, Planned
<1>4. IsFiniteSet(ss)
  <2> DEFINE f == [s \in GR!Sets |-> SetItem(s)]
  <2>1. DOMAIN f = GR!Sets /\ ss = {f[s] : s \in GR!Sets}
    OBVIOUS
  <2> HIDE DEF f, ss
  <2> QED
    BY <1>2, <2>1, FiniteImage
<1>5. IsFiniteSet(aa)
  <2> DEFINE P == Planned(GR!Tip)
             f == [a \in P |-> AppItem(a)]
  <2>1. DOMAIN f = P /\ aa = {f[a] : a \in P}
    OBVIOUS
  <2>2. P \in SUBSET GR!Mixed(GR!Tip, GR!Tip)
    BY DEF Planned, GR!Mixed, GR!Settled
  <2>3. IsFiniteSet(P)
    BY <1>1, <2>2, MixedFinite, FS_Subset
  <2> HIDE DEF f, aa, P
  <2> QED
    BY <2>1, <2>3, FiniteImage
<1>6. IsFiniteSet(oo)
  <2> DEFINE f == [c \in baseline |-> ObjectItem(c)]
  <2>1. DOMAIN f = baseline /\ oo = {f[c] : c \in baseline}
    OBVIOUS
  <2> HIDE DEF f, oo
  <2> QED
    BY <2>1, FiniteImage DEF FiniteInv
<1>7. Items = {RootItem} \cup ss \cup aa \cup oo
  BY DEF Items
<1>8. Rank(RootItem) = 0 /\ Level(ss, 1) /\ Level(aa, 2) /\ Level(oo, 3)
  BY Ranks DEF Level
<1> HIDE DEF ss, aa, oo
<1>9. \A x \in Items : Rank(x) \in Nat
  BY <1>7, <1>8 DEF Level
<1>10. one \in Seq(Items) /\ Sorted(one) /\ Below(one, 1) /\ Lists(one, {RootItem})
  BY <1>7, <1>8 DEF Sorted, Below, Lists
<1>11. ss \subseteq Items /\ aa \subseteq Items /\ oo \subseteq Items
  BY <1>7
<1> HIDE DEF one, two, three, four
<1>12. /\ two \in Seq(Items) /\ Sorted(two) /\ Below(two, 1 + 1) /\ Lists(two, ss)
       /\ \A P : Lists(one, P) => Lists(two, P)
  BY <1>4, <1>8, <1>9, <1>10, <1>11, Appended DEF two
<1>13. Below(two, 2)
  BY <1>12
<1>14. /\ three \in Seq(Items) /\ Sorted(three) /\ Below(three, 2 + 1) /\ Lists(three, aa)
       /\ \A P : Lists(two, P) => Lists(three, P)
  BY <1>5, <1>8, <1>9, <1>11, <1>12, <1>13, Appended DEF three
<1>15. Below(three, 3)
  BY <1>14
<1>16. /\ four \in Seq(Items) /\ Sorted(four) /\ Below(four, 3 + 1) /\ Lists(four, oo)
       /\ \A P : Lists(three, P) => Lists(four, P)
  BY <1>6, <1>8, <1>9, <1>11, <1>14, <1>15, Appended DEF four
<1>17. Lists(four, {RootItem}) /\ Lists(four, ss) /\ Lists(four, aa) /\ Lists(four, oo)
  BY <1>10, <1>12, <1>14, <1>16
<1> QED
  BY <1>3, <1>16, <1>17 DEF ss, aa, oo, Lists

-----------------------------------------------------------------------------
(* What steps leave alone *)

\* Without a merge.
LEMMA SameCommits ==
  ASSUME main' = main
  PROVE  /\ GR!Tip' = GR!Tip /\ GR!Before' = GR!Before /\ GR!Recent' = GR!Recent /\ GR!Sets' = GR!Sets
         /\ \A x : GR!T(x)' = GR!T(x) /\ GR!Alone(x)' = GR!Alone(x) /\ Planned(x)' = Planned(x)
         /\ \A x, y : GR!Mixed(x, y)' = GR!Mixed(x, y) /\ \A s : Wanted(x, y, s)' = Wanted(x, y, s)
         /\ MixInv => MixInv'
<1>1. GR!Tip' = GR!Tip /\ GR!Before' = GR!Before /\ GR!Recent' = GR!Recent /\ GR!Sets' = GR!Sets
  BY DEF GR!Tip, GR!Before, GR!Recent, GR!Sets
<1>2. \A x : GR!T(x)' = GR!T(x)
  BY DEF GR!T
<1>3. \A x : GR!Alone(x)' = GR!Alone(x) /\ Planned(x)' = Planned(x)
  BY <1>2 DEF GR!Alone, Planned
<1>4. \A x, y : GR!Mixed(x, y)' = GR!Mixed(x, y) /\ \A s : Wanted(x, y, s)' = Wanted(x, y, s)
  BY <1>2 DEF GR!Mixed, Wanted
<1>5. MixInv => MixInv'
  BY <1>1, <1>4 DEF MixInv
<1> QED
  BY <1>1, <1>2, <1>3, <1>4, <1>5

\* What was read stays read without a step of the gate.
LEMMA SameReads == ASSUME gate' = gate, NEW item PROVE ReadWell(item)' <=> ReadWell(item)
  BY DEF ReadWell

LEMMA ReadsStay ==
  ASSUME main' = main, gate' = gate, ReadInv,
         ReadWell(RootItem) => ~root'.running /\ root'.rev = GR!Tip /\ specs' = specs,
         \A a \in Planned(GR!Tip) : ReadWell(AppItem(a)) => Deployed(a)'
  PROVE  ReadInv'
<1>1. GR!Tip' = GR!Tip /\ GR!Sets' = GR!Sets /\ Planned(GR!Tip)' = Planned(GR!Tip) /\ \A x : GR!T(x)' = GR!T(x)
  BY SameCommits
<1>2. \A item : ReadWell(item)' <=> ReadWell(item)
  BY SameReads
<1>3. \A s \in GR!Sets : specs' = specs /\ GR!SetOk(s) => GR!SetOk(s)'
  BY <1>1 DEF GR!SetOk
<1>4. \A s \in GR!Sets : ReadWell(SetItem(s)) => ReadWell(RootItem) /\ GR!SetOk(s) /\ GR!SetOk(s)'
  BY <1>3 DEF ReadInv
<1>5. \A a \in Planned(GR!Tip) : ReadWell(AppItem(a)) => ReadWell(RootItem) /\ \A s \in GR!Sets : ReadWell(SetItem(s))
  BY DEF ReadInv
<1> QED
  BY <1>1, <1>2, <1>4, <1>5 DEF ReadInv

\* What concerns the sets and the Applications, where their definitions stay.
DefsStay == DOMAIN apps' = DOMAIN apps /\ \A n \in DOMAIN apps : apps'[n].def = apps[n].def

LEMMA ClusterStays ==
  ASSUME main' = main, specs' = specs, view' = view, DefsStay,
         MixInv /\ SetsInv /\ PathInv /\ SurviveInv
  PROVE  /\ MixInv' /\ SetsInv' /\ PathInv' /\ SurviveInv'
         /\ \A a : Deployed(a)' <=> Deployed(a)
<1>1. /\ GR!Tip' = GR!Tip /\ GR!Before' = GR!Before /\ GR!Recent' = GR!Recent /\ GR!Sets' = GR!Sets
      /\ \A x : GR!T(x)' = GR!T(x)
      /\ \A x, y : GR!Mixed(x, y)' = GR!Mixed(x, y)
      /\ MixInv'
  BY SameCommits
<1>2. SetsInv'
  BY <1>1 DEF SetsInv
<1>3. PathInv'
  BY <1>1 DEF PathInv, DefsStay
<1>4. SurviveInv'
  BY <1>1 DEF SurviveInv, DefsStay
<1> QED
  BY <1>1, <1>2, <1>3, <1>4 DEF Deployed, DefsStay

-----------------------------------------------------------------------------
(* The gate *)

LEMMA ReadStep ==
  ASSUME RolloutTyped, OrderInv, GR!GateRead
  PROVE  /\ gate.at = "reading" /\ gate.todo \in Seq(Items) /\ Sorted(gate.todo) /\ gate.todo # <<>>
         /\ Len(gate.todo) \in Nat /\ Len(gate.todo) >= 1
         /\ gate'.at = "reading" /\ gate'.todo = Tail(gate.todo) /\ gate'.todo \in Seq(Items)
         /\ gate'.ok <=> gate.ok /\ GR!Check(gate.todo[1])
         /\ Len(gate'.todo) = Len(gate.todo) - 1
         /\ \A i \in 1 .. Len(gate'.todo) : i + 1 \in 2 .. Len(gate.todo) /\ gate'.todo[i] = gate.todo[i + 1]
<1>1. /\ gate.at = "reading" /\ gate.todo \in Seq(Items) /\ Sorted(gate.todo) /\ gate.todo # <<>>
      /\ gate = [at |-> gate.at, todo |-> gate.todo, ok |-> gate.ok]
      /\ gate' = [gate EXCEPT !.todo = Tail(@), !.ok = @ /\ GR!Check(gate.todo[1])]
  BY DEF OrderInv, GR!GateRead, RolloutTyped
<1>2. gate' = [at |-> gate.at, todo |-> Tail(gate.todo), ok |-> gate.ok /\ GR!Check(gate.todo[1])]
  BY <1>1
<1>3. Len(gate.todo) \in Nat /\ Len(gate.todo) >= 1
  BY <1>1, EmptySeq
<1>4. /\ Tail(gate.todo) \in Seq(Items) /\ Len(Tail(gate.todo)) = Len(gate.todo) - 1
      /\ \A i \in 1 .. Len(gate.todo) - 1 : Tail(gate.todo)[i] = gate.todo[i + 1]
  BY <1>1, <1>3
<1>5. \A i \in 1 .. Len(gate.todo) - 1 : i + 1 \in 2 .. Len(gate.todo)
  BY <1>3
<1> QED
  BY <1>1, <1>2, <1>3, <1>4, <1>5

\* An item is read well if it was, or if it is the next one and holds.
LEMMA ReadOn ==
  ASSUME RolloutTyped, OrderInv, GR!GateRead, NEW item, ReadWell(item)'
  PROVE  /\ gate.ok /\ gate'.ok
         /\ ReadWell(item) \/ (item = gate.todo[1] /\ GR!Check(item))
         /\ \A i \in 1 .. Len(gate'.todo) : gate'.todo[i] # item
<1>1. gate'.ok /\ \A i \in 1 .. Len(gate'.todo) : gate'.todo[i] # item
  BY ReadStep DEF ReadWell
<1>2. gate.ok /\ GR!Check(gate.todo[1])
  BY <1>1, ReadStep
<1>3. ASSUME NEW i \in 1 .. Len(gate.todo), i # 1 PROVE gate.todo[i] # item
  <2>1. i - 1 \in 1 .. Len(gate'.todo) /\ (i - 1) + 1 = i
    BY <1>3, ReadStep
  <2>2. gate'.todo[i - 1] = gate.todo[i]
    BY <2>1, ReadStep
  <2> QED
    BY <1>1, <2>1, <2>2
<1>4. CASE item = gate.todo[1]
  BY <1>1, <1>2, <1>4
<1>5. CASE item # gate.todo[1]
  <2>1. \A i \in 1 .. Len(gate.todo) : gate.todo[i] # item
    BY <1>3, <1>5
  <2> QED
    BY <1>1, <1>2, <2>1, ReadStep DEF ReadWell
<1> QED
  BY <1>4, <1>5

\* Then what has a smaller rank has been read well, too.
LEMMA ReadBefore ==
  ASSUME RolloutTyped, OrderInv, GR!GateRead, gate'.ok, NEW item \in Items, Rank(item) \in Nat,
         ReadWell(item) \/ Rank(item) < Rank(gate.todo[1])
  PROVE  ReadWell(item)'
<1>1. SUFFICES ASSUME NEW i \in 1 .. Len(gate'.todo), gate'.todo[i] = item PROVE FALSE
  BY ReadStep DEF ReadWell
<1>2. i + 1 \in 1 .. Len(gate.todo) /\ gate.todo[i + 1] = item /\ 1 \in 1 .. Len(gate.todo) /\ 1 < i + 1
  BY <1>1, ReadStep
<1>3. CASE ReadWell(item)
  BY <1>2, <1>3, ReadStep DEF ReadWell
<1>4. CASE Rank(item) < Rank(gate.todo[1])
  <2>1. Rank(gate.todo[1]) <= Rank(gate.todo[i + 1])
    BY <1>2, ReadStep DEF Sorted
  <2>2. Rank(gate.todo[1]) \in Nat
    BY <1>2, ReadStep, ElementOfSeq, ItemRanks
  <2> QED
    BY <1>2, <1>4, <2>1, <2>2
<1> QED
  BY <1>3, <1>4

LEMMA ReadKeeps ==
  ASSUME RolloutTyped, OrderInv, CalmParts, GR!GateRead
  PROVE  ReadInv'
<1> DEFINE next == gate.todo[1]
<1>1. /\ main' = main /\ specs' = specs /\ view' = view /\ apps' = apps /\ root' = root
  BY DEF GR!GateRead, GR!cluster
<1>2. /\ GR!Tip' = GR!Tip /\ GR!Sets' = GR!Sets /\ Planned(GR!Tip)' = Planned(GR!Tip) /\ \A x : GR!T(x)' = GR!T(x)
      /\ \A s : GR!SetOk(s)' <=> GR!SetOk(s)
      /\ \A a : Deployed(a)' <=> Deployed(a)
  BY <1>1, SameCommits DEF GR!SetOk, Deployed
<1>3. /\ RootItem \in Items /\ \A s \in GR!Sets : SetItem(s) \in Items
  BY DEF Items
<1>4. ASSUME ReadWell(RootItem)' PROVE ~root.running /\ root.rev = GR!Tip
  <2>1. CASE ReadWell(RootItem)
    BY <2>1 DEF CalmParts, ReadInv
  <2>2. CASE GR!Check(RootItem)
    BY <2>2 DEF GR!Check, RootItem, GR!RootOk
  <2> QED
    BY <1>4, <2>1, <2>2, ReadOn
<1>5. ASSUME NEW s \in GR!Sets, ReadWell(SetItem(s))' PROVE ReadWell(RootItem)' /\ GR!SetOk(s)
  <2>1. gate'.ok
    BY <1>5, ReadOn
  <2>2. CASE ReadWell(SetItem(s))
    <3>1. ReadWell(RootItem) /\ GR!SetOk(s)
      BY <2>2 DEF CalmParts, ReadInv
    <3> QED
      BY <1>3, <2>1, <3>1, ReadBefore, Ranks
  <2>3. CASE SetItem(s) = next /\ GR!Check(SetItem(s))
    <3>1. GR!SetOk(s)
      BY <2>3 DEF GR!Check, SetItem
    <3>2. Rank(RootItem) \in Nat /\ Rank(RootItem) < Rank(next)
      BY <2>3, Ranks
    <3> QED
      BY <1>3, <2>1, <3>1, <3>2, ReadBefore
  <2> QED
    BY <1>5, <2>2, <2>3, ReadOn
<1>6. ASSUME NEW a \in Planned(GR!Tip), ReadWell(AppItem(a))'
      PROVE  Deployed(a) /\ ReadWell(RootItem)' /\ \A s \in GR!Sets : ReadWell(SetItem(s))'
  <2>1. gate'.ok
    BY <1>6, ReadOn
  <2>2. CASE ReadWell(AppItem(a))
    <3>1. Deployed(a) /\ ReadWell(RootItem) /\ \A s \in GR!Sets : ReadWell(SetItem(s))
      BY <2>2 DEF CalmParts, ReadInv
    <3>2. ReadWell(RootItem)'
      BY <1>3, <2>1, <3>1, ReadBefore, Ranks
    <3>3. ASSUME NEW s \in GR!Sets PROVE ReadWell(SetItem(s))'
      BY <1>3, <2>1, <3>1, ReadBefore, Ranks
    <3> QED
      BY <3>1, <3>2, <3>3
  <2>3. CASE AppItem(a) = next /\ GR!Check(AppItem(a))
    <3>1. a.name \in DOMAIN apps /\ apps[a.name] = [def |-> a, rev |-> GR!Tip]
      BY <2>3 DEF GR!Check, AppItem, GR!AppOk, GR!Live
    <3>2. Deployed(a)
      BY <3>1 DEF Deployed
    <3>3. Rank(RootItem) \in Nat /\ Rank(RootItem) < Rank(next)
      BY <2>3, Ranks
    <3>4. ReadWell(RootItem)'
      BY <1>3, <2>1, <3>3, ReadBefore
    <3>5. ASSUME NEW s \in GR!Sets PROVE ReadWell(SetItem(s))'
      <4>1. Rank(SetItem(s)) \in Nat /\ Rank(SetItem(s)) < Rank(next)
        BY <2>3, Ranks
      <4> QED
        BY <1>3, <2>1, <4>1, ReadBefore
    <3> QED
      BY <3>2, <3>4, <3>5
  <2> QED
    BY <1>6, <2>2, <2>3, ReadOn
<1> QED
  BY <1>1, <1>2, <1>4, <1>5, <1>6 DEF ReadInv

\* The gate keeps them all.
LEMMA GateCalm ==
  ASSUME RolloutTyped, FiniteInv, OrderInv, GR!Gate
  PROVE  FiniteInv' /\ OrderInv' /\ (CalmParts => CalmParts')
<1>1. /\ main' = main /\ specs' = specs /\ view' = view /\ apps' = apps /\ root' = root
      /\ claims' = claims /\ baseline' = baseline
  BY DEF GR!Gate, GR!GateStart, GR!GateRead, GR!GateReport, GR!cluster
<1>2. /\ GR!Tip' = GR!Tip /\ GR!Sets' = GR!Sets /\ Planned(GR!Tip)' = Planned(GR!Tip)
      /\ GR!Alone(GR!Tip)' = GR!Alone(GR!Tip)
  BY <1>1, SameCommits
<1>3. Items' = Items
  BY <1>1, <1>2 DEF Items
<1>4. FiniteInv'
  BY <1>1 DEF FiniteInv
<1>5. ASSUME CalmParts PROVE MixInv' /\ SetsInv' /\ PathInv' /\ SurviveInv' /\ RootInv'
  <2>1. /\ MixInv' /\ SetsInv' /\ PathInv' /\ SurviveInv'
        /\ \A a : Deployed(a)' <=> Deployed(a)
    BY <1>1, <1>5, ClusterStays DEF CalmParts, DefsStay
  <2>2. RootInv'
    BY <1>1, <1>2, <1>5, <2>1 DEF CalmParts, RootInv
  <2> QED
    BY <2>1, <2>2
<1>6. CASE GR!GateStart
  <2> DEFINE todo == GR!Plan(GR!T(GR!Tip))
  <2>1. gate' = [at |-> "reading", todo |-> todo, ok |-> TRUE]
    BY <1>6 DEF GR!GateStart
  <2>2. /\ todo \in Seq(Items) /\ Sorted(todo)
        /\ \E i \in 1 .. Len(todo) : todo[i] = RootItem
        /\ \A s \in GR!Sets : \E i \in 1 .. Len(todo) : todo[i] = SetItem(s)
        /\ \A a \in Planned(GR!Tip) : \E i \in 1 .. Len(todo) : todo[i] = AppItem(a)
    BY PlanInOrder
  <2> HIDE DEF todo
  <2>3. OrderInv'
    BY <1>3, <2>1, <2>2 DEF OrderInv, Sorted
  <2>4. /\ ~ReadWell(RootItem)' /\ \A s \in GR!Sets : ~ReadWell(SetItem(s))'
        /\ \A a \in Planned(GR!Tip) : ~ReadWell(AppItem(a))'
    BY <2>1, <2>2 DEF ReadWell
  <2>5. ReadInv'
    BY <1>2, <2>4 DEF ReadInv
  <2> QED
    BY <1>4, <1>5, <2>3, <2>5 DEF CalmParts
<1>7. CASE GR!GateRead
  <2>1. OrderInv'
    <3>1. gate'.todo \in Seq(Items)'
      BY <1>3, <1>7, ReadStep
    <3>2. ASSUME NEW i \in 1 .. Len(gate'.todo), NEW j \in 1 .. Len(gate'.todo), i < j
          PROVE  Rank(gate'.todo[i]) <= Rank(gate'.todo[j])
      <4>1. /\ i + 1 \in 1 .. Len(gate.todo) /\ j + 1 \in 1 .. Len(gate.todo) /\ i + 1 < j + 1
            /\ gate'.todo[i] = gate.todo[i + 1] /\ gate'.todo[j] = gate.todo[j + 1]
        <5>1. i + 1 \in 2 .. Len(gate.todo) /\ gate'.todo[i] = gate.todo[i + 1]
          BY <1>7, ReadStep
        <5>2. j + 1 \in 2 .. Len(gate.todo) /\ gate'.todo[j] = gate.todo[j + 1]
          BY <1>7, ReadStep
        <5>3. i \in Int /\ j \in Int
          OBVIOUS
        <5>4. \A k : k \in 2 .. Len(gate.todo) => k \in 1 .. Len(gate.todo)
          BY <1>7, ReadStep
        <5>5. i + 1 < j + 1
          BY <3>2, <5>3
        <5> QED
          BY <5>1, <5>2, <5>4, <5>5
      <4> QED
        BY <1>7, <4>1, ReadStep DEF Sorted
    <3> QED
      BY <3>1, <3>2 DEF OrderInv, Sorted
  <2> QED
    BY <1>4, <1>5, <1>7, <2>1, ReadKeeps DEF CalmParts
<1>8. CASE GR!GateReport
  <2>1. /\ gate.at = "reading" /\ gate.todo = <<>>
        /\ gate = [at |-> gate.at, todo |-> gate.todo, ok |-> gate.ok]
        /\ gate' = [gate EXCEPT !.at = IF gate.ok THEN "pass" ELSE "block", !.ok = TRUE]
    BY <1>8 DEF GR!GateReport, RolloutTyped
  <2>2. gate' = [at |-> IF gate.ok THEN "pass" ELSE "block", todo |-> gate.todo, ok |-> TRUE]
    BY <2>1
  <2>3. gate'.at # "reading" /\ (gate'.at = "pass" => gate.ok)
    BY <2>2
  <2>4. \A item : ReadWell(item)' => ReadWell(item)
    BY <2>1, <2>3 DEF ReadWell
  <2>5. \A item : ReadWell(item)' => gate'.at = "pass"
    BY <2>3 DEF ReadWell
  <2>6. ASSUME CalmParts PROVE ReadInv'
    <3>1. /\ \A s : GR!SetOk(s)' <=> GR!SetOk(s)
          /\ \A a : Deployed(a)' <=> Deployed(a)
      BY <1>1, SameCommits DEF GR!SetOk, Deployed
    <3>2. ReadInv
      BY <2>6 DEF CalmParts
    <3>3. gate'.at = "pass" => \A item : ReadWell(item)'
      BY DEF ReadWell
    <3> QED
      BY <1>1, <1>2, <2>4, <2>5, <3>1, <3>2, <3>3 DEF ReadInv
  <2>7. OrderInv'
    BY <2>3 DEF OrderInv
  <2> QED
    BY <1>4, <1>5, <2>6, <2>7 DEF CalmParts
<1> QED
  BY <1>6, <1>7, <1>8 DEF GR!Gate

-----------------------------------------------------------------------------
(* The beginning *)

LEMMA CalmInit == GR!Init => CalmParts /\ FiniteInv /\ OrderInv
<1> SUFFICES ASSUME GR!Init PROVE CalmParts /\ FiniteInv /\ OrderInv
  OBVIOUS
<1> DEFINE S == GR!Settled(Trees[1])
<1>1. RolloutTyped
  BY RolloutInit
<1>2. GR!Tip = 1 /\ main[1].tree = 1
  BY DEF GR!Init, GR!Tip
<1>3. GR!Before = 1 /\ GR!Recent = {1} /\ GR!T(1) = Trees[1] /\ GR!Mixed(1, 1) = S
  BY <1>2 DEF GR!Before, GR!Recent, GR!T, GR!Mixed, GR!Settled
<1>4. apps = [n \in GR!Names(S) |-> GR!Live(GR!Named(S, n), 1)]
  BY DEF GR!Init
<1>5. ~GR!Duplicate(S)
  BY TreesAssumption
<1>6. \A a \in S : a.name \in DOMAIN apps /\ apps[a.name].def = a
  <2> SUFFICES ASSUME NEW a \in S PROVE a.name \in DOMAIN apps /\ apps[a.name].def = a
    OBVIOUS
  <2>1. a.name \in GR!Names(S) /\ GR!Named(S, a.name) = a
    BY <1>5, NamedIs
  <2> QED
    BY <1>4, <2>1 DEF GR!Live
<1>7. \A n \in DOMAIN apps : apps[n].def \in S
  BY <1>4, NamedHasName DEF GR!Live
<1>8. 1 \in 1 .. GR!Tip
  BY <1>2
<1>9. /\ GR!T(1).alone \subseteq S
      /\ \A a \in S : IF a.owner \in GR!Sets THEN a.path \in GR!T(1).dirs ELSE a \in GR!T(1).alone
  <2>1. GR!Mixed(1, 1) = S
    BY <1>3
  <2> HIDE DEF S
  <2> QED
    BY <1>1, <1>8, <2>1, MixedParts
<1>10. MixInv
  <2> HIDE DEF S
  <2> QED
    BY <1>3, <1>5 DEF MixInv, Same
<1>11. SetsInv
  BY <1>3 DEF SetsInv, GR!Init
<1>12. PathInv
  BY <1>3, <1>7, <1>9 DEF PathInv
<1>13. SurviveInv
  BY <1>3, <1>6 DEF SurviveInv, Same
<1>14. RootInv
  BY <1>2, <1>6, <1>9 DEF RootInv, GR!Init, GR!Alone, Deployed
<1>15. gate.at = "idle"
  BY DEF GR!Init
<1>16. ReadInv /\ OrderInv
  BY <1>15 DEF ReadInv, ReadWell, OrderInv
<1>17. IsFiniteSet(claims) /\ baseline = claims
  <2> DEFINE Of == [a \in S |-> {[key |-> k, app |-> a.name, uid |-> 0] : k \in GR!Guards(Trees[1], a)}]
  <2>1. IsFiniteSet(S)
    BY <1>1, <1>3, <1>8, MixedFinite
  <2>2. \A a \in S : IsFiniteSet(Of[a])
    <3> SUFFICES ASSUME NEW a \in S PROVE IsFiniteSet(Of[a])
      OBVIOUS
    <3> DEFINE G == GR!Guards(Trees[1], a)
               f == [k \in G |-> [key |-> k, app |-> a.name, uid |-> 0]]
    <3>1. IsFiniteSet(G)
      BY TreesAssumption, GuardsFinite
    <3>2. DOMAIN f = G /\ Of[a] = {f[k] : k \in G}
      OBVIOUS
    <3> HIDE DEF f, G, Of
    <3> QED
      BY <3>1, <3>2, FiniteImage
  <2>3. DOMAIN Of = S /\ claims = UNION {Of[a] : a \in S} /\ baseline = claims
    BY DEF GR!Init
  <2> HIDE DEF Of, S
  <2>4. IsFiniteSet({Of[a] : a \in S})
    BY <2>1, <2>3, FiniteImage
  <2> QED
    BY <2>2, <2>3, <2>4, FS_UNION
<1> QED
  BY <1>10, <1>11, <1>12, <1>13, <1>14, <1>16, <1>17 DEF CalmParts, FiniteInv

-----------------------------------------------------------------------------
(* The root, and what a set reads *)

LEMMA OrderStays == ASSUME main' = main, gate' = gate, baseline' = baseline, OrderInv PROVE OrderInv'
<1>1. Items' = Items
  BY SameCommits DEF Items
<1> QED
  BY <1>1 DEF OrderInv, Sorted

LEMMA RootCalm ==
  ASSUME RolloutTyped, CalmParts, GR!RootCompare \/ GR!RootStart \/ GR!RootDone
  PROVE  CalmParts'
<1>1. main' = main /\ specs' = specs /\ view' = view /\ apps' = apps /\ gate' = gate
  BY DEF GR!RootCompare, GR!RootStart, GR!RootDone
<1>2. /\ MixInv' /\ SetsInv' /\ PathInv' /\ SurviveInv'
      /\ \A a : Deployed(a)' <=> Deployed(a)
  BY <1>1, ClusterStays DEF CalmParts, DefsStay
<1>3. GR!Tip' = GR!Tip /\ GR!Alone(GR!Tip)' = GR!Alone(GR!Tip)
  BY <1>1, SameCommits
<1>4. root = [running |-> root.running, rev |-> root.rev, compared |-> root.compared, todo |-> root.todo]
  BY DEF RolloutTyped
<1>5. \A a \in Planned(GR!Tip) : ReadWell(AppItem(a)) => Deployed(a)'
  BY <1>2 DEF CalmParts, ReadInv
<1>6. CASE GR!RootCompare
  <2>1. root' = [running |-> root.running, rev |-> root.rev, compared |-> GR!Tip, todo |-> root.todo]
    BY <1>4, <1>6 DEF GR!RootCompare
  <2>2. RootInv'
    BY <1>2, <1>3, <2>1 DEF CalmParts, RootInv
  <2>3. ReadWell(RootItem) => ~root'.running /\ root'.rev = GR!Tip /\ specs' = specs
    BY <1>1, <2>1 DEF CalmParts, ReadInv
  <2>4. ReadInv'
    BY <1>1, <1>5, <2>3, ReadsStay DEF CalmParts
  <2> QED
    BY <1>2, <2>2, <2>4 DEF CalmParts
<1>7. CASE GR!RootStart
  <2>1. root' = [running |-> TRUE, rev |-> GR!Tip, compared |-> GR!Tip,
                 todo |-> {<<s>> : s \in GR!Sets} \cup GR!Names(GR!Alone(GR!Tip))]
    BY <1>7 DEF GR!RootStart
  <2>2. root.rev # GR!Tip
    BY <1>7, RecentCommits DEF GR!RootStart, RolloutTyped, GR!TypeOK
  <2>3. RootInv'
    <3>1. root'.running /\ root'.rev = GR!Tip /\ \A a \in GR!Alone(GR!Tip) : a.name \in root'.todo
      BY <2>1 DEF GR!Names
    <3> QED
      BY <1>3, <3>1 DEF RootInv
  <2>4. ReadInv'
    BY <1>1, <1>5, <2>2, ReadsStay DEF CalmParts, ReadInv
  <2> QED
    BY <1>2, <2>3, <2>4 DEF CalmParts
<1>8. CASE GR!RootDone
  <2>1. root.running /\ root' = [running |-> FALSE, rev |-> root.rev, compared |-> root.compared, todo |-> root.todo] /\ root.todo = {}
    BY <1>4, <1>8 DEF GR!RootDone
  <2>2. RootInv'
    BY <1>2, <1>3, <2>1 DEF CalmParts, RootInv
  <2>3. ReadInv'
    BY <1>1, <1>5, <2>1, ReadsStay DEF CalmParts, ReadInv
  <2> QED
    BY <1>2, <2>2, <2>3 DEF CalmParts
<1> QED
  BY <1>6, <1>7, <1>8

LEMMA ApplySetCalm ==
  ASSUME RolloutTyped, CalmParts, NEW s \in GR!Sets, GR!RootApplySet(s)
  PROVE  CalmParts'
<1>1. /\ main' = main /\ view' = view /\ apps' = apps /\ gate' = gate
      /\ root.running /\ specs' = [specs EXCEPT ![s] = root.rev] /\ root' = [root EXCEPT !.todo = @ \ {<<s>>}]
  BY DEF GR!RootApplySet
<1>2. /\ GR!Tip' = GR!Tip /\ GR!Before' = GR!Before /\ GR!Recent' = GR!Recent /\ GR!Sets' = GR!Sets
      /\ \A x : GR!T(x)' = GR!T(x) /\ GR!Alone(x)' = GR!Alone(x)
      /\ \A x, y : GR!Mixed(x, y)' = GR!Mixed(x, y)
      /\ MixInv'
  BY <1>1, SameCommits DEF CalmParts
<1>3. root.rev = GR!Tip
  BY <1>1 DEF CalmParts, RootInv
<1>4. root' = [running |-> root.running, rev |-> root.rev, compared |-> root.compared, todo |-> root.todo \ {<<s>>}]
  <2>1. root = [running |-> root.running, rev |-> root.rev, compared |-> root.compared, todo |-> root.todo]
    BY DEF RolloutTyped
  <2> QED
    BY <1>1, <2>1
<1>5. \A a : Deployed(a)' <=> Deployed(a)
  BY <1>1 DEF Deployed
<1>6. SetsInv'
  <2>1. SetsInv /\ specs \in [GR!Sets -> 1 .. GR!Tip] /\ GR!Tip \in GR!Recent
    BY DEF CalmParts, RolloutTyped, GR!TypeOK, GR!Recent
  <2>2. ASSUME NEW r \in GR!Sets PROVE view'[r] \in GR!Recent /\ \E x \in GR!Recent : GR!T(specs'[r]).sets[r] = GR!T(x).sets[r]
    <3>1. CASE r = s
      BY <1>1, <1>3, <2>1, <3>1 DEF SetsInv
    <3>2. CASE r # s
      <4>1. specs'[r] = specs[r]
        BY <1>1, <2>1, <3>2
      <4> QED
        BY <1>1, <2>1, <4>1 DEF SetsInv
    <3> QED
      BY <3>1, <3>2
  <2> QED
    BY <1>2, <2>2 DEF SetsInv
<1>7. PathInv' /\ SurviveInv'
  BY <1>1, <1>2 DEF CalmParts, PathInv, SurviveInv
<1>8. RootInv'
  <2>1. ASSUME NEW a \in GR!Alone(GR!Tip) PROVE a.name # <<s>>
    <3>1. a \in GR!T(GR!Tip).alone
      BY DEF GR!Alone
    <3>2. GR!Tip \in 1 .. GR!Tip
      BY RecentCommits
    <3>3. a.name \notin {<<r>> : r \in GR!Sets}
      BY <3>1, <3>2, MixedParts
    <3>4. <<s>> \in {<<r>> : r \in GR!Sets}
      OBVIOUS
    <3> QED
      BY <3>3, <3>4
  <2>2. \A a \in GR!Alone(GR!Tip) : a.name \in root'.todo \/ Deployed(a)
    BY <1>3, <1>4, <2>1 DEF CalmParts, RootInv
  <2> QED
    BY <1>1, <1>2, <1>3, <1>4, <1>5, <2>2 DEF RootInv
<1>9. ReadInv'
  BY <1>1, <1>5, ReadsStay DEF CalmParts, ReadInv
<1> QED
  BY <1>2, <1>6, <1>7, <1>8, <1>9 DEF CalmParts

\* An Application among the recent ones is the only one of its name.
LEMMA OneOfName ==
  ASSUME MixInv, NEW x \in GR!Recent, NEW y \in GR!Recent, NEW a \in GR!Mixed(x, y), NEW b \in GR!Mixed(x, y), a.name = b.name
  PROVE  a = b
  BY DEF MixInv, GR!Duplicate

\* What the commit before has of a name is what the mixture has of it, up to its source.
LEMMA KeptIn ==
  ASSUME MixInv, NEW x \in GR!Recent, NEW y \in GR!Recent, NEW a \in GR!Mixed(GR!Before, GR!Before), NEW b \in GR!Mixed(x, y), a.name = b.name
  PROVE  Same(a, b)
<1>1. PICK c \in GR!Mixed(x, y) : Same(a, c)
  BY DEF MixInv
<1>2. c = b
  BY <1>1, OneOfName DEF Same
<1> QED
  BY <1>1, <1>2

LEMMA ApplyAppCalm ==
  ASSUME RolloutTyped, CalmParts, NEW n, GR!RootApplyApp(n)
  PROVE  CalmParts'
<1>1. /\ main' = main /\ specs' = specs /\ view' = view /\ gate' = gate
      /\ root.running /\ root' = [root EXCEPT !.todo = @ \ {n}]
  BY DEF GR!RootApplyApp
<1>2. /\ GR!Tip' = GR!Tip /\ GR!Before' = GR!Before /\ GR!Recent' = GR!Recent /\ GR!Sets' = GR!Sets
      /\ \A x : GR!T(x)' = GR!T(x) /\ GR!Alone(x)' = GR!Alone(x)
      /\ \A x, y : GR!Mixed(x, y)' = GR!Mixed(x, y)
      /\ MixInv'
  BY <1>1, SameCommits DEF CalmParts
<1>3. root.rev = GR!Tip
  BY <1>1 DEF CalmParts, RootInv
<1>4. root' = [running |-> root.running, rev |-> root.rev, compared |-> root.compared, todo |-> root.todo \ {n}]
  <2>1. root = [running |-> root.running, rev |-> root.rev, compared |-> root.compared, todo |-> root.todo]
    BY DEF RolloutTyped
  <2> QED
    BY <1>1, <2>1
<1>5. PICK a \in GR!Alone(GR!Tip) :
        /\ a.name = n
        /\ apps' = [m \in DOMAIN apps \cup {n} |->
                     IF m = n THEN GR!Live(a, IF n \in DOMAIN apps THEN apps[n].rev ELSE 0) ELSE apps[m]]
  BY <1>3 DEF GR!RootApplyApp
<1>6. DOMAIN apps' = DOMAIN apps \cup {n} /\ apps'[n].def = a /\ \A m \in DOMAIN apps : m # n => apps'[m] = apps[m]
  BY <1>5 DEF GR!Live
<1>7. a.owner = "root" /\ GR!Alone(GR!Tip) \subseteq GR!Mixed(GR!Tip, GR!Tip) /\ "root" \notin GR!Sets /\ GR!Tip \in GR!Recent
  <2>1. GR!Alone(GR!Tip) \subseteq GR!T(GR!Tip).alone
    BY DEF GR!Alone
  <2>2. GR!Tip \in 1 .. GR!Tip
    BY RecentCommits
  <2>3. GR!T(GR!Tip).alone \subseteq GR!Mixed(GR!Tip, GR!Tip)
    BY <2>2, MixedParts
  <2> QED
    BY <2>1, <2>3, TreesAssumption DEF GR!Alone, GR!Recent
<1>8. SetsInv'
  BY <1>1, <1>2 DEF CalmParts, SetsInv
<1>9. PathInv'
  <2>1. ASSUME NEW m \in DOMAIN apps', apps'[m].def.owner \in GR!Sets, view[apps'[m].def.owner] = GR!Before
        PROVE  apps'[m].def.path \in GR!T(GR!Before).dirs
    <3>1. m # n
      BY <1>6, <1>7, <2>1
    <3>2. m \in DOMAIN apps /\ apps'[m] = apps[m]
      BY <1>6, <3>1
    <3> QED
      BY <2>1, <3>2 DEF CalmParts, PathInv
  <2> QED
    BY <1>1, <1>2, <2>1 DEF PathInv
<1>10. SurviveInv'
  <2>1. ASSUME NEW b \in GR!Mixed(GR!Before, GR!Before) PROVE b.name \in DOMAIN apps' /\ Same(b, apps'[b.name].def)
    <3>1. b.name \in DOMAIN apps /\ Same(b, apps[b.name].def)
      BY DEF CalmParts, SurviveInv
    <3>2. CASE b.name = n
      <4>1. Same(b, a)
        BY <1>5, <1>7, <3>2, KeptIn DEF CalmParts
      <4> QED
        BY <1>6, <3>2, <4>1
    <3>3. CASE b.name # n
      BY <1>6, <3>1, <3>3
    <3> QED
      BY <3>2, <3>3
  <2> QED
    BY <1>2, <2>1 DEF SurviveInv
<1>11. RootInv'
  <2>1. ASSUME NEW b \in GR!Alone(GR!Tip) PROVE b.name \in root'.todo \/ Deployed(b)'
    <3>1. CASE b.name = n
      <4>1. b = a
        BY <1>5, <1>7, <3>1, OneOfName DEF CalmParts
      <4> QED
        BY <1>6, <3>1, <4>1 DEF Deployed
    <3>2. CASE b.name # n
      <4>1. b.name \in root.todo \/ Deployed(b)
        BY <1>3 DEF CalmParts, RootInv
      <4> QED
        BY <1>4, <1>6, <3>2, <4>1 DEF Deployed
    <3> QED
      BY <3>1, <3>2
  <2> QED
    BY <1>1, <1>2, <1>3, <1>4, <2>1 DEF RootInv
<1>12. ReadInv'
  BY <1>1, ReadsStay DEF CalmParts, ReadInv
<1> QED
  BY <1>2, <1>8, <1>9, <1>10, <1>11, <1>12 DEF CalmParts

LEMMA RefreshCalm ==
  ASSUME RolloutTyped, CalmParts, NEW s \in GR!Sets, GR!Refresh(s)
  PROVE  CalmParts'
<1>1. /\ main' = main /\ specs' = specs /\ apps' = apps /\ gate' = gate /\ root' = root
      /\ view[s] < GR!Tip /\ view' = [view EXCEPT ![s] = GR!Tip]
  BY DEF GR!Refresh
<1>2. /\ GR!Tip' = GR!Tip /\ GR!Before' = GR!Before /\ GR!Recent' = GR!Recent /\ GR!Sets' = GR!Sets
      /\ \A x : GR!T(x)' = GR!T(x) /\ GR!Alone(x)' = GR!Alone(x)
      /\ \A x, y : GR!Mixed(x, y)' = GR!Mixed(x, y)
      /\ MixInv'
  BY <1>1, SameCommits DEF CalmParts
<1>3. view \in [GR!Sets -> 1 .. GR!Tip] /\ GR!Tip \in Nat
  BY RecentCommits DEF RolloutTyped, GR!TypeOK
<1>4. GR!Before # GR!Tip /\ view'[s] = GR!Tip /\ \A r \in GR!Sets : r # s => view'[r] = view[r]
  BY <1>1, <1>3 DEF GR!Before
<1>5. SetsInv'
  BY <1>1, <1>2, <1>4 DEF CalmParts, SetsInv, GR!Recent
<1>6. PathInv'
  BY <1>1, <1>2, <1>4 DEF CalmParts, PathInv
<1>7. /\ SurviveInv' /\ \A a : Deployed(a)' <=> Deployed(a)
  BY <1>1, <1>2 DEF CalmParts, SurviveInv, Deployed
<1>8. RootInv'
  BY <1>1, <1>2, <1>7 DEF CalmParts, RootInv
<1>9. ReadInv'
  BY <1>1, <1>7, ReadsStay DEF CalmParts, ReadInv
<1> QED
  BY <1>2, <1>5, <1>6, <1>7, <1>8, <1>9 DEF CalmParts

-----------------------------------------------------------------------------
(* A set's Applications *)

\* A set wants what some of the recent specs and trees give.
LEMMA WantMixed ==
  ASSUME RolloutTyped, SetsInv, NEW s \in GR!Sets
  PROVE  /\ view[s] \in GR!Recent
         /\ \E x \in GR!Recent :
              /\ GR!T(specs[s]).sets[s] = GR!T(x).sets[s]
              /\ {GR!Expand(s, GR!T(specs[s]).sets[s], p) : p \in GR!Discovered(GR!T(specs[s]).sets[s], GR!T(view[s]).dirs)}
                   = Wanted(x, view[s], s)
  BY DEF SetsInv, Wanted

LEMMA GenerateCalm ==
  ASSUME RolloutTyped, CalmParts, NEW s \in GR!Sets, GR!Generate(s)
  PROVE  CalmParts'
<1> DEFINE spec == GR!T(specs[s]).sets[s]
           want == {GR!Expand(s, spec, p) : p \in GR!Discovered(spec, GR!T(view[s]).dirs)}
           mine == {n \in DOMAIN apps : apps[n].def.owner = s}
           gone == mine \ GR!Names(want)
           kept == DOMAIN apps \ gone
           new  == {n \in GR!Names(want) : n \notin kept \/ n \in mine}
<1>1. /\ apps' = [n \in kept \cup new |->
                    IF n \in new THEN GR!Live(GR!Named(want, n), IF n \in kept THEN apps[n].rev ELSE 0) ELSE apps[n]]
      /\ main' = main /\ specs' = specs /\ view' = view /\ root' = root /\ gate' = gate
  BY DEF GR!Generate
<1>2. PICK x \in GR!Recent : spec = GR!T(x).sets[s] /\ want = Wanted(x, view[s], s)
  BY WantMixed DEF CalmParts
<1>3. view[s] \in GR!Recent /\ GR!Recent \subseteq 1 .. GR!Tip /\ GR!Tip \in GR!Recent /\ GR!Before \in GR!Recent
  BY WantMixed, RecentCommits DEF CalmParts, GR!Recent
<1>4. /\ want \subseteq GR!Mixed(x, view[s])
      /\ \A a \in want : a.owner = s /\ a.path \in GR!T(view[s]).dirs
      /\ \A a \in GR!Mixed(x, view[s]) : a.owner = s => a \in want
  <2>1. x \in 1 .. GR!Tip /\ view[s] \in 1 .. GR!Tip
    BY <1>3
  <2>2. /\ Wanted(x, view[s], s) \subseteq GR!Mixed(x, view[s])
        /\ \A a \in Wanted(x, view[s], s) : a.owner = s /\ a.path \in GR!T(view[s]).dirs
        /\ \A a \in GR!Mixed(x, view[s]) : a.owner \in GR!Sets => a \in Wanted(x, view[s], a.owner)
    BY <2>1, MixedParts
  <2> HIDE DEF want
  <2> QED
    BY <1>2, <2>2
<1>5. \A n \in DOMAIN apps : n \notin mine => n \in kept /\ n \notin new
  OBVIOUS
<1>6. \A n \in DOMAIN apps : n \in mine /\ n \in GR!Names(want) => n \in kept /\ n \in new
  OBVIOUS
<1>7. kept \subseteq DOMAIN apps /\ new \subseteq GR!Names(want) /\ \A n \in kept : n \notin new => n \notin mine
  OBVIOUS
<1>8. \A n \in DOMAIN apps : n \in mine <=> apps[n].def.owner = s
  OBVIOUS
<1> HIDE DEF want, spec, mine, gone, kept, new
<1>9. /\ \A n \in DOMAIN apps : apps[n].def.owner # s => n \in DOMAIN apps' /\ apps'[n] = apps[n]
      /\ \A n \in new : n \in DOMAIN apps' /\ apps'[n].def = GR!Named(want, n)
      /\ \A n \in DOMAIN apps' : n \notin new => n \in DOMAIN apps /\ apps'[n] = apps[n]
  <2>1. DOMAIN apps' = kept \cup new /\ \A n \in kept \cup new : n \notin new => apps'[n] = apps[n]
    BY <1>1
  <2>2. \A n \in new : apps'[n].def = GR!Named(want, n)
    BY <1>1 DEF GR!Live
  <2> QED
    BY <1>5, <1>7, <1>8, <2>1, <2>2
<1>10. ASSUME NEW a \in want, a.name \in DOMAIN apps, apps[a.name].def.owner = s
       PROVE  a.name \in DOMAIN apps' /\ apps'[a.name].def = a
  <2>1. ~GR!Duplicate(GR!Mixed(x, view[s]))
    BY <1>3 DEF CalmParts, MixInv
  <2>2. a.name \in GR!Names(want) /\ GR!Named(want, a.name) = a
    BY <1>4, <2>1, NamedIs
  <2>3. a.name \in new
    BY <1>6, <1>8, <1>10, <2>2
  <2> QED
    BY <1>9, <2>2, <2>3
<1>11. /\ GR!Tip' = GR!Tip /\ GR!Before' = GR!Before /\ GR!Recent' = GR!Recent /\ GR!Sets' = GR!Sets
       /\ \A z : GR!T(z)' = GR!T(z) /\ GR!Alone(z)' = GR!Alone(z)
       /\ \A z, y : GR!Mixed(z, y)' = GR!Mixed(z, y)
       /\ MixInv'
  BY <1>1, SameCommits DEF CalmParts
<1>12. SetsInv'
  BY <1>1, <1>11 DEF CalmParts, SetsInv
<1>13. PathInv'
  <2>1. ASSUME NEW n \in DOMAIN apps', apps'[n].def.owner \in GR!Sets, view[apps'[n].def.owner] = GR!Before
        PROVE  apps'[n].def.path \in GR!T(GR!Before).dirs
    <3>1. CASE n \in new
      <4>1. apps'[n].def \in want
        BY <1>7, <1>9, <3>1, NamedHasName
      <4> QED
        BY <1>4, <2>1, <4>1
    <3>2. CASE n \notin new
      <4>1. n \in DOMAIN apps /\ apps'[n] = apps[n]
        BY <1>9, <3>2
      <4> QED
        BY <2>1, <4>1 DEF CalmParts, PathInv
    <3> QED
      BY <3>1, <3>2
  <2> QED
    BY <1>1, <1>11, <2>1 DEF PathInv
<1>14. SurviveInv'
  <2>1. ASSUME NEW b \in GR!Mixed(GR!Before, GR!Before) PROVE b.name \in DOMAIN apps' /\ Same(b, apps'[b.name].def)
    <3>1. b.name \in DOMAIN apps /\ Same(b, apps[b.name].def)
      BY DEF CalmParts, SurviveInv
    <3>2. b.owner = apps[b.name].def.owner
      BY <3>1 DEF Same, GR!Kept
    <3>3. CASE b.owner = s
      <4>1. PICK c \in GR!Mixed(x, view[s]) : Same(b, c)
        BY <1>3 DEF CalmParts, MixInv
      <4>2. c.name = b.name /\ c.owner = b.owner
        BY <4>1 DEF Same, GR!Kept
      <4>3. c \in want
        BY <1>4, <3>3, <4>2
      <4>4. c.name \in DOMAIN apps' /\ apps'[c.name].def = c
        BY <1>10, <3>1, <3>2, <3>3, <4>2, <4>3
      <4> QED
        BY <4>1, <4>2, <4>4
    <3>4. CASE b.owner # s
      BY <1>9, <3>1, <3>2, <3>4
    <3> QED
      BY <3>3, <3>4
  <2> QED
    BY <1>11, <2>1 DEF SurviveInv
<1>15. ASSUME NEW a, Deployed(a), a.owner # s PROVE Deployed(a)'
  BY <1>9, <1>15 DEF Deployed
<1>16. RootInv'
  <2>1. \A a \in GR!Alone(GR!Tip) : a.owner # s
    BY TreesAssumption DEF GR!Alone
  <2> QED
    BY <1>1, <1>11, <1>15, <2>1 DEF CalmParts, RootInv
<1>17. ReadInv'
  <2>1. ASSUME NEW a \in Planned(GR!Tip), ReadWell(AppItem(a)) PROVE Deployed(a)'
    <3>1. Deployed(a) /\ GR!SetOk(s)
      BY <2>1 DEF CalmParts, ReadInv
    <3>2. CASE a.owner # s
      BY <1>15, <3>1, <3>2
    <3>3. CASE a.owner = s
      <4>1. want = Wanted(GR!Tip, view[s], s)
        BY <3>1 DEF want, spec, Wanted, GR!SetOk
      <4>2. a \in Wanted(GR!Tip, GR!Tip, s) /\ a.path \in GR!T(GR!Tip).dirs
        <5>1. a \in GR!Mixed(GR!Tip, GR!Tip)
          BY DEF Planned, GR!Mixed, GR!Settled
        <5> QED
          BY <1>3, <3>3, <5>1, MixedParts
      <4>3. a.path \in GR!T(view[s]).dirs
        <5>1. CASE view[s] = GR!Tip
          BY <4>2, <5>1
        <5>2. CASE view[s] = GR!Before
          BY <3>1, <3>3, <5>2 DEF CalmParts, PathInv, Deployed
        <5> QED
          BY <1>3, <5>1, <5>2 DEF GR!Recent
      <4>4. a \in want
        BY <4>1, <4>2, <4>3, WantedElsewhere
      <4> QED
        BY <1>10, <3>1, <3>3, <4>4 DEF Deployed
    <3> QED
      BY <3>2, <3>3
  <2>2. ReadWell(RootItem) => ~root'.running /\ root'.rev = GR!Tip /\ specs' = specs
    BY <1>1 DEF CalmParts, ReadInv
  <2> QED
    BY <1>1, <2>1, <2>2, ReadsStay DEF CalmParts
<1> QED
  BY <1>11, <1>12, <1>13, <1>14, <1>16, <1>17 DEF CalmParts

LEMMA SyncCalm ==
  ASSUME RolloutTyped, CalmParts, NEW n \in DOMAIN apps, GR!SyncApp(n)
  PROVE  CalmParts'
<1>1. PICK r \in apps[n].rev .. GR!Tip :
        apps' = [apps EXCEPT ![n].rev = r] /\ UNCHANGED <<main, specs, view, root, gate, baseline>>
  BY DEF GR!SyncApp
<1>2. main' = main /\ specs' = specs /\ view' = view /\ root' = root /\ gate' = gate
  BY <1>1
<1>3. \A m \in DOMAIN apps : apps[m] = [def |-> apps[m].def, rev |-> apps[m].rev]
  BY DEF RolloutTyped, GR!Live
<1>4. DefsStay
  BY <1>1, <1>3 DEF DefsStay
<1>5. /\ MixInv' /\ SetsInv' /\ PathInv' /\ SurviveInv'
      /\ \A a : Deployed(a)' <=> Deployed(a)
  BY <1>2, <1>4, ClusterStays DEF CalmParts
<1>6. GR!Tip' = GR!Tip /\ GR!Alone(GR!Tip)' = GR!Alone(GR!Tip)
  BY <1>2, SameCommits
<1>7. RootInv'
  BY <1>2, <1>5, <1>6 DEF CalmParts, RootInv
<1>8. ReadWell(RootItem) => ~root'.running /\ root'.rev = GR!Tip /\ specs' = specs
  BY <1>2 DEF CalmParts, ReadInv
<1>9. ReadInv'
  BY <1>2, <1>5, <1>8, ReadsStay DEF CalmParts, ReadInv
<1> QED
  BY <1>5, <1>7, <1>9 DEF CalmParts

\* A sync touches finitely many objects.
LEMMA SyncFinite ==
  ASSUME RolloutTyped, FiniteInv, NEW n \in DOMAIN apps, GR!SyncApp(n)
  PROVE  FiniteInv'
<1>1. PICK r \in apps[n].rev .. GR!Tip :
        LET a == apps[n].def
            keys == GR!Guards(GR!T(r), a)
            here == {c \in claims : c.key \in keys}
            goes == {c \in claims : c.app = n /\ c.key \notin keys}
        IN  /\ r > 0
            /\ claims' = (claims \ (here \cup IF a.prune THEN goes ELSE {}))
                         \cup {[c EXCEPT !.app = n] : c \in here}
                         \cup {[key |-> k, app |-> n, uid |-> GR!Tip] : k \in keys \ {c.key : c \in here}}
            /\ UNCHANGED <<main, specs, view, root, gate, baseline>>
  BY DEF GR!SyncApp
<1> DEFINE a == apps[n].def
           keys == GR!Guards(GR!T(r), a)
           here == {c \in claims : c.key \in keys}
           goes == {c \in claims : c.app = n /\ c.key \notin keys}
           left == claims \ (here \cup IF a.prune THEN goes ELSE {})
           K == keys \ {c.key : c \in here}
           moved == {[c EXCEPT !.app = n] : c \in here}
           fresh == {[key |-> k, app |-> n, uid |-> GR!Tip] : k \in K}
<1>2. claims' = left \cup moved \cup fresh /\ baseline' = baseline
  BY <1>1
<1>3. r \in 1 .. GR!Tip
  <2>1. apps[n].rev \in 0 .. GR!Tip /\ GR!Tip \in Nat
    BY RecentCommits DEF RolloutTyped, GR!TypeOK
  <2>2. r \in apps[n].rev .. GR!Tip /\ r > 0
    BY <1>1
  <2> QED
    BY <2>1, <2>2
<1>4. IsFiniteSet(keys)
  <2>1. main[r].tree \in DOMAIN Trees
    BY <1>3, TreeOf
  <2> QED
    BY <2>1, GuardsFinite DEF GR!T
<1>5. left \in SUBSET claims /\ here \in SUBSET claims /\ K \in SUBSET keys
  OBVIOUS
<1>6. IsFiniteSet(left) /\ IsFiniteSet(here) /\ IsFiniteSet(K)
  <2> HIDE DEF left, here, K, keys
  <2> QED
    BY <1>4, <1>5, FS_Subset DEF FiniteInv
<1>7. IsFiniteSet(moved)
  <2> DEFINE f == [c \in here |-> [c EXCEPT !.app = n]]
  <2>1. DOMAIN f = here /\ moved = {f[c] : c \in here}
    OBVIOUS
  <2> HIDE DEF f, moved, here
  <2> QED
    BY <1>6, <2>1, FiniteImage
<1>8. IsFiniteSet(fresh)
  <2> DEFINE f == [k \in K |-> [key |-> k, app |-> n, uid |-> GR!Tip]]
  <2>1. DOMAIN f = K /\ fresh = {f[k] : k \in K}
    OBVIOUS
  <2> HIDE DEF f, fresh, K
  <2> QED
    BY <1>6, <2>1, FiniteImage
<1> HIDE DEF left, moved, fresh
<1>9. IsFiniteSet(left \cup moved)
  BY <1>6, <1>7, FS_Union
<1> QED
  BY <1>2, <1>8, <1>9, FS_Union DEF FiniteInv

-----------------------------------------------------------------------------
(* The next change *)

\* After a PASS the last commit is deployed.
LEMMA PassDeployed ==
  ASSUME RolloutTyped, CalmParts, gate.at = "pass"
  PROVE  /\ ~root.running /\ root.rev = GR!Tip /\ root.todo = {}
         /\ \A s \in GR!Sets : GR!SetOk(s)
         /\ \A a \in GR!Settled(GR!T(GR!Tip)) : Deployed(a)
<1>1. \A item : ReadWell(item)
  BY DEF ReadWell
<1>2. ~root.running /\ root.rev = GR!Tip /\ root.todo = {}
  BY <1>1 DEF CalmParts, ReadInv, RootInv
<1>3. \A s \in GR!Sets : GR!SetOk(s)
  BY <1>1 DEF CalmParts, ReadInv
<1>4. ASSUME NEW a \in GR!Settled(GR!T(GR!Tip)) PROVE Deployed(a)
  <2>1. CASE a.owner # "root"
    BY <1>1, <2>1 DEF CalmParts, ReadInv, Planned
  <2>2. CASE a.owner = "root"
    <3>1. a \in GR!Mixed(GR!Tip, GR!Tip) /\ a.owner \notin GR!Sets
      BY <2>2, TreesAssumption DEF GR!Mixed, GR!Settled
    <3>2. a \in GR!T(GR!Tip).alone
      BY <3>1, RecentCommits, MixedParts
    <3>3. a \in GR!Alone(GR!Tip)
      BY <2>2, <3>2 DEF GR!Alone
    <3> QED
      BY <1>2, <3>3 DEF CalmParts, RootInv
  <2> QED
    BY <2>1, <2>2
<1> QED
  BY <1>2, <1>3, <1>4

LEMMA MergeCalm ==
  ASSUME RolloutTyped, CalmParts, NEW t \in DOMAIN Trees, GR!Merge(t), GR!Calm
  PROVE  CalmParts'
<1>0. PICK tip : tip = GR!Tip
  OBVIOUS
<1>1. /\ main' = Append(main, [tree |-> t, calm |-> GR!Calm, synced |-> GR!Synced]) /\ gate' = [gate EXCEPT !.at = "idle"]
      /\ specs' = specs /\ view' = view /\ apps' = apps /\ root' = root
      /\ gate.at = "pass" /\ GR!Verdict(GR!T(tip), Trees[t]) # "BLOCK"
  BY <1>0 DEF GR!Merge, GR!cluster
<1>2. main \in Seq([tree : DOMAIN Trees, calm : BOOLEAN, synced : BOOLEAN]) /\ tip \in Nat /\ tip = Len(main) /\ tip >= 1
  BY <1>0, MainTyped, RecentCommits
<1>3. GR!Tip' = tip + 1 /\ \A k \in 1 .. tip : main'[k] = main[k]
  BY <1>1, <1>2 DEF GR!Tip
<1>4. main'[tip + 1].tree = t
  BY <1>1, <1>2
<1>5. (\A k \in 1 .. tip : GR!T(k)' = GR!T(k)) /\ GR!T(tip + 1)' = Trees[t]
  BY <1>3, <1>4 DEF GR!T
<1>6. GR!Before' = tip /\ GR!Recent' = {tip, tip + 1} /\ GR!Sets' = GR!Sets
  BY <1>0, <1>2, <1>3 DEF GR!Before, GR!Recent, GR!Sets
<1>7. tip \in 1 .. tip /\ GR!Before \in 1 .. tip /\ tip \in GR!Recent
  BY <1>0, RecentCommits DEF GR!Recent
<1>8. \A j, k \in 1 .. tip : GR!Mixed(j, k)' = GR!Mixed(j, k)
  BY <1>5 DEF GR!Mixed
<1>9. GR!Mixed(tip, tip)' = GR!Settled(GR!T(tip)) /\ GR!Mixed(tip, tip) = GR!Settled(GR!T(tip))
  BY <1>7, <1>8 DEF GR!Mixed, GR!Settled
<1>10. gate'.at = "idle"
  BY <1>1 DEF RolloutTyped
<1>11. MixInv'
  <2> DEFINE old == GR!T(tip)
             next == Trees[t]
  <2>1. /\ ~GR!Duplicate(GR!Settled(old))
        /\ \A m \in GR!Transitions(old, next) :
             ~GR!Duplicate(m.apps) /\ \A a \in GR!Settled(old) : \E b \in m.apps : Same(a, b)
    BY <1>1, VerdictKeeps
  <2>2. /\ [label |-> "old/new", apps |-> GR!Inventory(old.sets, old.alone, next.dirs), dirs |-> next.dirs] \in GR!Transitions(old, next)
        /\ [label |-> "new/old", apps |-> GR!Inventory(next.sets, next.alone, old.dirs), dirs |-> old.dirs] \in GR!Transitions(old, next)
        /\ [label |-> "new/new", apps |-> GR!Settled(next), dirs |-> next.dirs] \in GR!Transitions(old, next)
    BY DEF GR!Transitions
  <2>3. /\ GR!Mixed(tip, tip + 1)' = GR!Inventory(old.sets, old.alone, next.dirs)
        /\ GR!Mixed(tip + 1, tip)' = GR!Inventory(next.sets, next.alone, old.dirs)
        /\ GR!Mixed(tip + 1, tip + 1)' = GR!Settled(next)
    BY <1>5, <1>7 DEF GR!Mixed, GR!Settled
  <2>4. ASSUME NEW M, M \in {GR!Mixed(tip, tip + 1)', GR!Mixed(tip + 1, tip)', GR!Mixed(tip + 1, tip + 1)'}
        PROVE  ~GR!Duplicate(M) /\ \A a \in GR!Settled(old) : \E b \in M : Same(a, b)
    <3>1. PICK m \in GR!Transitions(old, next) : m.apps = M
      BY <2>2, <2>3, <2>4
    <3> QED
      BY <2>1, <3>1
  <2>5. \A x, y \in {tip, tip + 1} : ~GR!Duplicate(GR!Mixed(x, y)') /\ \A a \in GR!Mixed(tip, tip)' : \E b \in GR!Mixed(x, y)' : Same(a, b)
    <3>1. ~GR!Duplicate(GR!Mixed(tip, tip)') /\ \A a \in GR!Mixed(tip, tip)' : \E b \in GR!Mixed(tip, tip)' : Same(a, b)
      BY <1>9, <2>1 DEF Same
    <3> QED
      BY <1>9, <2>4, <3>1
  <2>6. ASSUME NEW k \in 1 .. tip, NEW a \in GR!Mixed(k, k)' PROVE \E b \in GR!Mixed(tip, tip)' : Same(a, b)
    <3>0. a \in GR!Mixed(k, k)
      BY <1>8
    <3>1. CASE k = tip
      BY <1>9, <3>0, <3>1 DEF Same
    <3>2. CASE k # tip
      <4>1. k \in 1 .. GR!Before
        BY <1>0, <1>2, <3>2 DEF GR!Before
      <4>2. PICK b \in GR!Mixed(GR!Before, GR!Before) : Same(a, b)
        BY <3>0, <4>1 DEF CalmParts, MixInv
      <4>3. PICK c \in GR!Mixed(tip, tip) : Same(b, c)
        BY <1>7 DEF CalmParts, MixInv
      <4> QED
        BY <1>9, <4>2, <4>3, SameTwice
    <3> QED
      BY <3>1, <3>2
  <2> QED
    BY <1>6, <2>5, <2>6 DEF MixInv, GR!Duplicate, Same
<1>12. SetsInv'
  <2>1. ASSUME NEW s \in GR!Sets PROVE view[s] = tip /\ specs[s] \in 1 .. tip /\ GR!T(specs[s]).sets[s] = GR!T(tip).sets[s]
    BY <1>0, <1>1, PassDeployed DEF GR!Calm, GR!SetOk, RolloutTyped, GR!TypeOK
  <2> QED
    BY <1>1, <1>5, <1>6, <1>7, <2>1 DEF SetsInv
<1>13. PathInv'
  <2>1. ASSUME NEW n \in DOMAIN apps, apps[n].def.owner \in GR!Sets PROVE apps[n].def.path \in GR!T(tip).dirs
    <3>1. apps[n].def \in GR!Mixed(tip, tip)
      BY <1>0, <1>9, <2>1 DEF GR!Calm
    <3> QED
      BY <1>0, <1>7, <2>1, <3>1, MixedParts
  <2> QED
    BY <1>1, <1>5, <1>6, <1>7, <2>1 DEF PathInv
<1>14. SurviveInv'
  <2>1. \A a \in GR!Mixed(tip, tip)' : a.name \in DOMAIN apps /\ Same(a, apps[a.name].def)
    BY <1>0, <1>1, <1>9, PassDeployed DEF Deployed, Same
  <2> QED
    BY <1>1, <1>6, <2>1 DEF SurviveInv
<1>15. RootInv'
  <2>1. ~root.running /\ root.rev = tip /\ root.todo = {}
    BY <1>0, <1>1, PassDeployed
  <2>2. tip # tip + 1
    BY <1>2
  <2> QED
    BY <1>1, <1>3, <2>1, <2>2 DEF RootInv
<1>16. ReadInv'
  BY <1>10 DEF ReadInv, ReadWell
<1> QED
  BY <1>11, <1>12, <1>13, <1>14, <1>15, <1>16 DEF CalmParts

-----------------------------------------------------------------------------
(* Every step *)

FullInv == RolloutTyped /\ FiniteInv /\ OrderInv /\ CalmInv

LEMMA FullStep == FullInv /\ [GR!Next]_(GR!vars) => FullInv'
<1> SUFFICES ASSUME FullInv, [GR!Next]_(GR!vars) PROVE FullInv'
  OBVIOUS
<1>1. RolloutTyped /\ FiniteInv /\ OrderInv /\ RolloutTyped'
  BY RolloutStep DEF FullInv
<1>2. CASE UNCHANGED GR!vars
  <2>1. /\ main' = main /\ specs' = specs /\ view' = view /\ apps' = apps /\ claims' = claims
        /\ root' = root /\ gate' = gate /\ baseline' = baseline
    BY <1>2 DEF GR!vars, GR!cluster
  <2>2. OrderInv' /\ FiniteInv'
    BY <1>1, <2>1, OrderStays DEF FiniteInv
  <2>3. ASSUME CalmParts PROVE CalmParts'
    <3>1. /\ MixInv' /\ SetsInv' /\ PathInv' /\ SurviveInv'
          /\ \A a : Deployed(a)' <=> Deployed(a)
      BY <2>1, <2>3, ClusterStays DEF CalmParts, DefsStay
    <3>2. RootInv'
      BY <2>1, <2>3, <3>1, SameCommits DEF CalmParts, RootInv
    <3>3. ReadWell(RootItem) => ~root'.running /\ root'.rev = GR!Tip /\ specs' = specs
      BY <2>1, <2>3 DEF CalmParts, ReadInv
    <3>4. ReadInv'
      BY <2>1, <2>3, <3>1, <3>3, ReadsStay DEF CalmParts, ReadInv
    <3> QED
      BY <3>1, <3>2, <3>4 DEF CalmParts
  <2>4. GR!Unhurried' => GR!Unhurried
    BY <2>1 DEF GR!Unhurried
  <2> QED
    BY <1>1, <2>2, <2>3, <2>4 DEF FullInv, CalmInv
<1>3. CASE GR!Gate
  <2>1. FiniteInv' /\ OrderInv' /\ (CalmParts => CalmParts')
    BY <1>1, <1>3, GateCalm
  <2>2. GR!Unhurried' => GR!Unhurried
    BY <1>3 DEF GR!Unhurried, GR!Gate, GR!GateStart, GR!GateRead, GR!GateReport
  <2> QED
    BY <1>1, <2>1, <2>2 DEF FullInv, CalmInv
<1>4. CASE GR!Argo
  <2>1. main' = main /\ gate' = gate /\ baseline' = baseline
    BY <1>4 DEF GR!Argo, GR!RootCompare, GR!RootStart, GR!RootDone, GR!RootApplySet, GR!Refresh, GR!Generate,
                GR!SyncApp, GR!RootApplyApp
  <2>2. OrderInv'
    BY <1>1, <2>1, OrderStays
  <2>3. FiniteInv'
    <3>1. CASE claims' = claims
      BY <1>1, <2>1, <3>1 DEF FiniteInv
    <3>2. ASSUME NEW s \in GR!Sets, GR!Generate(s) PROVE FiniteInv'
      <4>1. claims' \in SUBSET claims
        BY <3>2 DEF GR!Generate
      <4> QED
        BY <1>1, <2>1, <4>1, FS_Subset DEF FiniteInv
    <3>3. ASSUME NEW n \in DOMAIN apps, GR!SyncApp(n) PROVE FiniteInv'
      BY <1>1, <3>3, SyncFinite
    <3> QED
      BY <1>4, <3>1, <3>2, <3>3 DEF GR!Argo, GR!RootCompare, GR!RootStart, GR!RootDone, GR!RootApplySet, GR!Refresh,
                                    GR!RootApplyApp
  <2>4. CalmParts => CalmParts'
    BY <1>1, <1>4, RootCalm, ApplySetCalm, RefreshCalm, GenerateCalm, SyncCalm, ApplyAppCalm DEF GR!Argo
  <2>5. GR!Unhurried' => GR!Unhurried
    BY <2>1 DEF GR!Unhurried
  <2> QED
    BY <1>1, <2>2, <2>3, <2>4, <2>5 DEF FullInv, CalmInv
<1>5. ASSUME NEW t \in DOMAIN Trees, GR!Merge(t) PROVE FullInv'
  <2>1. /\ main' = Append(main, [tree |-> t, calm |-> GR!Calm, synced |-> GR!Synced]) /\ gate' = [gate EXCEPT !.at = "idle"]
        /\ baseline' = claims /\ claims' = claims
    BY <1>5 DEF GR!Merge, GR!cluster
  <2>2. gate'.at = "idle"
    BY <1>1, <2>1 DEF RolloutTyped
  <2>3. OrderInv' /\ FiniteInv'
    BY <1>1, <2>1, <2>2 DEF OrderInv, FiniteInv
  <2>4. main \in Seq([tree : DOMAIN Trees, calm : BOOLEAN, synced : BOOLEAN]) /\ DOMAIN main = 1 .. Len(main) /\ Len(main) \in Nat
    BY <1>1, MainTyped
  <2>5. /\ DOMAIN main' = 1 .. Len(main) + 1 /\ main'[Len(main) + 1].calm = GR!Calm
        /\ \A k \in 1 .. Len(main) : main'[k] = main[k]
    BY <2>1, <2>4
  <2>6. GR!Unhurried' => GR!Unhurried /\ GR!Calm
    <3>1. ASSUME \A k \in DOMAIN main' : main'[k].calm PROVE (\A k \in DOMAIN main : main[k].calm) /\ GR!Calm
      BY <2>4, <2>5, <3>1
    <3> QED
      BY <3>1 DEF GR!Unhurried
  <2>7. CalmParts /\ GR!Calm => CalmParts'
    BY <1>1, <1>5, MergeCalm
  <2> QED
    BY <1>1, <2>3, <2>6, <2>7 DEF FullInv, CalmInv
<1> QED
  BY <1>2, <1>3, <1>4, <1>5 DEF GR!Next

\* What is deployed: the Applications of the commits before, and after a PASS the last one.
LEMMA CalmMeans == ASSUME RolloutTyped, CalmParts PROVE GR!AppsSurvive /\ (gate.at = "pass" => GR!CommitLive)
<1>1. ASSUME NEW k \in GR!Earlier, NEW a \in GR!Settled(GR!T(k))
      PROVE  a.name \in DOMAIN apps /\ GR!Kept(apps[a.name].def) = GR!Kept(a)
  <2>1. k \in 1 .. GR!Before
    BY RecentCommits DEF GR!Earlier, GR!Before
  <2>2. a \in GR!Mixed(k, k)
    BY DEF GR!Mixed, GR!Settled
  <2>3. PICK b \in GR!Mixed(GR!Before, GR!Before) : Same(a, b)
    BY <2>1, <2>2 DEF CalmParts, MixInv
  <2>4. b.name \in DOMAIN apps /\ Same(b, apps[b.name].def)
    BY DEF CalmParts, SurviveInv
  <2> QED
    BY <2>3, <2>4 DEF Same
<1>2. GR!AppsSurvive
  BY <1>1 DEF GR!AppsSurvive
<1> QED
  BY <1>2, PassDeployed DEF Deployed, GR!SetOk, GR!CommitLive

\* GitOps changes: if each is merged when the ApplicationSets are through with the one
\* before, then, for any trees, no Application of an earlier commit is gone or changes
\* owner, namespace or finalizer, whatever Argo CD takes first, and after a passed gate
\* every spec and every Application is the last commit's.
THEOREM ApplicationsSurvive == SpecAll => []ApplicationsKept
<1>1. InitAll => FullInv
  BY RolloutInit, CalmInit DEF InitAll, FullInv, CalmInv
<1>2. FullInv /\ [NextAll]_allVars => FullInv'
  BY RolloutSteps, FullStep
<1>3. FullInv => ApplicationsKept
  BY CalmMeans DEF FullInv, CalmInv, ApplicationsKept
<1> QED
  BY <1>1, <1>2, <1>3, PTL DEF SpecAll

-----------------------------------------------------------------------------
(* Recursion on a depth *)

\* A set of numbers that is not empty has a least one.
LEMMA Least == ASSUME NEW S \in SUBSET Nat, NEW k \in S PROVE \E m \in S : \A n \in S : m <= n
<1> DEFINE Low == {n \in S : n <= k}
           T == {0 .. n : n \in Low}
<1>1. IsFiniteSet(0 .. k)
  BY FS_Interval
<1>2. T \subseteq FiniteSubsetsOf(0 .. k)
  <2> SUFFICES ASSUME NEW n \in Low PROVE 0 .. n \in FiniteSubsetsOf(0 .. k)
    OBVIOUS
  <2>1. 0 .. n \in SUBSET (0 .. k)
    OBVIOUS
  <2> QED
    BY <2>1, <1>1, FS_FiniteSubsetsOfFinite
<1>3. IsWellFoundedOn(StrictSubsetOrdering(0 .. k), FiniteSubsetsOf(0 .. k))
  BY FS_StrictSubsetOrderingWellFounded
<1>4. T # {}
  OBVIOUS
<1>5. PICK i \in T : \A j \in T : ~(<<j, i>> \in StrictSubsetOrdering(0 .. k))
  <2> HIDE DEF T
  <2> QED
    BY <1>2, <1>3, <1>4, WFMin
<1>6. PICK m \in Low : i = 0 .. m
  OBVIOUS
<1>7. ASSUME NEW n \in S, n < m PROVE FALSE
  <2>1. n \in Low /\ 0 .. n \in T
    BY <1>7, <1>6
  <2>2. 0 .. n \subseteq 0 .. m /\ m \in 0 .. m /\ m \notin 0 .. n
    BY <1>7, <1>6
  <2>3. 0 .. m \subseteq 0 .. k /\ 0 .. n \subseteq 0 .. k
    BY <2>2, <1>6
  <2>4. <<0 .. n, 0 .. m>> \in StrictSubsetOrdering(0 .. k)
    BY <2>2, <2>3 DEF StrictSubsetOrdering
  <2> QED
    BY <1>5, <1>6, <2>1, <2>4
<1> QED
  BY <1>6, <1>7

\* What holds of whatever it holds of everything less deep for holds of everything.
LEMMA ByDepth ==
  ASSUME NEW S, NEW depth \in [S -> Nat], NEW B,
         \A x \in S : (\A y \in S : depth[y] < depth[x] => y \in B) => x \in B
  PROVE  S \subseteq B
<1> SUFFICES ASSUME NEW z \in S, z \notin B PROVE FALSE
  OBVIOUS
<1> DEFINE Depths == {depth[x] : x \in S \ B}
<1>1. Depths \in SUBSET Nat /\ depth[z] \in Depths
  OBVIOUS
<1>2. PICK m \in Depths : \A n \in Depths : m <= n
  <2> HIDE DEF Depths
  <2> QED
    BY <1>1, Least
<1>3. PICK x \in S \ B : depth[x] = m
  OBVIOUS
<1>4. ASSUME NEW y \in S, depth[y] < depth[x], y \notin B PROVE FALSE
  <2>1. depth[y] \in Depths
    BY <1>4
  <2>2. m <= depth[y]
    BY <1>2, <2>1
  <2> HIDE DEF Depths
  <2> QED
    BY <1>1, <1>3, <1>4, <2>2
<1> QED
  BY <1>3, <1>4

\* A definition by recursion on the depth ...
Descends(G, S, R, depth) ==
  /\ depth \in [S -> Nat] /\ R # {} /\ G \in [[S -> R] -> [S -> R]]
  /\ \A g, h \in [S -> R] : \A x \in S :
       (\A y \in S : depth[y] < depth[x] => g[y] = h[y]) => G[g][x] = G[h][x]

\* ... defines a function.
LEMMA RecursiveFunction ==
  ASSUME NEW S, NEW R, NEW depth, NEW G, Descends(G, S, R, depth)
  PROVE  \E g \in [S -> R] : g = G[g]
<1> USE DEF Descends
<1> DEFINE Fits(g, k) == \A x \in S : depth[x] < k => g[x] = G[g][x]
\* Two that fit agree.
<1>1. ASSUME NEW k \in Nat, NEW g \in [S -> R], NEW h \in [S -> R], Fits(g, k), Fits(h, k)
      PROVE  \A x \in S : depth[x] < k => g[x] = h[x]
  <2> DEFINE B == {x \in S : depth[x] < k => g[x] = h[x]}
  <2>1. ASSUME NEW x \in S, \A y \in S : depth[y] < depth[x] => y \in B PROVE x \in B
    <3> SUFFICES ASSUME depth[x] < k PROVE g[x] = h[x]
      OBVIOUS
    <3>1. \A y \in S : depth[y] < depth[x] => g[y] = h[y]
      BY <2>1
    <3>2. G[g][x] = G[h][x]
      BY <3>1
    <3> QED
      BY <1>1, <3>2
  <2> HIDE DEF B
  <2>2. S \subseteq B
    BY <2>1, ByDepth
  <2> QED
    BY <2>2 DEF B
<1>2. \A k \in Nat : \E g \in [S -> R] : Fits(g, k)
  <2> DEFINE B == {k \in Nat : \E g \in [S -> R] : Fits(g, k)}
             id == [k \in Nat |-> k]
  <2>1. ASSUME NEW k \in Nat, \A j \in Nat : id[j] < id[k] => j \in B PROVE k \in B
    <3>1. CASE k = 0
      <4>1. PICK r \in R : TRUE
        OBVIOUS
      <4>2. [x \in S |-> r] \in [S -> R] /\ Fits([x \in S |-> r], k)
        BY <3>1
      <4> QED
        BY <4>2
    <3>2. CASE k # 0
      <4>1. k - 1 \in B
        BY <2>1, <3>2
      <4>2. PICK g \in [S -> R] : Fits(g, k - 1)
        BY <4>1
      <4>3. G[g] \in [S -> R]
        OBVIOUS
      <4>4. ASSUME NEW x \in S, depth[x] < k PROVE G[g][x] = G[G[g]][x]
        <5>1. \A y \in S : depth[y] < depth[x] => g[y] = G[g][y]
          BY <4>4, <4>2, <3>2
        <5> QED
          BY <5>1, <4>3
      <4> QED
        BY <4>3, <4>4
    <3> QED
      BY <3>1, <3>2
  <2>2. id \in [Nat -> Nat]
    OBVIOUS
  <2> HIDE DEF B, id
  <2>3. Nat \subseteq B
    BY <2>1, <2>2, ByDepth
  <2> QED
    BY <2>3 DEF B
<1> DEFINE F(k) == CHOOSE g \in [S -> R] : Fits(g, k)
           f == [x \in S |-> F(depth[x] + 1)[x]]
<1>3. \A k \in Nat : F(k) \in [S -> R] /\ Fits(F(k), k)
  BY <1>2
<1> HIDE DEF F
<1>4. f \in [S -> R]
  BY <1>3
<1>5. ASSUME NEW x \in S PROVE f[x] = G[f][x]
  <2> DEFINE k == depth[x] + 1
  <2>1. k \in Nat /\ depth[x] < k
    OBVIOUS
  <2>2. ASSUME NEW y \in S, depth[y] < depth[x] PROVE f[y] = F(k)[y]
    <3> DEFINE j == depth[y] + 1
    <3>1. j \in Nat /\ depth[y] < j /\ j <= k
      BY <2>2
    <3>2. F(j) \in [S -> R] /\ F(k) \in [S -> R] /\ Fits(F(j), j) /\ Fits(F(k), k)
      BY <1>3, <2>1, <3>1
    <3>3. Fits(F(k), j)
      BY <3>1, <3>2, <2>1
    <3>4. \A z \in S : depth[z] < j => F(j)[z] = F(k)[z]
      <4> HIDE DEF Fits, j, k
      <4> QED
        BY <1>1, <3>1, <3>2, <3>3
    <3> QED
      BY <3>1, <3>4
  <2>3. F(k) \in [S -> R] /\ F(k)[x] = G[F(k)][x]
    BY <1>3, <2>1
  <2>4. G[f][x] = G[F(k)][x]
    BY <2>2, <2>3, <1>4
  <2>5. f[x] = F(k)[x]
    OBVIOUS
  <2> QED
    BY <2>3, <2>4, <2>5
<1>6. G[f] \in [S -> R]
  BY <1>4
<1> HIDE DEF f
<1>7. f = G[f]
  BY <1>4, <1>5, <1>6
<1> QED
  BY <1>4, <1>7

-----------------------------------------------------------------------------
(* What the review preserves of the objects *)

\* A tree that kustomize can be run on.
Tidy(t) ==
  /\ IsFiniteSet(t.dirs) /\ t.dirs \subseteq Seq(STRING) /\ DOMAIN t.files \subseteq t.dirs
  /\ \A d \in DOMAIN t.files : t.files[d].uses \subseteq t.dirs

\* A directory's dependencies are the least set that has it and whatever its members use.
Closed(t, D) == \A d \in D \cap DOMAIN t.files : t.files[d].uses \subseteq D
Leads(t, seen, D) == D \subseteq t.dirs /\ seen \subseteq D /\ Closed(t, D) /\ \A X : seen \subseteq X /\ Closed(t, X) => D \subseteq X

LEMMA DependenciesAre ==
  ASSUME NEW t, Tidy(t), NEW path \in t.dirs
  PROVE  Leads(t, {path}, GR!DependencyDirs(t, path))
<1> DEFINE Uses(p) == IF p \in DOMAIN t.files THEN t.files[p].uses ELSE {}
           S == SUBSET t.dirs
           More(seen) == (UNION {Uses(p) : p \in seen}) \ seen
           Body(g, seen) == IF More(seen) = {} THEN seen ELSE g[seen \cup More(seen)]
           G == [g \in [S -> S] |-> [seen \in S |-> Body(g, seen)]]
           depth == [seen \in S |-> Cardinality(t.dirs \ seen)]
<1>1. ASSUME NEW seen \in S PROVE depth[seen] \in Nat
  <2>1. IsFiniteSet(t.dirs \ seen)
    BY FS_Subset DEF Tidy
  <2> QED
    BY <2>1, FS_CardinalityType
<1>2. ASSUME NEW seen \in S, More(seen) # {} PROVE seen \cup More(seen) \in S /\ depth[seen \cup More(seen)] < depth[seen]
  <2>1. More(seen) \subseteq t.dirs \ seen
    <3>1. \A p \in seen : Uses(p) \subseteq t.dirs
      BY DEF Tidy
    <3> HIDE DEF Uses
    <3> QED
      BY <3>1
  <2> DEFINE rest == t.dirs \ seen
             less == t.dirs \ (seen \cup More(seen))
  <2>2. less \in SUBSET rest /\ less # rest
    <3> HIDE DEF More
    <3> QED
      BY <1>2, <2>1
  <2>3. IsFiniteSet(rest)
    BY FS_Subset DEF Tidy
  <2>4. Cardinality(less) <= Cardinality(rest) /\ Cardinality(less) # Cardinality(rest)
    <3> HIDE DEF less, rest
    <3> QED
      BY <2>2, <2>3, FS_Subset
  <2>5. seen \cup More(seen) \in S
    <3> HIDE DEF More
    <3> QED
      BY <2>1
  <2>6. depth[seen] = Cardinality(rest) /\ depth[seen \cup More(seen)] = Cardinality(less)
    BY <2>5
  <2>7. depth[seen] \in Nat /\ depth[seen \cup More(seen)] \in Nat
    BY <1>1, <2>5
  <2> HIDE DEF depth, less, rest, More, S
  <2> QED
    BY <2>4, <2>5, <2>6, <2>7
<1> HIDE DEF More
<1>3. G \in [[S -> S] -> [S -> S]]
  <2>1. \A g \in [S -> S] : \A seen \in S : Body(g, seen) \in S
    BY <1>2
  <2> HIDE DEF Body, S
  <2> QED
    BY <2>1
<1>4. ASSUME NEW g \in [S -> S], NEW h \in [S -> S], NEW seen \in S, \A x \in S : depth[x] < depth[seen] => g[x] = h[x]
      PROVE  G[g][seen] = G[h][seen]
  <2>1. Body(g, seen) = Body(h, seen)
    <3> HIDE DEF S, depth
    <3> QED
      BY <1>2, <1>4
  <2> HIDE DEF Body, S
  <2> QED
    BY <2>1
<1>5. Descends(G, S, S, depth)
  <2>1. depth \in [S -> Nat] /\ S # {}
    BY <1>1
  <2>2. \A g, h \in [S -> S] : \A seen \in S :
          (\A x \in S : depth[x] < depth[seen] => g[x] = h[x]) => G[g][seen] = G[h][seen]
    BY <1>4
  <2> HIDE DEF G, S, depth
  <2> QED
    BY <1>3, <2>1, <2>2 DEF Descends
<1>6. PICK g : g = [seen \in S |-> Body(g, seen)]
  <2>1. \E g \in [S -> S] : g = G[g]
    <3> HIDE DEF G, S, depth
    <3> QED
      BY <1>5, RecursiveFunction
  <2> HIDE DEF S, Body
  <2> QED
    BY <2>1
<1> DEFINE w == CHOOSE h : h = [seen \in S |-> Body(h, seen)]
<1>7. w = [seen \in S |-> Body(w, seen)]
  <2> HIDE DEF Body, S
  <2> QED
    BY <1>6
<1>8. GR!DependencyDirs(t, path) = w[{path}]
  BY DEF GR!DependencyDirs, More
<1> HIDE DEF w
<1>9. S \subseteq {seen \in S : Leads(t, seen, w[seen])}
  <2> DEFINE B == {seen \in S : Leads(t, seen, w[seen])}
  <2>1. ASSUME NEW seen \in S, \A x \in S : depth[x] < depth[seen] => x \in B PROVE seen \in B
    <3>1. w[seen] = Body(w, seen)
      <4> HIDE DEF Body, S
      <4> QED
        BY <1>7
    <3>2. CASE More(seen) = {}
      <4>1. w[seen] = seen
        BY <3>1, <3>2
      <4>2. Closed(t, seen)
        <5>1. ASSUME NEW d \in seen \cap DOMAIN t.files PROVE t.files[d].uses \subseteq seen
          <6>1. Uses(d) = t.files[d].uses
            OBVIOUS
          <6>2. Uses(d) \subseteq seen
            <7> HIDE DEF Uses
            <7> QED
              BY <3>2 DEF More
          <6> QED
            BY <6>1, <6>2
        <5> QED
          BY <5>1 DEF Closed
      <4> QED
        BY <4>1, <4>2 DEF Leads
    <3>3. CASE More(seen) # {}
      <4> DEFINE x == seen \cup More(seen)
      <4>1. x \in B /\ w[seen] = w[x]
        <5> HIDE DEF B, S, depth
        <5> QED
          BY <1>2, <2>1, <3>1, <3>3
      <4>2. Leads(t, x, w[x])
        BY <4>1
      <4>3. \A X : seen \subseteq X /\ Closed(t, X) => x \subseteq X
        BY DEF Closed, More
      <4> HIDE DEF w
      <4> QED
        BY <4>1, <4>2, <4>3 DEF Leads
    <3> QED
      BY <3>2, <3>3
  <2>2. depth \in [S -> Nat]
    BY <1>1
  <2>3. S \subseteq B
    <3> HIDE DEF B, S, depth
    <3>1. \A seen \in S : (\A x \in S : depth[x] < depth[seen] => x \in B) => seen \in B
      BY <2>1
    <3> QED
      BY <3>1, <2>2, ByDepth
  <2> QED
    BY <2>3
<1>10. {path} \in S
  OBVIOUS
<1> QED
  BY <1>8, <1>9, <1>10

\* Where no file of it differs between two trees, it is the same in both.
LEMMA DependenciesStay ==
  ASSUME NEW old, NEW new, Tidy(old), Tidy(new), NEW path \in old.dirs, path \in new.dirs,
         GR!DependencyDirs(old, path) \cap GR!Changed(old, new) = {},
         GR!DependencyDirs(new, path) \cap GR!Changed(old, new) = {}
  PROVE  GR!DependencyDirs(old, path) = GR!DependencyDirs(new, path)
<1> DEFINE D == GR!DependencyDirs(old, path)
           E == GR!DependencyDirs(new, path)
<1>1. Leads(old, {path}, D) /\ Leads(new, {path}, E)
  BY DependenciesAre
<1>2. D \subseteq old.dirs /\ E \subseteq new.dirs /\ D \cap GR!Changed(old, new) = {} /\ E \cap GR!Changed(old, new) = {}
  BY <1>1 DEF Leads
<1> HIDE DEF D, E
<1>3. \A d : d \in D \cup E => (d \in DOMAIN old.files <=> d \in DOMAIN new.files) /\ (d \in DOMAIN old.files => old.files[d] = new.files[d])
  BY <1>2 DEF GR!Changed
<1>4. Closed(new, D) /\ Closed(old, E)
  BY <1>1, <1>3 DEF Leads, Closed
<1> QED
  BY <1>1, <1>4 DEF Leads, D, E

\* An Application that is not affected renders the same.
LEMMA UnaffectedRenders ==
  ASSUME NEW old, NEW new, Tidy(old), Tidy(new), ~GR!Duplicate(GR!Settled(old)), ~GR!Duplicate(GR!Settled(new)),
         NEW a \in GR!Settled(old), NEW b \in GR!Settled(new), a.name = b.name, a.name \notin GR!Affected(old, new)
  PROVE  a = b /\ GR!Rendered(old, a) \subseteq GR!Rendered(new, b)
<1> DEFINE oo == GR!Settled(old)
           nn == GR!Settled(new)
           n == a.name
           path == a.path
           D == GR!DependencyDirs(old, path)
           E == GR!DependencyDirs(new, path)
<1>1. n \in GR!Names(oo) /\ n \in GR!Names(nn)
  BY DEF GR!Names
<1>2. a = b
  <2>1. {x \in oo : x.name = n} = {x \in nn : x.name = n}
    BY <1>1 DEF GR!Affected
  <2>2. b \in oo
    BY <2>1
  <2> QED
    BY <2>2 DEF GR!Duplicate
<1>3. GR!Named(oo, n) = a /\ GR!Named(nn, n) = a
  BY <1>2, NamedIs
<1>4. \A d \in D \cup E, c \in GR!Changed(old, new) : ~GR!IsPrefix(d, c)
  BY <1>1, <1>3 DEF GR!Affected
<1>5. \A d \in old.dirs \cup new.dirs : GR!IsPrefix(d, d)
  BY DEF Tidy, GR!IsPrefix
<1>6. D \subseteq old.dirs /\ E \subseteq new.dirs /\ (path \in old.dirs => path \in D) /\ (path \notin old.dirs => D = {})
  <2>1. path \in old.dirs => Leads(old, {path}, D)
    BY DependenciesAre
  <2>2. path \in new.dirs => Leads(new, {path}, E)
    BY DependenciesAre
  <2>3. (path \notin old.dirs => D = {}) /\ (path \notin new.dirs => E = {})
    BY DEF GR!DependencyDirs
  <2> HIDE DEF D, E
  <2> QED
    BY <2>1, <2>2, <2>3 DEF Leads
<1> HIDE DEF D, E
<1>7. D \cap GR!Changed(old, new) = {} /\ E \cap GR!Changed(old, new) = {}
  BY <1>4, <1>5, <1>6
<1>8. \A d \in D \cap DOMAIN old.files : d \in DOMAIN new.files /\ old.files[d] = new.files[d]
  BY <1>7 DEF GR!Changed
<1>9. D \cap DOMAIN old.files \subseteq E
  <2>1. CASE path \in old.dirs /\ path \in new.dirs
    BY <1>7, <2>1, DependenciesStay DEF D, E
  <2>2. CASE path \notin old.dirs
    BY <1>6, <2>2
  <2>3. CASE path \in old.dirs /\ path \notin new.dirs
    \* It has no kustomization, or that would have changed.
    <3>1. path \notin DOMAIN new.files
      BY <2>3 DEF Tidy
    <3>2. path \notin DOMAIN old.files
      BY <1>6, <1>8, <2>3, <3>1
    <3>3. Leads(old, {path}, D)
      BY <2>3, DependenciesAre DEF D
    <3>4. D \subseteq {path}
      BY <3>2, <3>3 DEF Leads, Closed
    <3> QED
      BY <3>2, <3>4
  <2> QED
    BY <2>1, <2>2, <2>3
<1>10. UNION {old.files[d].objs : d \in D \cap DOMAIN old.files} \subseteq UNION {new.files[d].objs : d \in E \cap DOMAIN new.files}
  BY <1>8, <1>9
<1> QED
  BY <1>2, <1>10 DEF GR!Rendered, D, E

\* A change that is not blocked leaves every guarded object with its Application.
LEMMA GuardsKept ==
  ASSUME NEW old, NEW new, Tidy(old), Tidy(new), GR!Verdict(old, new) # "BLOCK",
         NEW a \in GR!Settled(old), NEW b \in GR!Settled(new), a.name = b.name
  PROVE  GR!Guards(old, a) \subseteq GR!Guards(new, b)
<1> DEFINE affected == GR!Affected(old, new)
           after == GR!Owned(new, affected)
           Alike(x) == {y \in after : GR!Key(y.r) = GR!Key(x.r)}
           before == {x \in GR!Owned(old, affected) : GR!Guarded(x.r) \/ \E y \in Alike(x) : y.r.obj.finalizer}
           lost == {GR!Key(x.r) : x \in {z \in before : Alike(z) = {}}}
           moved == {GR!Key(x.r) : x \in {z \in before : \E y \in Alike(z) : y.app # z.app}}
           final == {GR!Key(x.r) : x \in {z \in before : \E y \in Alike(z) : y.r.obj.finalizer # z.r.obj.finalizer}}
<1>1. ~GR!Duplicate(GR!Settled(old)) /\ ~GR!Duplicate(GR!Settled(new))
  <2>1. [label |-> "new/new", apps |-> GR!Settled(new), dirs |-> new.dirs] \in GR!Transitions(old, new)
    BY DEF GR!Transitions
  <2> QED
    BY <2>1, VerdictKeeps
<1>2. \A f \in GR!Findings(old, new) : f.level # "BLOCK"
  BY DEF GR!Verdict
<1>3. lost = {} /\ moved = {} /\ final = {}
  <2>1. GR!Find("BLOCK", "persistent-resource-disappears", lost) \cup GR!Find("BLOCK", "resource-owner-transfer", moved)
          \cup GR!Find("BLOCK", "resource-finalizers", final) \subseteq GR!ObjectFindings(old, new)
    BY DEF GR!ObjectFindings
  <2>2. GR!ObjectFindings(old, new) \subseteq GR!Findings(old, new)
    BY DEF GR!Findings
  <2> HIDE DEF lost, moved, final
  <2>3. ASSUME NEW code, NEW X, GR!Find("BLOCK", code, X) \subseteq GR!Findings(old, new) PROVE X = {}
    <3>1. ASSUME NEW z \in X PROVE [level |-> "BLOCK", code |-> code, target |-> z] \in GR!Findings(old, new)
      BY <2>3 DEF GR!Find
    <3>2. ASSUME NEW z \in X PROVE [level |-> "BLOCK", code |-> code, target |-> z].level = "BLOCK"
      OBVIOUS
    <3> QED
      BY <3>1, <3>2, <1>2
  <2> QED
    BY <2>1, <2>2, <2>3
<1> SUFFICES ASSUME NEW r \in GR!Rendered(old, a), GR!Guarded(r) PROVE GR!Key(r) \in GR!Guards(new, b)
  BY DEF GR!Guards
<1>4. CASE a.name \notin affected
  BY <1>1, <1>4, UnaffectedRenders DEF GR!Guards
<1>5. CASE a.name \in affected
  <2> DEFINE x == [app |-> a.name, r |-> r]
  <2>1. x \in GR!Owned(old, affected)
    BY <1>5 DEF GR!Owned
  <2>2. x \in before /\ x.r = r /\ x.app = a.name
    BY <2>1
  <2> HIDE DEF x
  <2>3. PICK y \in after : GR!Key(y.r) = GR!Key(x.r) /\ y.app = x.app /\ y.r.obj.finalizer = x.r.obj.finalizer
    <3>1. Alike(x) # {}
      <4> HIDE DEF before, Alike
      <4> QED
        BY <1>3, <2>2
    <3>2. \A y \in Alike(x) : y.app = x.app
      <4> HIDE DEF before, Alike
      <4> QED
        BY <1>3, <2>2
    <3>3. \A y \in Alike(x) : y.r.obj.finalizer = x.r.obj.finalizer
      <4> HIDE DEF before, Alike
      <4> QED
        BY <1>3, <2>2
    <3> QED
      BY <3>1, <3>2, <3>3
  <2>4. PICK c \in GR!Settled(new) : y.app = c.name /\ y.r \in GR!Rendered(new, c)
    BY <2>3 DEF GR!Owned
  <2>5. c = b
    BY <1>1, <2>2, <2>3, <2>4 DEF GR!Duplicate
  <2>6. y.r.obj.kind = r.obj.kind
    BY <2>2, <2>3 DEF GR!Key
  <2>7. GR!Guarded(y.r)
    BY <2>2, <2>3, <2>6 DEF GR!Guarded
  <2> QED
    BY <2>2, <2>3, <2>4, <2>5, <2>7 DEF GR!Guards
<1> QED
  BY <1>4, <1>5

-----------------------------------------------------------------------------
(* What happens to the claims *)

\* The last change leaves the guarded objects of the commit before with their Applications.
GuardInv ==
  \A x \in GR!Recent : \A a \in GR!Mixed(GR!Before, GR!Before), b \in GR!Mixed(x, x) :
    a.name = b.name => GR!Guards(GR!T(GR!Before), a) \subseteq GR!Guards(GR!T(x), b)

\* An Application is what the last two commits make it, and, unless it is the root's own and
\* was late, renders one of them.
Late(a) == a.owner = "root" /\ ~main[GR!Tip].synced
SourceInv ==
  \A a \in GR!Mixed(GR!Before, GR!Before) :
    /\ \E x, y \in GR!Recent : apps[a.name].def \in GR!Mixed(x, y)
    /\ Late(a) \/ apps[a.name].rev \in GR!Recent

\* What was recorded is older than what the last change creates, and what is declared stays
\* with its Application for as long as it is there ...
UidInv == \A c \in baseline : c.uid \in Nat /\ c.uid < GR!Tip
Whole(c, d) == d.key = c.key /\ d.uid = c.uid
KeeperInv == \A c \in baseline : \A a \in GR!Declaring(c) : \A d \in claims : Whole(c, d) => d.app = c.app

\* ... which it is unless the Application strays or was late.
RemainInv == \A c \in baseline : \A a \in GR!Declaring(c) : GR!Remains(c) \/ GR!Strays(a.name) \/ Late(a)

\* An Application read well renders the last commit, an object read well is there, and the
\* Applications were read before.
ReadObjectInv ==
  /\ \A a \in Planned(GR!Tip) : ReadWell(AppItem(a)) => apps[a.name].rev = GR!Tip
  /\ \A c \in baseline : \A a \in GR!Declaring(c) :
       a.owner # "root" /\ ReadWell(ObjectItem(c)) => GR!Remains(c) /\ \A b \in Planned(GR!Tip) : ReadWell(AppItem(b))

HeldParts == GuardInv /\ SourceInv /\ UidInv /\ KeeperInv /\ RemainInv /\ ReadObjectInv

\* Without a merge.
LEMMA SameDeclared ==
  ASSUME main' = main, baseline' = baseline
  PROVE  /\ \A c : GR!Declaring(c)' = GR!Declaring(c)
         /\ \A n : GR!Strays(n)' <=> GR!Strays(n)
         /\ \A a : Late(a)' <=> Late(a)
         /\ \A x, a : GR!Guards(GR!T(x), a)' = GR!Guards(GR!T(x), a)
         /\ (GuardInv => GuardInv') /\ (UidInv => UidInv')
<1>1. /\ GR!Tip' = GR!Tip /\ GR!Before' = GR!Before /\ GR!Recent' = GR!Recent
      /\ \A x : GR!T(x)' = GR!T(x)
      /\ \A x, y : GR!Mixed(x, y)' = GR!Mixed(x, y)
  BY SameCommits
<1>2. \A x, a : GR!Guards(GR!T(x), a)' = GR!Guards(GR!T(x), a)
  BY <1>1 DEF GR!Guards
<1>3. \A x : GR!Settled(GR!T(x))' = GR!Settled(GR!T(x))
  BY <1>1
<1>4. \A c : GR!Declaring(c)' = GR!Declaring(c)
  BY <1>1, <1>2, <1>3 DEF GR!Declaring
<1>5. \A n : GR!Strays(n)' <=> GR!Strays(n)
  BY <1>1, <1>3 DEF GR!Strays
<1>6. \A a : Late(a)' <=> Late(a)
  BY <1>1 DEF Late
<1> QED
  BY <1>1, <1>2, <1>4, <1>5, <1>6 DEF GuardInv, UidInv

\* The Application that declares a recorded object is the only one, and deployed.
LEMMA DeclaredBy ==
  ASSUME CalmParts, NEW c \in baseline, NEW a \in GR!Declaring(c)
  PROVE  /\ a \in GR!Mixed(GR!Before, GR!Before) /\ a.name = c.app /\ c.key \in GR!Guards(GR!T(GR!Before), a)
         /\ c.app \in DOMAIN apps /\ Same(a, apps[c.app].def)
<1>1. a \in GR!Mixed(GR!Before, GR!Before) /\ a.name = c.app /\ c.key \in GR!Guards(GR!T(GR!Before), a)
  BY DEF GR!Declaring, GR!Mixed, GR!Settled
<1> QED
  BY <1>1 DEF CalmParts, SurviveInv

\* Where neither claims nor Applications change.
LEMMA HeldStays ==
  ASSUME main' = main, baseline' = baseline, claims' = claims, apps' = apps, HeldParts
  PROVE  GuardInv' /\ SourceInv' /\ UidInv' /\ KeeperInv' /\ RemainInv'
<1>1. /\ GR!Tip' = GR!Tip /\ GR!Before' = GR!Before /\ GR!Recent' = GR!Recent
      /\ \A x, y : GR!Mixed(x, y)' = GR!Mixed(x, y)
  BY SameCommits
<1>2. GuardInv' /\ UidInv'
  BY SameDeclared DEF HeldParts
<1>3. SourceInv'
  BY <1>1, SameDeclared DEF HeldParts, SourceInv
<1>4. KeeperInv'
  BY SameDeclared DEF HeldParts, KeeperInv
<1>5. \A c : GR!Remains(c)' <=> GR!Remains(c)
  BY DEF GR!Remains
<1>6. RemainInv'
  BY <1>5, SameDeclared DEF HeldParts, RemainInv
<1> QED
  BY <1>2, <1>3, <1>4, <1>6

\* Without a step of the gate, what has been read stays so if it holds.
LEMMA ObjectsStay ==
  ASSUME main' = main, baseline' = baseline, gate' = gate, ReadObjectInv,
         \A a \in Planned(GR!Tip) : ReadWell(AppItem(a)) => apps'[a.name].rev = GR!Tip,
         \A c \in baseline : \A a \in GR!Declaring(c) : a.owner # "root" /\ ReadWell(ObjectItem(c)) => GR!Remains(c)'
  PROVE  ReadObjectInv'
<1>1. GR!Tip' = GR!Tip /\ Planned(GR!Tip)' = Planned(GR!Tip)
  BY SameCommits
<1>2. \A item : ReadWell(item)' <=> ReadWell(item)
  BY SameReads
<1>3. \A c \in baseline : \A a \in GR!Declaring(c) :
        a.owner # "root" /\ ReadWell(ObjectItem(c)) => \A b \in Planned(GR!Tip) : ReadWell(AppItem(b))
  BY DEF ReadObjectInv
<1> QED
  BY <1>1, <1>2, <1>3, SameDeclared DEF ReadObjectInv

LEMMA RootHeld ==
  ASSUME main' = main, baseline' = baseline, claims' = claims, apps' = apps, gate' = gate, HeldParts
  PROVE  HeldParts'
<1>1. \A c : GR!Remains(c)' <=> GR!Remains(c)
  BY DEF GR!Remains
<1>2. ReadObjectInv'
  BY <1>1, ObjectsStay DEF HeldParts, ReadObjectInv
<1> QED
  BY <1>2, HeldStays DEF HeldParts

LEMMA HeldInit == GR!Init => HeldParts
<1> SUFFICES ASSUME GR!Init PROVE HeldParts
  OBVIOUS
<1> DEFINE S == GR!Settled(Trees[1])
<1>1. RolloutTyped /\ CalmParts
  BY RolloutInit, CalmInit
<1>2. GR!Tip = 1 /\ main[1].tree = 1 /\ main[1].synced
  BY DEF GR!Init, GR!Tip
<1>3. GR!Before = 1 /\ GR!Recent = {1} /\ GR!T(1) = Trees[1] /\ GR!Mixed(1, 1) = S
  BY <1>2 DEF GR!Before, GR!Recent, GR!T, GR!Mixed, GR!Settled
<1>4. apps = [n \in GR!Names(S) |-> GR!Live(GR!Named(S, n), 1)]
  BY DEF GR!Init
<1>5. \A n \in DOMAIN apps : apps[n].def \in S /\ apps[n].rev = 1
  BY <1>4, NamedHasName DEF GR!Live
<1>6. GuardInv
  <2>1. \A a \in S, b \in S : a.name = b.name => a = b
    BY TreesAssumption DEF GR!Duplicate
  <2> HIDE DEF S
  <2> QED
    BY <1>3, <2>1 DEF GuardInv
<1>7. SourceInv
  <2>1. \A a \in S : a.name \in DOMAIN apps
    BY <1>4 DEF GR!Names
  <2> HIDE DEF S
  <2> QED
    BY <1>3, <1>5, <2>1 DEF SourceInv
<1>8. baseline = claims /\ \A c \in claims : c.uid = 0
  BY DEF GR!Init
<1>9. UidInv
  BY <1>2, <1>8 DEF UidInv
<1>10. \A c, d \in claims : c.key = d.key => c = d
  BY <1>1 DEF RolloutTyped, GR!TypeOK
<1>11. KeeperInv /\ RemainInv
  BY <1>8, <1>10 DEF KeeperInv, Whole, RemainInv, GR!Remains
<1>12. gate.at = "idle"
  BY DEF GR!Init
<1>13. ReadObjectInv
  BY <1>12 DEF ReadObjectInv, ReadWell
<1> QED
  BY <1>6, <1>7, <1>9, <1>11, <1>13 DEF HeldParts

LEMMA GateHeld ==
  ASSUME RolloutTyped, FiniteInv, OrderInv, CalmParts, HeldParts, GR!Gate
  PROVE  HeldParts'
<1>1. main' = main /\ apps' = apps /\ claims' = claims /\ baseline' = baseline
  BY DEF GR!Gate, GR!GateStart, GR!GateRead, GR!GateReport, GR!cluster
<1>2. GuardInv' /\ SourceInv' /\ UidInv' /\ KeeperInv' /\ RemainInv'
  BY <1>1, HeldStays
<1>3. GR!Tip' = GR!Tip /\ Planned(GR!Tip)' = Planned(GR!Tip)
  BY <1>1, SameCommits
<1>4. \A c : (GR!Remains(c)' <=> GR!Remains(c)) /\ GR!Declaring(c)' = GR!Declaring(c)
  BY <1>1, SameDeclared DEF GR!Remains
<1>5. CASE GR!GateStart
  <2> DEFINE todo == GR!Plan(GR!T(GR!Tip))
  <2>1. gate' = [at |-> "reading", todo |-> todo, ok |-> TRUE]
    BY <1>5 DEF GR!GateStart
  <2>2. /\ \A a \in Planned(GR!Tip) : \E i \in 1 .. Len(todo) : todo[i] = AppItem(a)
        /\ \A c \in baseline : \E i \in 1 .. Len(todo) : todo[i] = ObjectItem(c)
    BY PlanInOrder
  <2> HIDE DEF todo
  <2>3. (\A a \in Planned(GR!Tip) : ~ReadWell(AppItem(a))') /\ \A c \in baseline : ~ReadWell(ObjectItem(c))'
    BY <2>1, <2>2 DEF ReadWell
  <2>4. ReadObjectInv'
    BY <1>1, <1>3, <2>3 DEF ReadObjectInv
  <2> QED
    BY <1>2, <2>4 DEF HeldParts
<1>6. CASE GR!GateRead
  <2>1. ASSUME NEW a \in Planned(GR!Tip), ReadWell(AppItem(a))' PROVE apps[a.name].rev = GR!Tip
    <3>1. CASE ReadWell(AppItem(a))
      BY <3>1 DEF HeldParts, ReadObjectInv
    <3>2. CASE GR!Check(AppItem(a))
      BY <3>2 DEF GR!Check, AppItem, GR!AppOk, GR!Live
    <3> QED
      BY <1>6, <2>1, <3>1, <3>2, ReadOn
  <2>2. ASSUME NEW c \in baseline, NEW a \in GR!Declaring(c), a.owner # "root", ReadWell(ObjectItem(c))'
        PROVE  GR!Remains(c) /\ \A b \in Planned(GR!Tip) : ReadWell(AppItem(b))'
    <3>1. gate'.ok
      BY <1>6, <2>2, ReadOn
    <3>2. \A b \in Planned(GR!Tip) : AppItem(b) \in Items /\ Rank(AppItem(b)) = 2
      BY Ranks DEF Items
    <3>3. CASE ReadWell(ObjectItem(c))
      <4>1. GR!Remains(c) /\ \A b \in Planned(GR!Tip) : ReadWell(AppItem(b))
        BY <2>2, <3>3 DEF HeldParts, ReadObjectInv
      <4>2. ASSUME NEW b \in Planned(GR!Tip) PROVE ReadWell(AppItem(b))'
        BY <1>6, <3>1, <3>2, <4>1, ReadBefore
      <4> QED
        BY <4>1, <4>2
    <3>4. CASE ObjectItem(c) = gate.todo[1] /\ GR!Check(ObjectItem(c))
      <4>1. GR!Remains(c)
        BY <3>4 DEF GR!Check, ObjectItem, GR!ObjectOk, GR!Remains
      <4>2. Rank(gate.todo[1]) = 3
        BY <3>4, Ranks
      <4>3. ASSUME NEW b \in Planned(GR!Tip) PROVE ReadWell(AppItem(b))'
        <5>1. Rank(AppItem(b)) \in Nat /\ Rank(AppItem(b)) < Rank(gate.todo[1])
          BY <3>2, <4>2
        <5> QED
          BY <1>6, <3>1, <3>2, <5>1, ReadBefore
      <4> QED
        BY <4>1, <4>3
    <3> QED
      BY <1>6, <2>2, <3>3, <3>4, ReadOn
  <2>3. ReadObjectInv'
    BY <1>1, <1>3, <1>4, <2>1, <2>2 DEF ReadObjectInv
  <2> QED
    BY <1>2, <2>3 DEF HeldParts
<1>7. CASE GR!GateReport
  <2>1. /\ gate.at = "reading" /\ gate.todo = <<>>
        /\ gate = [at |-> gate.at, todo |-> gate.todo, ok |-> gate.ok]
        /\ gate' = [gate EXCEPT !.at = IF gate.ok THEN "pass" ELSE "block", !.ok = TRUE]
    BY <1>7 DEF GR!GateReport, RolloutTyped
  <2>2. gate' = [at |-> IF gate.ok THEN "pass" ELSE "block", todo |-> gate.todo, ok |-> TRUE]
    BY <2>1
  <2>3. gate'.at # "reading" /\ (gate'.at = "pass" => gate.ok)
    BY <2>2
  <2>4. \A item : ReadWell(item)' => ReadWell(item)
    BY <2>1, <2>3 DEF ReadWell
  <2>5. \A item, other : ReadWell(item)' => ReadWell(other)'
    BY <2>3 DEF ReadWell
  <2>6. ReadObjectInv'
    BY <1>1, <1>3, <1>4, <2>4, <2>5 DEF HeldParts, ReadObjectInv
  <2> QED
    BY <1>2, <2>6 DEF HeldParts
<1> QED
  BY <1>5, <1>6, <1>7 DEF GR!Gate

\* An Application that the root applies is the last commit's; nothing has been read by then.
LEMMA ApplyAppHeld ==
  ASSUME RolloutTyped, CalmParts, HeldParts, NEW n, GR!RootApplyApp(n)
  PROVE  HeldParts'
<1>1. main' = main /\ claims' = claims /\ gate' = gate /\ baseline' = baseline /\ root.running
  BY DEF GR!RootApplyApp
<1>2. GR!Tip' = GR!Tip /\ GR!Before' = GR!Before /\ GR!Recent' = GR!Recent /\ \A x, y : GR!Mixed(x, y)' = GR!Mixed(x, y)
  BY <1>1, SameCommits
<1>3. root.rev = GR!Tip
  BY <1>1 DEF CalmParts, RootInv
<1>4. PICK a \in GR!Alone(GR!Tip) :
        apps' = [m \in DOMAIN apps \cup {n} |->
                   IF m = n THEN GR!Live(a, IF n \in DOMAIN apps THEN apps[n].rev ELSE 0) ELSE apps[m]]
  BY <1>3 DEF GR!RootApplyApp
<1>5. /\ apps'[n].def = a
      /\ \A m \in DOMAIN apps : apps'[m].rev = apps[m].rev /\ (m # n => apps'[m] = apps[m])
  BY <1>4 DEF GR!Live
<1>6. a \in GR!Mixed(GR!Tip, GR!Tip) /\ GR!Tip \in GR!Recent
  BY RecentCommits, MixedParts DEF GR!Alone, GR!Recent
<1>7. SourceInv'
  <2>1. ASSUME NEW b \in GR!Mixed(GR!Before, GR!Before)
        PROVE  /\ \E x, y \in GR!Recent : apps'[b.name].def \in GR!Mixed(x, y)
               /\ Late(b) \/ apps'[b.name].rev \in GR!Recent
    <3>1. b.name \in DOMAIN apps
      BY DEF CalmParts, SurviveInv
    <3>2. (\E x, y \in GR!Recent : apps[b.name].def \in GR!Mixed(x, y)) /\ (Late(b) \/ apps[b.name].rev \in GR!Recent)
      BY DEF HeldParts, SourceInv
    <3> QED
      BY <1>5, <1>6, <3>1, <3>2
  <2> QED
    BY <1>1, <1>2, <2>1, SameDeclared DEF SourceInv
<1>8. GuardInv' /\ UidInv' /\ KeeperInv'
  BY <1>1, SameDeclared DEF HeldParts, KeeperInv
<1>9. \A c : GR!Remains(c)' <=> GR!Remains(c)
  BY <1>1 DEF GR!Remains
<1>10. RemainInv'
  BY <1>1, <1>9, SameDeclared DEF HeldParts, RemainInv
<1>11. \A b \in Planned(GR!Tip) : ~ReadWell(AppItem(b))
  BY <1>1 DEF CalmParts, ReadInv
<1>12. ReadObjectInv'
  BY <1>1, <1>9, <1>11, ObjectsStay DEF HeldParts, ReadObjectInv
<1> QED
  BY <1>7, <1>8, <1>10, <1>12 DEF HeldParts

\* An ApplicationSet takes the objects only of what it removes.
LEMMA GenerateHeld ==
  ASSUME RolloutTyped, CalmParts, CalmParts', HeldParts, NEW s \in GR!Sets, GR!Generate(s)
  PROVE  HeldParts'
<1> DEFINE spec == GR!T(specs[s]).sets[s]
           want == {GR!Expand(s, spec, p) : p \in GR!Discovered(spec, GR!T(view[s]).dirs)}
           mine == {n \in DOMAIN apps : apps[n].def.owner = s}
           gone == mine \ GR!Names(want)
           kept == DOMAIN apps \ gone
           new  == {n \in GR!Names(want) : n \notin kept \/ n \in mine}
<1>1. /\ apps' = [n \in kept \cup new |->
                    IF n \in new THEN GR!Live(GR!Named(want, n), IF n \in kept THEN apps[n].rev ELSE 0) ELSE apps[n]]
      /\ claims' = {c \in claims : c.app \notin gone \/ spec.preserve}
      /\ main' = main /\ gate' = gate /\ baseline' = baseline
  BY DEF GR!Generate
<1>2. PICK x \in GR!Recent : want = Wanted(x, view[s], s)
  BY WantMixed DEF CalmParts
<1>3. view[s] \in GR!Recent /\ want \subseteq GR!Mixed(x, view[s])
  <2>1. view[s] \in GR!Recent
    BY WantMixed DEF CalmParts
  <2>2. Wanted(x, view[s], s) \subseteq GR!Mixed(x, view[s])
    BY <2>1, RecentCommits, MixedParts
  <2> HIDE DEF want
  <2> QED
    BY <1>2, <2>1, <2>2
<1>4. new \subseteq GR!Names(want) /\ (\A n \in DOMAIN apps : n \in kept \/ n \in gone) /\ gone \cap (kept \cup new) = {}
  OBVIOUS
<1> HIDE DEF want, spec, mine, gone, kept, new
<1>5. DOMAIN apps' \cap gone = {} /\ \A n \in DOMAIN apps' \cap DOMAIN apps : n \in kept
  BY <1>1, <1>4
<1>6. ASSUME NEW n \in DOMAIN apps' \cap DOMAIN apps
      PROVE  apps'[n].rev = apps[n].rev /\ (apps'[n].def = apps[n].def \/ apps'[n].def \in want)
  <2>1. CASE n \in new
    <3>1. apps'[n] = [def |-> GR!Named(want, n), rev |-> apps[n].rev]
      BY <1>1, <1>5, <2>1 DEF GR!Live
    <3>2. GR!Named(want, n) \in want
      BY <1>4, <2>1, NamedHasName
    <3> QED
      BY <3>1, <3>2
  <2>2. CASE n \notin new
    BY <1>1, <1>5, <2>2
  <2> QED
    BY <2>1, <2>2
<1>7. GR!Tip' = GR!Tip /\ GR!Before' = GR!Before /\ GR!Recent' = GR!Recent /\ \A y, z : GR!Mixed(y, z)' = GR!Mixed(y, z)
  BY <1>1, SameCommits
<1>8. \A a \in GR!Mixed(GR!Before, GR!Before) : a.name \in DOMAIN apps' \cap DOMAIN apps
  BY <1>7 DEF CalmParts, SurviveInv
<1>9. SourceInv'
  <2>1. ASSUME NEW a \in GR!Mixed(GR!Before, GR!Before)
        PROVE  /\ \E y, z \in GR!Recent : apps'[a.name].def \in GR!Mixed(y, z)
               /\ Late(a) \/ apps'[a.name].rev \in GR!Recent
    <3>1. (\E y, z \in GR!Recent : apps[a.name].def \in GR!Mixed(y, z)) /\ (Late(a) \/ apps[a.name].rev \in GR!Recent)
      BY DEF HeldParts, SourceInv
    <3>2. apps'[a.name].rev = apps[a.name].rev /\ (apps'[a.name].def = apps[a.name].def \/ apps'[a.name].def \in want)
      BY <1>6, <1>8
    <3> QED
      BY <1>3, <3>1, <3>2
  <2> QED
    BY <1>1, <1>7, <2>1, SameDeclared DEF SourceInv
<1>10. GuardInv' /\ UidInv' /\ KeeperInv'
  BY <1>1, SameDeclared DEF HeldParts, KeeperInv
<1>11. ASSUME NEW c \in baseline, NEW a \in GR!Declaring(c), GR!Remains(c) PROVE GR!Remains(c)'
  <2>1. PICK d \in claims : Whole(c, d)
    BY <1>11 DEF GR!Remains, Whole
  <2>2. d.app = c.app /\ c.app \in DOMAIN apps'
    BY <1>8, <2>1, DeclaredBy DEF HeldParts, KeeperInv
  <2>3. d \in claims'
    BY <1>1, <1>5, <2>2
  <2> QED
    BY <1>1, <2>1, <2>3 DEF GR!Remains, Whole
<1>12. RemainInv'
  BY <1>1, <1>11, SameDeclared DEF HeldParts, RemainInv
<1>13. ASSUME NEW a \in Planned(GR!Tip), ReadWell(AppItem(a)) PROVE apps'[a.name].rev = GR!Tip
  <2>1. a \in Planned(GR!Tip)' /\ ReadWell(AppItem(a))'
    BY <1>1, <1>13, SameCommits, SameReads
  <2>2. a.name \in DOMAIN apps /\ a.name \in DOMAIN apps'
    BY <1>13, <2>1 DEF CalmParts, ReadInv, Deployed
  <2> QED
    BY <1>6, <1>13, <2>2 DEF HeldParts, ReadObjectInv
<1>14. ReadObjectInv'
  BY <1>1, <1>11, <1>13, ObjectsStay DEF HeldParts, ReadObjectInv
<1> QED
  BY <1>9, <1>10, <1>12, <1>14 DEF HeldParts

\* What an Application renders of a tree is a matter of its source and its namespace.
LEMMA GuardsOf == ASSUME NEW t, NEW a, NEW b, a.path = b.path, a.ns = b.ns PROVE GR!Guards(t, a) = GR!Guards(t, b)
  BY DEF GR!Guards, GR!Rendered

\* A sync removes nothing that the Application declares, and nothing of another.
LEMMA SyncHeld ==
  ASSUME RolloutTyped, CalmParts, HeldParts, NEW n \in DOMAIN apps, GR!SyncApp(n)
  PROVE  HeldParts'
<1>1. PICK r \in apps[n].rev .. GR!Tip :
        LET a == apps[n].def
            keys == GR!Guards(GR!T(r), a)
            here == {c \in claims : c.key \in keys}
            goes == {c \in claims : c.app = n /\ c.key \notin keys}
        IN  /\ r > 0 /\ GR!Renders(GR!T(r), a.path)
            /\ \A c \in here : c.app = n \/ c.app \notin DOMAIN apps
            /\ claims' = (claims \ (here \cup IF a.prune THEN goes ELSE {}))
                         \cup {[c EXCEPT !.app = n] : c \in here}
                         \cup {[key |-> k, app |-> n, uid |-> GR!Tip] : k \in keys \ {c.key : c \in here}}
            /\ apps' = [apps EXCEPT ![n].rev = r]
            /\ UNCHANGED <<main, specs, view, root, gate, baseline>>
  BY DEF GR!SyncApp
<1> DEFINE def == apps[n].def
           keys == GR!Guards(GR!T(r), def)
           here == {c \in claims : c.key \in keys}
           goes == {c \in claims : c.app = n /\ c.key \notin keys}
           left == claims \ (here \cup IF def.prune THEN goes ELSE {})
           moved == {[c EXCEPT !.app = n] : c \in here}
           fresh == {[key |-> k, app |-> n, uid |-> GR!Tip] : k \in keys \ {c.key : c \in here}}
<1>2. /\ main' = main /\ gate' = gate /\ baseline' = baseline /\ apps' = [apps EXCEPT ![n].rev = r]
      /\ claims' = left \cup moved \cup fresh
      /\ GR!Renders(GR!T(r), def.path)
      /\ \A c \in here : c.app = n \/ c.app \notin DOMAIN apps
  BY <1>1
<1>3. /\ GR!Tip \in Nat /\ GR!Tip >= 1 /\ r \in 1 .. GR!Tip /\ apps[n].rev <= r /\ apps[n].rev \in 0 .. GR!Tip
  <2>1. apps[n].rev \in 0 .. GR!Tip /\ GR!Tip \in Nat /\ GR!Tip >= 1
    BY RecentCommits DEF RolloutTyped, GR!TypeOK
  <2>2. r \in apps[n].rev .. GR!Tip /\ r > 0
    BY <1>1
  <2> QED
    BY <2>1, <2>2
<1>4. \A d \in claims : d = [key |-> d.key, app |-> d.app, uid |-> d.uid]
  BY DEF RolloutTyped
\* What of the live objects is there afterwards, and what there is afterwards.
<1>5. ASSUME NEW d \in claims, d.app \in DOMAIN apps, d.app = n => d.key \in keys
      PROVE  \E e \in claims' : e.key = d.key /\ e.uid = d.uid
  <2>1. CASE d \in here
    <3>1. [d EXCEPT !.app = n] \in moved /\ [d EXCEPT !.app = n] = [key |-> d.key, app |-> n, uid |-> d.uid]
      BY <1>4, <2>1
    <3> QED
      BY <1>2, <3>1
  <2>2. CASE d \notin here
    <3>1. d \in left
      BY <1>5, <2>2
    <3> QED
      BY <1>2, <3>1
  <2> QED
    BY <2>1, <2>2
<1>6. ASSUME NEW e \in claims'
      PROVE  e \in claims \/ (\E d \in here : e = [key |-> d.key, app |-> n, uid |-> d.uid]) \/ e.uid = GR!Tip
  <2>1. \A d \in left : d \in claims
    OBVIOUS
  <2>2. \A f \in moved : \E d \in here : f = [key |-> d.key, app |-> n, uid |-> d.uid]
    BY <1>4
  <2>3. \A f \in fresh : f.uid = GR!Tip
    OBVIOUS
  <2> HIDE DEF left, moved, fresh, here
  <2> QED
    BY <1>2, <2>1, <2>2, <2>3
<1> HIDE DEF left, moved, fresh, goes
<1>7. /\ GR!Tip' = GR!Tip /\ GR!Before' = GR!Before /\ GR!Recent' = GR!Recent
      /\ \A x, y : GR!Mixed(x, y)' = GR!Mixed(x, y)
  BY <1>2, SameCommits
<1>8. \A m \in DOMAIN apps : apps'[m].def = apps[m].def /\ (m # n => apps'[m] = apps[m])
  <2>1. apps[n] = [def |-> apps[n].def, rev |-> apps[n].rev]
    BY DEF RolloutTyped, GR!Live
  <2> QED
    BY <1>2, <2>1
<1>9. apps'[n].rev = r
  <2>1. apps[n] = [def |-> apps[n].def, rev |-> apps[n].rev]
    BY DEF RolloutTyped, GR!Live
  <2> QED
    BY <1>2, <2>1
<1>10. apps[n].rev \in GR!Recent => r \in GR!Recent
  BY <1>3 DEF GR!Recent, GR!Before
<1>11. SourceInv'
  <2>1. ASSUME NEW a \in GR!Mixed(GR!Before, GR!Before)
        PROVE  /\ \E x, y \in GR!Recent : apps'[a.name].def \in GR!Mixed(x, y)
               /\ Late(a) \/ apps'[a.name].rev \in GR!Recent
    <3>1. a.name \in DOMAIN apps
      BY DEF CalmParts, SurviveInv
    <3>2. (\E x, y \in GR!Recent : apps[a.name].def \in GR!Mixed(x, y)) /\ (Late(a) \/ apps[a.name].rev \in GR!Recent)
      BY DEF HeldParts, SourceInv
    <3> QED
      BY <1>8, <1>9, <1>10, <3>1, <3>2
  <2> QED
    BY <1>2, <1>7, <2>1, SameDeclared DEF SourceInv
<1>12. GuardInv' /\ UidInv'
  BY <1>2, SameDeclared DEF HeldParts
<1>13. KeeperInv'
  <2>1. ASSUME NEW c \in baseline, NEW a \in GR!Declaring(c), NEW e \in claims', Whole(c, e) PROVE e.app = c.app
    <3>1. e.uid # GR!Tip
      BY <2>1 DEF HeldParts, UidInv, Whole
    <3>2. \A d \in claims : Whole(c, d) => d.app = c.app
      BY DEF HeldParts, KeeperInv
    <3>3. CASE e \in claims
      BY <2>1, <3>2, <3>3
    <3>4. ASSUME NEW d \in here, e = [key |-> d.key, app |-> n, uid |-> d.uid] PROVE e.app = c.app
      <4>1. d \in claims /\ Whole(c, d)
        BY <2>1, <3>4 DEF Whole
      <4>2. d.app = c.app /\ c.app \in DOMAIN apps
        BY <3>2, <4>1, DeclaredBy
      <4> QED
        BY <1>2, <3>4, <4>2
    <3> QED
      BY <1>6, <3>1, <3>3, <3>4
  <2> QED
    BY <1>2, <2>1, SameDeclared DEF KeeperInv
\* An object stays if its Application, or whatever it is that is synced, declares it.
<1>14. ASSUME NEW c \in baseline, NEW a \in GR!Declaring(c), GR!Remains(c), c.app = n => c.key \in keys
       PROVE  GR!Remains(c)'
  <2>1. PICK d \in claims : Whole(c, d)
    BY <1>14 DEF GR!Remains, Whole
  <2>2. d.app = c.app /\ c.app \in DOMAIN apps
    BY <2>1, DeclaredBy DEF HeldParts, KeeperInv
  <2>3. \E e \in claims' : e.key = d.key /\ e.uid = d.uid
    BY <1>5, <1>14, <2>1, <2>2 DEF Whole
  <2> QED
    BY <1>2, <2>1, <2>3 DEF GR!Remains, Whole
<1>15. RemainInv'
  <2>1. ASSUME NEW c \in baseline, NEW a \in GR!Declaring(c), ~GR!Strays(a.name), ~Late(a), c.app = n PROVE c.key \in keys
    <3>1. /\ a \in GR!Mixed(GR!Before, GR!Before) /\ a.name = n /\ c.key \in GR!Guards(GR!T(GR!Before), a) /\ Same(a, def)
      BY <2>1, DeclaredBy
    <3>2. r \in GR!Recent
      BY <1>10, <2>1, <3>1 DEF HeldParts, SourceInv
    <3>3. def.path \in GR!T(r).dirs
      <4>1. main[r].tree \in DOMAIN Trees
        BY <1>3, TreeOf
      <4> QED
        BY <1>2, <4>1, TreesAssumption DEF GR!Renders, GR!T
    <3>4. PICK x \in GR!Recent, y \in GR!Recent : def \in GR!Mixed(x, y)
      BY <3>1 DEF HeldParts, SourceInv
    <3>5. def.name = n
      BY <3>1 DEF Same
    <3>6. PICK b \in GR!Settled(GR!T(r)) : b.name = n /\ b.path = def.path
      BY <2>1, <3>1, <3>2, <3>3, <3>4, <3>5 DEF GR!Strays
    <3>7. b \in GR!Mixed(r, r)
      BY <3>6 DEF GR!Mixed, GR!Settled
    <3>8. Same(a, b)
      BY <3>1, <3>2, <3>6, <3>7, KeptIn DEF CalmParts
    <3>9. b.ns = def.ns
      BY <3>1, <3>8 DEF Same, GR!Kept
    <3>10. keys = GR!Guards(GR!T(r), b)
      BY <3>6, <3>9, GuardsOf
    <3>11. GR!Guards(GR!T(GR!Before), a) \subseteq GR!Guards(GR!T(r), b)
      BY <3>1, <3>2, <3>6, <3>7 DEF HeldParts, GuardInv
    <3> QED
      BY <3>1, <3>10, <3>11
  <2> QED
    BY <1>2, <1>14, <2>1, SameDeclared DEF HeldParts, RemainInv
<1>16. ASSUME NEW b \in Planned(GR!Tip), ReadWell(AppItem(b)) PROVE apps'[b.name].rev = GR!Tip /\ (b.name = n => r = GR!Tip)
  <2>1. b.name \in DOMAIN apps /\ apps[b.name].rev = GR!Tip
    BY <1>16 DEF CalmParts, ReadInv, Deployed, HeldParts, ReadObjectInv
  <2>2. b.name = n => r = GR!Tip
    BY <1>3, <2>1
  <2> QED
    BY <1>8, <1>9, <2>1, <2>2
<1>17. ASSUME NEW c \in baseline, NEW a \in GR!Declaring(c), a.owner # "root", ReadWell(ObjectItem(c)) PROVE GR!Remains(c)'
  <2>1. GR!Remains(c) /\ \A b \in Planned(GR!Tip) : ReadWell(AppItem(b))
    BY <1>17 DEF HeldParts, ReadObjectInv
  <2>2. ASSUME c.app = n PROVE c.key \in keys
    <3>1. a \in GR!Mixed(GR!Before, GR!Before) /\ a.name = n /\ c.key \in GR!Guards(GR!T(GR!Before), a)
      BY <2>2, DeclaredBy
    <3>2. GR!Tip \in GR!Recent
      BY DEF GR!Recent
    <3>3. PICK b \in GR!Mixed(GR!Tip, GR!Tip) : Same(a, b)
      BY <3>1, <3>2 DEF CalmParts, MixInv
    <3>4. b.name = n /\ b \in Planned(GR!Tip)
      BY <1>17, <3>1, <3>3 DEF Same, GR!Kept, Planned, GR!Mixed, GR!Settled
    <3>5. def = b /\ r = GR!Tip
      BY <1>16, <2>1, <3>4 DEF CalmParts, ReadInv, Deployed
    <3>6. GR!Guards(GR!T(GR!Before), a) \subseteq GR!Guards(GR!T(GR!Tip), b)
      BY <3>1, <3>2, <3>3, <3>4 DEF HeldParts, GuardInv
    <3> QED
      BY <3>1, <3>5, <3>6
  <2> QED
    BY <1>14, <2>1, <2>2
<1>18. ReadObjectInv'
  BY <1>2, <1>16, <1>17, ObjectsStay DEF HeldParts
<1> QED
  BY <1>11, <1>12, <1>13, <1>15, <1>18 DEF HeldParts

\* After a PASS every Application renders the last commit, but for the root's own.
LEMMA MergeHeld ==
  ASSUME RolloutTyped, CalmParts, HeldParts, NEW t \in DOMAIN Trees, GR!Merge(t)
  PROVE  HeldParts'
<1>0. PICK tip : tip = GR!Tip
  OBVIOUS
<1>1. /\ main' = Append(main, [tree |-> t, calm |-> GR!Calm, synced |-> GR!Synced]) /\ gate' = [gate EXCEPT !.at = "idle"]
      /\ apps' = apps /\ claims' = claims /\ baseline' = claims
      /\ gate.at = "pass" /\ GR!Verdict(GR!T(tip), Trees[t]) # "BLOCK"
  BY <1>0 DEF GR!Merge, GR!cluster
<1>2. main \in Seq([tree : DOMAIN Trees, calm : BOOLEAN, synced : BOOLEAN]) /\ tip \in Nat /\ tip = Len(main) /\ tip >= 1
  BY <1>0, MainTyped, RecentCommits
<1>3. GR!Tip' = tip + 1 /\ main'[tip] = main[tip] /\ main'[tip + 1].tree = t /\ main'[tip + 1].synced = GR!Synced
  BY <1>1, <1>2 DEF GR!Tip
<1>4. GR!T(tip)' = GR!T(tip) /\ GR!T(tip + 1)' = Trees[t]
  BY <1>3 DEF GR!T
<1>5. GR!Before' = tip /\ GR!Recent' = {tip, tip + 1}
  BY <1>2, <1>3 DEF GR!Before, GR!Recent
<1>6. /\ GR!Mixed(tip, tip)' = GR!Settled(GR!T(tip)) /\ GR!Mixed(tip + 1, tip + 1)' = GR!Settled(Trees[t])
      /\ GR!Mixed(tip, tip) = GR!Settled(GR!T(tip))
  BY <1>4 DEF GR!Mixed, GR!Settled
<1>7. GuardInv'
  <2>1. \A k \in DOMAIN Trees : Tidy(Trees[k])
    BY TreesAssumption DEF Tidy
  <2>2. main[tip].tree \in DOMAIN Trees
    BY <1>0, <1>2, TreeOf
  <2>3. Tidy(GR!T(tip)) /\ Tidy(Trees[t])
    BY <2>1, <2>2 DEF GR!T
  <2>4. \A a \in GR!Settled(GR!T(tip)), b \in GR!Settled(Trees[t]) :
          a.name = b.name => GR!Guards(GR!T(tip), a) \subseteq GR!Guards(Trees[t], b)
    BY <1>1, <2>3, GuardsKept
  <2>5. \A a, b \in GR!Settled(GR!T(tip)) : a.name = b.name => a = b
    <3>1. tip \in GR!Recent
      BY <1>0 DEF GR!Recent
    <3> QED
      BY <1>6, <3>1, OneOfName DEF CalmParts
  <2>6. \A a : GR!Guards(GR!T(tip), a)' = GR!Guards(GR!T(tip), a) /\ GR!Guards(GR!T(tip + 1), a)' = GR!Guards(Trees[t], a)
    BY <1>4 DEF GR!Guards
  <2>7. ASSUME NEW x \in {tip, tip + 1}, NEW a \in GR!Mixed(tip, tip)', NEW b \in GR!Mixed(x, x)', a.name = b.name
        PROVE  GR!Guards(GR!T(tip), a)' \subseteq GR!Guards(GR!T(x), b)'
    <3>1. CASE x = tip
      BY <1>6, <2>5, <2>7, <3>1
    <3>2. CASE x = tip + 1
      BY <1>6, <2>4, <2>6, <2>7, <3>2
    <3> QED
      BY <3>1, <3>2
  <2> QED
    BY <1>5, <2>7 DEF GuardInv
<1>8. SourceInv'
  <2>1. ASSUME NEW a \in GR!Settled(GR!T(tip))
        PROVE  apps[a.name].def = a /\ ((a.owner = "root" /\ ~GR!Synced) \/ apps[a.name].rev = tip)
    <3>1. Deployed(a)
      BY <1>0, <1>1, PassDeployed
    <3>2. CASE a.owner = "root"
      BY <1>0, <3>1, <3>2 DEF Deployed, GR!Synced
    <3>3. CASE a.owner # "root"
      <4>1. a \in Planned(GR!Tip) /\ ReadWell(AppItem(a))
        BY <1>0, <1>1, <3>3 DEF Planned, ReadWell
      <4> QED
        BY <1>0, <3>1, <4>1 DEF HeldParts, ReadObjectInv, Deployed
    <3> QED
      BY <3>1, <3>2, <3>3 DEF Deployed
  <2>2. \A a : Late(a)' <=> a.owner = "root" /\ ~GR!Synced
    BY <1>3 DEF Late
  <2> QED
    BY <1>1, <1>5, <1>6, <2>1, <2>2 DEF SourceInv
<1>9. UidInv'
  <2>1. \A c \in claims : c.uid \in 0 .. tip
    BY <1>0 DEF RolloutTyped, GR!TypeOK
  <2> QED
    BY <1>1, <1>2, <1>3, <2>1 DEF UidInv
<1>10. KeeperInv'
  <2>1. \A c, d \in claims : c.key = d.key => c = d
    BY DEF RolloutTyped, GR!TypeOK
  <2> QED
    BY <1>1, <2>1 DEF KeeperInv, Whole
<1>11. RemainInv'
  BY <1>1 DEF RemainInv, GR!Remains
<1>12. gate'.at = "idle"
  BY <1>1 DEF RolloutTyped
<1>13. ReadObjectInv'
  BY <1>12 DEF ReadObjectInv, ReadWell
<1> QED
  BY <1>7, <1>8, <1>9, <1>10, <1>11, <1>13 DEF HeldParts

HeldInv == FullInv /\ (GR!Unhurried => HeldParts)

LEMMA HeldStep == HeldInv /\ [GR!Next]_(GR!vars) => HeldInv'
<1> SUFFICES ASSUME HeldInv, [GR!Next]_(GR!vars) PROVE HeldInv'
  OBVIOUS
<1>1. FullInv /\ FullInv'
  BY FullStep DEF HeldInv
<1> SUFFICES ASSUME GR!Unhurried' PROVE HeldParts'
  BY <1>1 DEF HeldInv
<1>2. GR!Unhurried
  <2>1. CASE main' = main
    BY <2>1 DEF GR!Unhurried
  <2>2. ASSUME NEW t \in DOMAIN Trees, GR!Merge(t) PROVE GR!Unhurried
    <3>1. main' = Append(main, [tree |-> t, calm |-> GR!Calm, synced |-> GR!Synced])
      BY <2>2 DEF GR!Merge
    <3>2. main \in Seq([tree : DOMAIN Trees, calm : BOOLEAN, synced : BOOLEAN])
      BY <1>1, MainTyped DEF FullInv
    <3>3. \A k \in DOMAIN main : k \in DOMAIN main' /\ main'[k] = main[k]
      BY <3>1, <3>2
    <3> QED
      BY <3>3 DEF GR!Unhurried
  <2> QED
    BY <2>1, <2>2 DEF GR!Next, GR!vars, GR!Gate, GR!GateStart, GR!GateRead, GR!GateReport, GR!Argo, GR!RootCompare, GR!RootStart,
                      GR!RootDone, GR!RootApplySet, GR!Refresh, GR!Generate, GR!SyncApp, GR!RootApplyApp
<1>3. RolloutTyped /\ FiniteInv /\ OrderInv /\ CalmParts /\ HeldParts /\ CalmParts'
  BY <1>1, <1>2 DEF HeldInv, FullInv, CalmInv
<1>4. CASE UNCHANGED GR!vars
  BY <1>3, <1>4, RootHeld DEF GR!vars, GR!cluster
<1>5. CASE GR!Gate
  BY <1>3, <1>5, GateHeld
<1>6. CASE GR!RootCompare \/ GR!RootStart \/ GR!RootDone \/ \E s \in GR!Sets : GR!RootApplySet(s) \/ GR!Refresh(s)
  BY <1>3, <1>6, RootHeld DEF GR!RootCompare, GR!RootStart, GR!RootDone, GR!RootApplySet, GR!Refresh
<1>7. ASSUME NEW s \in GR!Sets, GR!Generate(s) PROVE HeldParts'
  BY <1>3, <1>7, GenerateHeld
<1>8. ASSUME NEW n \in DOMAIN apps, GR!SyncApp(n) PROVE HeldParts'
  BY <1>3, <1>8, SyncHeld
<1>9. ASSUME NEW n, GR!RootApplyApp(n) PROVE HeldParts'
  BY <1>3, <1>9, ApplyAppHeld
<1>10. ASSUME NEW t \in DOMAIN Trees, GR!Merge(t) PROVE HeldParts'
  BY <1>3, <1>10, MergeHeld
<1> QED
  BY <1>4, <1>5, <1>6, <1>7, <1>8, <1>9, <1>10 DEF GR!Next, GR!Argo

LEMMA HeldMeans ==
  ASSUME CalmParts, HeldParts
  PROVE  GR!ClaimsSurvive /\ (gate.at = "pass" => GR!ObjectsLive)
<1>1. GR!ClaimsSurvive
  BY DEF HeldParts, RemainInv, Late, GR!ClaimsSurvive
<1>2. ASSUME gate.at = "pass", NEW c \in baseline, NEW a \in GR!Declaring(c), a.owner # "root" PROVE GR!Remains(c)
  BY <1>2 DEF HeldParts, ReadObjectInv, ReadWell
<1> QED
  BY <1>1, <1>2 DEF GR!ObjectsLive

\* GitOps changes: if each is merged when the ApplicationSets are through with the one
\* before, then, for any trees and in whatever order Argo CD takes their parts, no
\* Application goes, and no claim that the commit before declares is deleted or created
\* again, unless its Application strays or is the root's own and was late; after a passed
\* gate none is gone but the root's own.
THEOREM NothingIsDeleted == SpecAll => []NothingDeleted
<1>1. InitAll => HeldInv
  BY RolloutInit, CalmInit, HeldInit DEF InitAll, HeldInv, FullInv, CalmInv
<1>2. HeldInv /\ [NextAll]_allVars => HeldInv'
  BY RolloutSteps, HeldStep
<1>3. HeldInv => NothingDeleted
  BY CalmMeans, HeldMeans DEF HeldInv, FullInv, CalmInv, NothingDeleted, ApplicationsKept
<1> QED
  BY <1>1, <1>2, <1>3, PTL DEF SpecAll

-----------------------------------------------------------------------------
(* CRD schemas: for CI and for the API server, by how deep a schema nests *)

Answers == [Terms -> BOOLEAN]

LEMMA DepthTyped == SchemaDepth \in [CS!Nodes -> Nat]
  BY CrdAssumption DEF CS!Nodes

LEMMA PartsBelow ==
  ASSUME NEW n \in CS!Nodes
  PROVE  /\ \A f \in DOMAIN n.props : n.props[f] \in CS!Nodes /\ SchemaDepth[n.props[f]] < SchemaDepth[n]
         /\ \A e \in n.extra : e \in CS!Nodes /\ SchemaDepth[e] < SchemaDepth[n]
         /\ \A b \in n.branches : b \in CS!Nodes /\ SchemaDepth[b] < SchemaDepth[n]
         /\ n.embedded => \A p \in {CS!Plain("string"), [CS!Plain("object") EXCEPT !.preserve = TRUE]} :
              p \in CS!Nodes /\ SchemaDepth[p] < SchemaDepth[n]
  BY CrdAssumption

LEMMA FieldsBelow == ASSUME NEW v \in Terms, v.is = "object", NEW f \in DOMAIN v.fields PROVE v.fields[f] \in Terms
  BY CrdAssumption

LEMMA ConvertedBelow ==
  ASSUME NEW n \in CS!Nodes, NEW structural \in BOOLEAN
  PROVE  LET s == CS!ConvertNode(n, structural) IN
         /\ s.extra = n.extra /\ s.branches = n.branches /\ s.types = CS!TypesOf(n) /\ s.nullPasses = n.nullable
         /\ ~structural => s.props = n.props /\ ~s.closed
         /\ structural => (s.closed <=> s.props # <<>> /\ ~n.preserve)
         /\ structural /\ ~n.embedded => s.props = n.props
         /\ structural /\ n.embedded => s.props = CS!ResourceFields(n.props)
         /\ \A f \in DOMAIN s.props : s.props[f] \in CS!Nodes /\ SchemaDepth[s.props[f]] < SchemaDepth[n]
<1> DEFINE s == CS!ConvertNode(n, structural)
<1>1. /\ s.extra = n.extra /\ s.branches = n.branches /\ s.types = CS!TypesOf(n) /\ s.nullPasses = n.nullable
      /\ ~structural => s.props = n.props /\ ~s.closed
      /\ structural => (s.closed <=> s.props # <<>> /\ ~n.preserve)
      /\ structural /\ ~n.embedded => s.props = n.props
      /\ structural /\ n.embedded => s.props = CS!ResourceFields(n.props)
  BY DEF CS!ConvertNode, CS!NullPasses, CS!Closes
<1>2. ASSUME NEW f \in DOMAIN s.props PROVE s.props[f] \in CS!Nodes /\ SchemaDepth[s.props[f]] < SchemaDepth[n]
  <2>1. CASE structural /\ n.embedded
    <3>1. s.props = CS!ResourceFields(n.props) /\ DOMAIN s.props = DOMAIN n.props \cup CS!OwnFields
      BY <1>1, <2>1 DEF CS!ResourceFields
    <3>2. s.props[f] \in {CS!Plain("string"), [CS!Plain("object") EXCEPT !.preserve = TRUE]} \/ (f \in DOMAIN n.props /\ s.props[f] = n.props[f])
      BY <1>2, <3>1 DEF CS!ResourceFields
    <3> QED
      BY <2>1, <3>2, PartsBelow
  <2>2. CASE ~(structural /\ n.embedded)
    BY <1>1, <1>2, <2>2, PartsBelow
  <2> QED
    BY <2>1, <2>2
<1> QED
  BY <1>1, <1>2

\* satisfies is the function that its equation describes.
LEMMA SatisfiesIs ==
  /\ CS!satisfies \in [CS!Nodes -> Answers]
  /\ \A n \in CS!Nodes, v \in Terms :
       CS!satisfies[n][v] <=>
         /\ v.is \in CS!TypesOf(n)
         /\ v.is = "object" => \A f \in DOMAIN v.fields \cap DOMAIN n.props : CS!satisfies[n.props[f]][v.fields[f]]
         /\ n.branches = {} \/ \E b \in n.branches : CS!satisfies[b][v]
<1> DEFINE Body(g, n) == [v \in Terms |-> 
             /\ v.is \in CS!TypesOf(n)
             /\ v.is = "object" => \A f \in DOMAIN v.fields \cap DOMAIN n.props : g[n.props[f]][v.fields[f]]
             /\ n.branches = {} \/ \E b \in n.branches : g[b][v]]
           G == [g \in [CS!Nodes -> Answers] |-> [n \in CS!Nodes |-> Body(g, n)]]
<1>1. G \in [[CS!Nodes -> Answers] -> [CS!Nodes -> Answers]]
  BY DEF Answers
<1>2. ASSUME NEW g \in [CS!Nodes -> Answers], NEW h \in [CS!Nodes -> Answers], NEW n \in CS!Nodes,
             \A m \in CS!Nodes : SchemaDepth[m] < SchemaDepth[n] => g[m] = h[m]
      PROVE  G[g][n] = G[h][n]
  <2>1. \A f \in DOMAIN n.props : g[n.props[f]] = h[n.props[f]]
    BY <1>2, PartsBelow
  <2>2. \A b \in n.branches : g[b] = h[b]
    BY <1>2, PartsBelow
  <2>3. ASSUME NEW v \in Terms PROVE Body(g, n)[v] = Body(h, n)[v]
    BY <2>1, <2>2
  <2>4. Body(g, n) = Body(h, n)
    BY <2>3
  <2> QED
    BY <2>4
<1>3. Answers # {}
  <2> [v \in Terms |-> TRUE] \in Answers
    BY DEF Answers
  <2> QED
    OBVIOUS
<1>4. Descends(G, CS!Nodes, Answers, SchemaDepth)
  <2>1. \A g, h \in [CS!Nodes -> Answers] : \A n \in CS!Nodes :
           (\A m \in CS!Nodes : SchemaDepth[m] < SchemaDepth[n] => g[m] = h[m]) => G[g][n] = G[h][n]
    BY <1>2
  <2> HIDE DEF G
  <2> QED
    BY <2>1, <1>1, <1>3, DepthTyped DEF Descends
<1>5. PICK g : g = [n \in CS!Nodes |-> Body(g, n)] /\ g \in [CS!Nodes -> Answers]
  <2>1. \E g \in [CS!Nodes -> Answers] : g = G[g]
    <3> HIDE DEF G
    <3> QED
      BY <1>4, RecursiveFunction
  <2> QED
    BY <2>1
<1>6. CS!satisfies = [n \in CS!Nodes |-> Body(CS!satisfies, n)]
  <2>1. CS!satisfies = CHOOSE h : h = [n \in CS!Nodes |-> Body(h, n)]
    BY DEF CS!satisfies
  <2> HIDE DEF Body
  <2> QED
    BY <1>5, <2>1
<1>7. \A n \in CS!Nodes : Body(CS!satisfies, n) \in Answers
  BY DEF Answers
<1>8. ASSUME NEW n \in CS!Nodes, NEW v \in Terms PROVE CS!satisfies[n][v] = Body(CS!satisfies, n)[v]
  <2> HIDE DEF Body
  <2> QED
    BY <1>6
<1>9. CS!satisfies \in [CS!Nodes -> Answers]
  <2> HIDE DEF Body
  <2> QED
    BY <1>6, <1>7
<1> QED
  BY <1>8, <1>9

\* ... as are logical,
LEMMA LogicalIs ==
  /\ CS!logical \in [CS!Nodes -> BOOLEAN]
  /\ \A n \in CS!Nodes :
       CS!logical[n] <=>
         /\ n.extra = {} /\ ~n.nullable
         /\ \A f \in DOMAIN n.props : CS!logical[n.props[f]]
         /\ \A b \in n.branches : CS!logical[b]
<1> DEFINE Body(g, n) ==
             /\ n.extra = {} /\ ~n.nullable
             /\ \A f \in DOMAIN n.props : g[n.props[f]]
             /\ \A b \in n.branches : g[b]
           G == [g \in [CS!Nodes -> BOOLEAN] |-> [n \in CS!Nodes |-> Body(g, n)]]
<1>1. G \in [[CS!Nodes -> BOOLEAN] -> [CS!Nodes -> BOOLEAN]]
  OBVIOUS
<1>2. ASSUME NEW g \in [CS!Nodes -> BOOLEAN], NEW h \in [CS!Nodes -> BOOLEAN], NEW n \in CS!Nodes,
             \A m \in CS!Nodes : SchemaDepth[m] < SchemaDepth[n] => g[m] = h[m]
      PROVE  G[g][n] = G[h][n]
  <2>1. \A f \in DOMAIN n.props : g[n.props[f]] = h[n.props[f]]
    BY <1>2, PartsBelow
  <2>2. \A b \in n.branches : g[b] = h[b]
    BY <1>2, PartsBelow
  <2> QED
    BY <2>1, <2>2
<1>3. BOOLEAN # {}
  OBVIOUS
<1>4. Descends(G, CS!Nodes, BOOLEAN, SchemaDepth)
  <2>1. \A g, h \in [CS!Nodes -> BOOLEAN] : \A n \in CS!Nodes :
           (\A m \in CS!Nodes : SchemaDepth[m] < SchemaDepth[n] => g[m] = h[m]) => G[g][n] = G[h][n]
    BY <1>2
  <2> HIDE DEF G
  <2> QED
    BY <2>1, <1>1, <1>3, DepthTyped DEF Descends
<1>5. PICK g : g = [n \in CS!Nodes |-> Body(g, n)] /\ g \in [CS!Nodes -> BOOLEAN]
  <2>1. \E g \in [CS!Nodes -> BOOLEAN] : g = G[g]
    <3> HIDE DEF G
    <3> QED
      BY <1>4, RecursiveFunction
  <2> QED
    BY <2>1
<1>6. CS!logical = [n \in CS!Nodes |-> Body(CS!logical, n)]
  <2>1. CS!logical = CHOOSE h : h = [n \in CS!Nodes |-> Body(h, n)]
    BY DEF CS!logical
  <2> HIDE DEF Body
  <2> QED
    BY <1>5, <2>1
<1>7. \A n \in CS!Nodes : Body(CS!logical, n) \in BOOLEAN
  OBVIOUS
<1>8. ASSUME NEW n \in CS!Nodes PROVE CS!logical[n] = Body(CS!logical, n)
  <2> HIDE DEF Body
  <2> QED
    BY <1>6
<1>9. CS!logical \in [CS!Nodes -> BOOLEAN]
  <2> HIDE DEF Body
  <2> QED
    BY <1>6, <1>7
<1> QED
  BY <1>8, <1>9

\* taken,
LEMMA TakenIs ==
  /\ CS!taken \in [CS!Nodes -> BOOLEAN]
  /\ \A n \in CS!Nodes :
       CS!taken[n] <=>
         /\ n.type \in {"object", "string", "integer", "intOrString"}
         /\ \A f \in DOMAIN n.props : CS!taken[n.props[f]]
         /\ \A e, d \in n.extra : CS!taken[e] /\ e = d
         /\ \A b \in n.branches : CS!logical[b]
<1> DEFINE Body(g, n) ==
             /\ n.type \in {"object", "string", "integer", "intOrString"}
             /\ \A f \in DOMAIN n.props : g[n.props[f]]
             /\ \A e, d \in n.extra : g[e] /\ e = d
             /\ \A b \in n.branches : CS!logical[b]
           G == [g \in [CS!Nodes -> BOOLEAN] |-> [n \in CS!Nodes |-> Body(g, n)]]
<1>1. G \in [[CS!Nodes -> BOOLEAN] -> [CS!Nodes -> BOOLEAN]]
  OBVIOUS
<1>2. ASSUME NEW g \in [CS!Nodes -> BOOLEAN], NEW h \in [CS!Nodes -> BOOLEAN], NEW n \in CS!Nodes,
             \A m \in CS!Nodes : SchemaDepth[m] < SchemaDepth[n] => g[m] = h[m]
      PROVE  G[g][n] = G[h][n]
  <2>1. \A f \in DOMAIN n.props : g[n.props[f]] = h[n.props[f]]
    BY <1>2, PartsBelow
  <2>2. \A e \in n.extra : g[e] = h[e]
    BY <1>2, PartsBelow
  <2> QED
    BY <2>1, <2>2
<1>3. BOOLEAN # {}
  OBVIOUS
<1>4. Descends(G, CS!Nodes, BOOLEAN, SchemaDepth)
  <2>1. \A g, h \in [CS!Nodes -> BOOLEAN] : \A n \in CS!Nodes :
           (\A m \in CS!Nodes : SchemaDepth[m] < SchemaDepth[n] => g[m] = h[m]) => G[g][n] = G[h][n]
    BY <1>2
  <2> HIDE DEF G
  <2> QED
    BY <2>1, <1>1, <1>3, DepthTyped DEF Descends
<1>5. PICK g : g = [n \in CS!Nodes |-> Body(g, n)] /\ g \in [CS!Nodes -> BOOLEAN]
  <2>1. \E g \in [CS!Nodes -> BOOLEAN] : g = G[g]
    <3> HIDE DEF G
    <3> QED
      BY <1>4, RecursiveFunction
  <2> QED
    BY <2>1
<1>6. CS!taken = [n \in CS!Nodes |-> Body(CS!taken, n)]
  <2>1. CS!taken = CHOOSE h : h = [n \in CS!Nodes |-> Body(h, n)]
    BY DEF CS!taken
  <2> HIDE DEF Body
  <2> QED
    BY <1>5, <2>1
<1>7. \A n \in CS!Nodes : Body(CS!taken, n) \in BOOLEAN
  OBVIOUS
<1>8. ASSUME NEW n \in CS!Nodes PROVE CS!taken[n] = Body(CS!taken, n)
  <2> HIDE DEF Body
  <2> QED
    BY <1>6
<1>9. CS!taken \in [CS!Nodes -> BOOLEAN]
  <2> HIDE DEF Body
  <2> QED
    BY <1>6, <1>7
<1> QED
  BY <1>8, <1>9

\* open,
LEMMA OpenIs ==
  /\ CS!open \in [CS!Nodes -> BOOLEAN]
  /\ \A n \in CS!Nodes :
       CS!open[n] <=>
         \/ n.type = "object" /\ n.props = <<>> /\ n.extra = {} /\ ~n.preserve /\ ~n.embedded
         \/ \E f \in DOMAIN n.props : CS!open[n.props[f]]
         \/ \E e \in n.extra : CS!open[e]
<1> DEFINE Body(g, n) ==
             \/ n.type = "object" /\ n.props = <<>> /\ n.extra = {} /\ ~n.preserve /\ ~n.embedded
             \/ \E f \in DOMAIN n.props : g[n.props[f]]
             \/ \E e \in n.extra : g[e]
           G == [g \in [CS!Nodes -> BOOLEAN] |-> [n \in CS!Nodes |-> Body(g, n)]]
<1>1. G \in [[CS!Nodes -> BOOLEAN] -> [CS!Nodes -> BOOLEAN]]
  OBVIOUS
<1>2. ASSUME NEW g \in [CS!Nodes -> BOOLEAN], NEW h \in [CS!Nodes -> BOOLEAN], NEW n \in CS!Nodes,
             \A m \in CS!Nodes : SchemaDepth[m] < SchemaDepth[n] => g[m] = h[m]
      PROVE  G[g][n] = G[h][n]
  <2>1. \A f \in DOMAIN n.props : g[n.props[f]] = h[n.props[f]]
    BY <1>2, PartsBelow
  <2>2. \A e \in n.extra : g[e] = h[e]
    BY <1>2, PartsBelow
  <2> QED
    BY <2>1, <2>2
<1>3. BOOLEAN # {}
  OBVIOUS
<1>4. Descends(G, CS!Nodes, BOOLEAN, SchemaDepth)
  <2>1. \A g, h \in [CS!Nodes -> BOOLEAN] : \A n \in CS!Nodes :
           (\A m \in CS!Nodes : SchemaDepth[m] < SchemaDepth[n] => g[m] = h[m]) => G[g][n] = G[h][n]
    BY <1>2
  <2> HIDE DEF G
  <2> QED
    BY <2>1, <1>1, <1>3, DepthTyped DEF Descends
<1>5. PICK g : g = [n \in CS!Nodes |-> Body(g, n)] /\ g \in [CS!Nodes -> BOOLEAN]
  <2>1. \E g \in [CS!Nodes -> BOOLEAN] : g = G[g]
    <3> HIDE DEF G
    <3> QED
      BY <1>4, RecursiveFunction
  <2> QED
    BY <2>1
<1>6. CS!open = [n \in CS!Nodes |-> Body(CS!open, n)]
  <2>1. CS!open = CHOOSE h : h = [n \in CS!Nodes |-> Body(h, n)]
    BY DEF CS!open
  <2> HIDE DEF Body
  <2> QED
    BY <1>5, <2>1
<1>7. \A n \in CS!Nodes : Body(CS!open, n) \in BOOLEAN
  OBVIOUS
<1>8. ASSUME NEW n \in CS!Nodes PROVE CS!open[n] = Body(CS!open, n)
  <2> HIDE DEF Body
  <2> QED
    BY <1>6
<1>9. CS!open \in [CS!Nodes -> BOOLEAN]
  <2> HIDE DEF Body
  <2> QED
    BY <1>6, <1>7
<1> QED
  BY <1>8, <1>9

\* keeps
LEMMA KeepsIs ==
  /\ CS!keeps \in [CS!Nodes -> Answers]
  /\ \A n \in CS!Nodes, v \in Terms :
       CS!keeps[n][v] <=>
         \/ v.is = "null" /\ n.nullable
         \/ /\ v.is # "null" /\ v.is \in CS!TypesOf(n)
            /\ n.branches = {} \/ \E b \in n.branches : CS!satisfies[b][v]
            /\ v.is = "object" => \A f \in DOMAIN v.fields :
                 \/ f = "metadata" /\ f \in CS!Own(n) /\ v.fields[f].is = "object"
                 \/ f \in CS!Own(n) \ (DOMAIN n.props \cup {"metadata"}) /\ v.fields[f].is = "string"
                 \/ f \in DOMAIN n.props \ (CS!Own(n) \cap {"metadata"}) /\ CS!keeps[n.props[f]][v.fields[f]]
                 \/ /\ f \notin DOMAIN n.props \cup CS!Own(n)
                    /\ (\E e \in n.extra : CS!keeps[e][v.fields[f]]) \/ (n.extra = {} /\ n.preserve)
<1> DEFINE Body(g, n) == [v \in Terms |-> 
             \/ v.is = "null" /\ n.nullable
             \/ /\ v.is # "null" /\ v.is \in CS!TypesOf(n)
                /\ n.branches = {} \/ \E b \in n.branches : CS!satisfies[b][v]
                /\ v.is = "object" => \A f \in DOMAIN v.fields :
                     \/ f = "metadata" /\ f \in CS!Own(n) /\ v.fields[f].is = "object"
                     \/ f \in CS!Own(n) \ (DOMAIN n.props \cup {"metadata"}) /\ v.fields[f].is = "string"
                     \/ f \in DOMAIN n.props \ (CS!Own(n) \cap {"metadata"}) /\ g[n.props[f]][v.fields[f]]
                     \/ /\ f \notin DOMAIN n.props \cup CS!Own(n)
                        /\ (\E e \in n.extra : g[e][v.fields[f]]) \/ (n.extra = {} /\ n.preserve)]
           G == [g \in [CS!Nodes -> Answers] |-> [n \in CS!Nodes |-> Body(g, n)]]
<1>1. G \in [[CS!Nodes -> Answers] -> [CS!Nodes -> Answers]]
  BY DEF Answers
<1>2. ASSUME NEW g \in [CS!Nodes -> Answers], NEW h \in [CS!Nodes -> Answers], NEW n \in CS!Nodes,
             \A m \in CS!Nodes : SchemaDepth[m] < SchemaDepth[n] => g[m] = h[m]
      PROVE  G[g][n] = G[h][n]
  <2>1. \A f \in DOMAIN n.props : g[n.props[f]] = h[n.props[f]]
    BY <1>2, PartsBelow
  <2>2. \A e \in n.extra : g[e] = h[e]
    BY <1>2, PartsBelow
  <2>3. ASSUME NEW v \in Terms PROVE Body(g, n)[v] = Body(h, n)[v]
    BY <2>1, <2>2
  <2>4. Body(g, n) = Body(h, n)
    BY <2>3
  <2> QED
    BY <2>4
<1>3. Answers # {}
  <2> [v \in Terms |-> TRUE] \in Answers
    BY DEF Answers
  <2> QED
    OBVIOUS
<1>4. Descends(G, CS!Nodes, Answers, SchemaDepth)
  <2>1. \A g, h \in [CS!Nodes -> Answers] : \A n \in CS!Nodes :
           (\A m \in CS!Nodes : SchemaDepth[m] < SchemaDepth[n] => g[m] = h[m]) => G[g][n] = G[h][n]
    BY <1>2
  <2> HIDE DEF G
  <2> QED
    BY <2>1, <1>1, <1>3, DepthTyped DEF Descends
<1>5. PICK g : g = [n \in CS!Nodes |-> Body(g, n)] /\ g \in [CS!Nodes -> Answers]
  <2>1. \E g \in [CS!Nodes -> Answers] : g = G[g]
    <3> HIDE DEF G
    <3> QED
      BY <1>4, RecursiveFunction
  <2> QED
    BY <2>1
<1>6. CS!keeps = [n \in CS!Nodes |-> Body(CS!keeps, n)]
  <2>1. CS!keeps = CHOOSE h : h = [n \in CS!Nodes |-> Body(h, n)]
    BY DEF CS!keeps
  <2> HIDE DEF Body
  <2> QED
    BY <1>5, <2>1
<1>7. \A n \in CS!Nodes : Body(CS!keeps, n) \in Answers
  BY DEF Answers
<1>8. ASSUME NEW n \in CS!Nodes, NEW v \in Terms PROVE CS!keeps[n][v] = Body(CS!keeps, n)[v]
  <2> HIDE DEF Body
  <2> QED
    BY <1>6
<1>9. CS!keeps \in [CS!Nodes -> Answers]
  <2> HIDE DEF Body
  <2> QED
    BY <1>6, <1>7
<1> QED
  BY <1>8, <1>9

\* and valid.
LEMMA ValidIs ==
  /\ CS!valid \in [CS!Nodes -> [BOOLEAN -> Answers]]
  /\ \A n \in CS!Nodes, structural \in BOOLEAN, v \in Terms :
       CS!valid[n][structural][v] <=>
         LET s == CS!ConvertNode(n, structural) IN
         /\ v.is \in s.types
         /\ v.is = "object" => \A f \in DOMAIN v.fields :
              IF f \in DOMAIN s.props THEN CS!valid[s.props[f]][structural][v.fields[f]]
              ELSE (\A e \in s.extra : CS!valid[e][structural][v.fields[f]]) /\ (s.extra = {} => ~s.closed)
         /\ s.branches = {} \/ (s.nullPasses /\ v.is = "null") \/ \E b \in s.branches : CS!valid[b][FALSE][v]
<1> DEFINE Passes(g, s, structural, v) ==
             /\ v.is \in s.types
             /\ v.is = "object" => \A f \in DOMAIN v.fields :
                  IF f \in DOMAIN s.props THEN g[s.props[f]][structural][v.fields[f]]
                  ELSE (\A e \in s.extra : g[e][structural][v.fields[f]]) /\ (s.extra = {} => ~s.closed)
             /\ s.branches = {} \/ (s.nullPasses /\ v.is = "null") \/ \E b \in s.branches : g[b][FALSE][v]
           Body(g, n) == [structural \in BOOLEAN |-> [v \in Terms |-> Passes(g, CS!ConvertNode(n, structural), structural, v)]]
           G == [g \in [CS!Nodes -> [BOOLEAN -> Answers]] |-> [n \in CS!Nodes |-> Body(g, n)]]
<1>1. G \in [[CS!Nodes -> [BOOLEAN -> Answers]] -> [CS!Nodes -> [BOOLEAN -> Answers]]]
  BY DEF Answers
<1>2. ASSUME NEW g \in [CS!Nodes -> [BOOLEAN -> Answers]], NEW h \in [CS!Nodes -> [BOOLEAN -> Answers]], NEW n \in CS!Nodes,
             \A m \in CS!Nodes : SchemaDepth[m] < SchemaDepth[n] => g[m] = h[m]
      PROVE  G[g][n] = G[h][n]
  <2>1. ASSUME NEW structural \in BOOLEAN, NEW f \in DOMAIN CS!ConvertNode(n, structural).props
      PROVE  g[CS!ConvertNode(n, structural).props[f]] = h[CS!ConvertNode(n, structural).props[f]]
    <3>1. CS!ConvertNode(n, structural).props[f] \in CS!Nodes /\ SchemaDepth[CS!ConvertNode(n, structural).props[f]] < SchemaDepth[n]
      BY ConvertedBelow
    <3> HIDE DEF G, Body
    <3> QED
      BY <1>2, <3>1
  <2>2. ASSUME NEW structural \in BOOLEAN, NEW e \in CS!ConvertNode(n, structural).extra \cup CS!ConvertNode(n, structural).branches
      PROVE  g[e] = h[e]
    BY <1>2, PartsBelow, ConvertedBelow
  <2>3. ASSUME NEW structural \in BOOLEAN, NEW v \in Terms
        PROVE  Passes(g, CS!ConvertNode(n, structural), structural, v) = Passes(h, CS!ConvertNode(n, structural), structural, v)
    <3> DEFINE s == CS!ConvertNode(n, structural)
    <3>1. \A f \in DOMAIN s.props : g[s.props[f]] = h[s.props[f]]
      BY <2>1
    <3>2. \A e \in s.extra \cup s.branches : g[e] = h[e]
      BY <2>2
    <3> HIDE DEF s
    <3>3. Passes(g, s, structural, v) = Passes(h, s, structural, v)
      BY <3>1, <3>2
    <3> QED
      BY <3>3 DEF s
  <2>4. \A structural \in BOOLEAN : Body(g, n)[structural] = Body(h, n)[structural]
    <3> HIDE DEF Passes
    <3> QED
      BY <2>3
  <2>5. Body(g, n) = Body(h, n)
    BY <2>4
  <2> QED
    BY <2>5
<1>3. [BOOLEAN -> Answers] # {}
  <2> [structural \in BOOLEAN |-> [v \in Terms |-> TRUE]] \in [BOOLEAN -> Answers]
    BY DEF Answers
  <2> QED
    OBVIOUS
<1>4. Descends(G, CS!Nodes, [BOOLEAN -> Answers], SchemaDepth)
  <2>1. \A g, h \in [CS!Nodes -> [BOOLEAN -> Answers]] : \A n \in CS!Nodes :
           (\A m \in CS!Nodes : SchemaDepth[m] < SchemaDepth[n] => g[m] = h[m]) => G[g][n] = G[h][n]
    BY <1>2
  <2> HIDE DEF G
  <2> QED
    BY <2>1, <1>1, <1>3, DepthTyped DEF Descends
<1>5. PICK g : g = [n \in CS!Nodes |-> Body(g, n)] /\ g \in [CS!Nodes -> [BOOLEAN -> Answers]]
  <2>1. \E g \in [CS!Nodes -> [BOOLEAN -> Answers]] : g = G[g]
    <3> HIDE DEF G
    <3> QED
      BY <1>4, RecursiveFunction
  <2> QED
    BY <2>1
<1>6. CS!valid = [n \in CS!Nodes |-> Body(CS!valid, n)]
  <2>1. CS!valid = CHOOSE h : h = [n \in CS!Nodes |-> Body(h, n)]
    BY DEF CS!valid
  <2> HIDE DEF Body
  <2> QED
    BY <1>5, <2>1
<1>7. \A n \in CS!Nodes : Body(CS!valid, n) \in [BOOLEAN -> Answers]
  BY DEF Answers
<1>8. ASSUME NEW n \in CS!Nodes, NEW structural \in BOOLEAN, NEW v \in Terms PROVE CS!valid[n][structural][v] = Body(CS!valid, n)[structural][v]
  <2> HIDE DEF Body
  <2> QED
    BY <1>6
<1>9. CS!valid \in [CS!Nodes -> [BOOLEAN -> Answers]]
  <2> HIDE DEF Body
  <2> QED
    BY <1>6, <1>7
<1>10. ASSUME NEW n \in CS!Nodes, NEW structural \in BOOLEAN, NEW v \in Terms PROVE CS!valid[n][structural][v] <=>
         LET s == CS!ConvertNode(n, structural) IN
         /\ v.is \in s.types
         /\ v.is = "object" => \A f \in DOMAIN v.fields :
              IF f \in DOMAIN s.props THEN CS!valid[s.props[f]][structural][v.fields[f]]
              ELSE (\A e \in s.extra : CS!valid[e][structural][v.fields[f]]) /\ (s.extra = {} => ~s.closed)
         /\ s.branches = {} \/ (s.nullPasses /\ v.is = "null") \/ \E b \in s.branches : CS!valid[b][FALSE][v]
  <2>1. Body(CS!valid, n)[structural][v] = (
           LET s == CS!ConvertNode(n, structural) IN
           /\ v.is \in s.types
           /\ v.is = "object" => \A f \in DOMAIN v.fields :
                IF f \in DOMAIN s.props THEN CS!valid[s.props[f]][structural][v.fields[f]]
                ELSE (\A e \in s.extra : CS!valid[e][structural][v.fields[f]]) /\ (s.extra = {} => ~s.closed)
           /\ s.branches = {} \/ (s.nullPasses /\ v.is = "null") \/ \E b \in s.branches : CS!valid[b][FALSE][v])
    OBVIOUS
  <2> HIDE DEF Body
  <2> QED
    BY <1>8, <2>1
<1> QED
  BY <1>9, <1>10

\* In a branch, CI asks for what the API server asks for.
LEMMA BranchesAgree ==
  ASSUME NEW n \in CS!Nodes, CS!logical[n], NEW v \in Terms
  PROVE  CS!valid[n][FALSE][v] <=> CS!satisfies[n][v]
<1> DEFINE Agree(m) == CS!logical[m] => \A w \in Terms : CS!valid[m][FALSE][w] <=> CS!satisfies[m][w]
           B == {m \in CS!Nodes : Agree(m)}
<1>1. ASSUME NEW m \in CS!Nodes, \A p \in CS!Nodes : SchemaDepth[p] < SchemaDepth[m] => p \in B PROVE m \in B
  <2> SUFFICES ASSUME CS!logical[m], NEW w \in Terms PROVE CS!valid[m][FALSE][w] <=> CS!satisfies[m][w]
    OBVIOUS
  <2> DEFINE s == CS!ConvertNode(m, FALSE)
  <2>1. /\ s.props = m.props /\ ~s.closed /\ s.extra = m.extra /\ s.branches = m.branches
        /\ s.types = CS!TypesOf(m) /\ s.nullPasses = m.nullable
    BY ConvertedBelow
  <2>2. /\ m.extra = {} /\ ~m.nullable
        /\ \A f \in DOMAIN m.props : CS!logical[m.props[f]]
        /\ \A b \in m.branches : CS!logical[b]
    BY LogicalIs
  <2>3. \A f \in DOMAIN m.props : \A u \in Terms : CS!valid[m.props[f]][FALSE][u] <=> CS!satisfies[m.props[f]][u]
    BY <1>1, <2>2, PartsBelow
  <2>4. \A b \in m.branches : \A u \in Terms : CS!valid[b][FALSE][u] <=> CS!satisfies[b][u]
    BY <1>1, <2>2, PartsBelow
  <2> HIDE DEF B, s
  <2>5. CS!valid[m][FALSE][w] <=>
          /\ w.is \in CS!TypesOf(m)
          /\ w.is = "object" => \A f \in DOMAIN w.fields :
               f \in DOMAIN m.props => CS!valid[m.props[f]][FALSE][w.fields[f]]
          /\ m.branches = {} \/ \E b \in m.branches : CS!valid[b][FALSE][w]
    <3>1. CS!valid[m][FALSE][w] <=>
            /\ w.is \in s.types
            /\ w.is = "object" => \A f \in DOMAIN w.fields :
                 IF f \in DOMAIN s.props THEN CS!valid[s.props[f]][FALSE][w.fields[f]]
                 ELSE (\A e \in s.extra : CS!valid[e][FALSE][w.fields[f]]) /\ (s.extra = {} => ~s.closed)
            /\ s.branches = {} \/ (s.nullPasses /\ w.is = "null") \/ \E b \in s.branches : CS!valid[b][FALSE][w]
      BY ValidIs DEF s
    <3> QED
      BY <3>1, <2>1, <2>2
  <2>6. w.is = "object" => \A f \in DOMAIN w.fields : w.fields[f] \in Terms
    BY FieldsBelow
  <2>7. CS!satisfies[m][w] <=>
          /\ w.is \in CS!TypesOf(m)
          /\ w.is = "object" => \A f \in DOMAIN w.fields \cap DOMAIN m.props : CS!satisfies[m.props[f]][w.fields[f]]
          /\ m.branches = {} \/ \E b \in m.branches : CS!satisfies[b][w]
    BY SatisfiesIs
  <2> QED
    BY <2>3, <2>4, <2>5, <2>6, <2>7
<1> HIDE DEF B
<1>2. CS!Nodes \subseteq B
  BY <1>1, DepthTyped, ByDepth
<1> QED
  BY <1>2 DEF B

\* What every resource has.
LEMMA OwnAgree ==
  ASSUME NEW m \in CS!Nodes, m.embedded, NEW x \in Terms
  PROVE  /\ CS!valid[CS!Plain("string")][TRUE][x] <=> x.is = "string"
         /\ CS!valid[[CS!Plain("object") EXCEPT !.preserve = TRUE]][TRUE][x] <=> x.is = "object"
<1>1. /\ CS!Plain("string") \in CS!Nodes /\ [CS!Plain("object") EXCEPT !.preserve = TRUE] \in CS!Nodes
  BY PartsBelow
<1>2. ASSUME NEW p \in CS!Nodes, p \in {CS!Plain("string"), [CS!Plain("object") EXCEPT !.preserve = TRUE]}
      PROVE  CS!valid[p][TRUE][x] <=> x.is = p.type
  <2>1. /\ p.props = <<>> /\ p.extra = {} /\ p.branches = {} /\ ~p.embedded /\ ~p.nullable /\ p.type \in {"object", "string"}
        /\ p.preserve \/ p.type = "string"
    BY <1>2 DEF CS!Plain
  <2> DEFINE s == CS!ConvertNode(p, TRUE)
  <2>2. /\ s.props = <<>> /\ ~s.closed /\ s.extra = {} /\ s.branches = {} /\ s.types = {p.type}
    <3>1. /\ s.props = p.props /\ s.extra = p.extra /\ s.branches = p.branches /\ s.types = CS!TypesOf(p)
          /\ s.closed <=> p.props # <<>> /\ ~p.preserve
      <4>1. /\ s.extra = p.extra /\ s.branches = p.branches /\ s.types = CS!TypesOf(p)
            /\ s.closed <=> s.props # <<>> /\ ~p.preserve
            /\ ~p.embedded => s.props = p.props
        BY ConvertedBelow
      <4> HIDE DEF s
      <4> QED
        BY <2>1, <4>1
    <3>2. CS!TypesOf(p) = {p.type}
      BY <2>1 DEF CS!TypesOf
    <3> QED
      BY <2>1, <3>1, <3>2
  <2>3. CS!valid[p][TRUE][x] <=>
            /\ x.is \in s.types
            /\ x.is = "object" => \A f \in DOMAIN x.fields :
                 IF f \in DOMAIN s.props THEN CS!valid[s.props[f]][TRUE][x.fields[f]]
                 ELSE (\A e \in s.extra : CS!valid[e][TRUE][x.fields[f]]) /\ (s.extra = {} => ~s.closed)
            /\ s.branches = {} \/ (s.nullPasses /\ x.is = "null") \/ \E b \in s.branches : CS!valid[b][FALSE][x]
    BY ValidIs
  <2>4. \A f : f \notin DOMAIN <<>>
    OBVIOUS
  <2> HIDE DEF s
  <2>5. \A f : f \notin DOMAIN s.props
    BY <2>2, <2>4
  <2> QED
    BY <2>2, <2>3, <2>5
<1>3. CS!Plain("string").type = "string" /\ [CS!Plain("object") EXCEPT !.preserve = TRUE].type = "object"
  BY DEF CS!Plain
<1> QED
  BY <1>1, <1>2, <1>3

\* For all the schemas that the API server takes, CI and the API server agree, but for what an
\* object without properties leaves open.
LEMMA CiAgrees ==
  ASSUME NEW n \in CS!Nodes, CS!taken[n], NEW v \in Terms
  PROVE  /\ CS!keeps[n][v] => CS!valid[n][TRUE][v]
         /\ CS!valid[n][TRUE][v] => CS!keeps[n][v] \/ CS!open[n]
<1> DEFINE Agrees(p, x) == /\ CS!keeps[p][x] => CS!valid[p][TRUE][x]
                           /\ CS!valid[p][TRUE][x] => CS!keeps[p][x] \/ CS!open[p]
           B == {m \in CS!Nodes : CS!taken[m] => \A w \in Terms : Agrees(m, w)}
<1>1. ASSUME NEW m \in CS!Nodes, \A p \in CS!Nodes : SchemaDepth[p] < SchemaDepth[m] => p \in B PROVE m \in B
  <2> SUFFICES ASSUME CS!taken[m], NEW w \in Terms PROVE Agrees(m, w)
    OBVIOUS
  <2> DEFINE s == CS!ConvertNode(m, TRUE)
             Ci(f) == IF f \in DOMAIN s.props THEN CS!valid[s.props[f]][TRUE][w.fields[f]]
                      ELSE (\A e \in s.extra : CS!valid[e][TRUE][w.fields[f]]) /\ (s.extra = {} => ~s.closed)
             Api(f) == \/ f = "metadata" /\ f \in CS!Own(m) /\ w.fields[f].is = "object"
                       \/ f \in CS!Own(m) \ (DOMAIN m.props \cup {"metadata"}) /\ w.fields[f].is = "string"
                       \/ f \in DOMAIN m.props \ (CS!Own(m) \cap {"metadata"}) /\ CS!keeps[m.props[f]][w.fields[f]]
                       \/ /\ f \notin DOMAIN m.props \cup CS!Own(m)
                          /\ (\E e \in m.extra : CS!keeps[e][w.fields[f]]) \/ (m.extra = {} /\ m.preserve)
  <2>1. /\ m.type \in {"object", "string", "integer", "intOrString"}
        /\ \A f \in DOMAIN m.props : CS!taken[m.props[f]]
        /\ \A e, d \in m.extra : CS!taken[e] /\ e = d
        /\ \A b \in m.branches : CS!logical[b]
    BY TakenIs
  <2>2. /\ \A f \in DOMAIN m.props : \A x \in Terms : Agrees(m.props[f], x)
        /\ \A e \in m.extra : \A x \in Terms : Agrees(e, x)
    BY <1>1, <2>1, PartsBelow
  <2>3. \A b \in m.branches : CS!valid[b][FALSE][w] <=> CS!satisfies[b][w]
    BY <2>1, BranchesAgree, PartsBelow
  <2>4. /\ s.extra = m.extra /\ s.branches = m.branches /\ s.types = CS!TypesOf(m) /\ s.nullPasses = m.nullable
        /\ s.closed <=> s.props # <<>> /\ ~m.preserve
        /\ ~m.embedded => s.props = m.props
        /\ m.embedded => s.props = CS!ResourceFields(m.props)
    BY ConvertedBelow
  <2>5. CS!valid[m][TRUE][w] <=>
          /\ w.is \in CS!TypesOf(m)
          /\ w.is = "object" => \A f \in DOMAIN w.fields : Ci(f)
          /\ m.branches = {} \/ (m.nullable /\ w.is = "null") \/ \E b \in m.branches : CS!satisfies[b][w]
    <3>1. CS!valid[m][TRUE][w] <=>
            /\ w.is \in s.types
            /\ w.is = "object" => \A f \in DOMAIN w.fields : Ci(f)
            /\ s.branches = {} \/ (s.nullPasses /\ w.is = "null") \/ \E b \in s.branches : CS!valid[b][FALSE][w]
      BY ValidIs
    <3> HIDE DEF s, Ci
    <3> QED
      BY <3>1, <2>3, <2>4
  <2>6. CS!keeps[m][w] <=>
          \/ w.is = "null" /\ m.nullable
          \/ /\ w.is # "null" /\ w.is \in CS!TypesOf(m)
             /\ m.branches = {} \/ \E b \in m.branches : CS!satisfies[b][w]
             /\ w.is = "object" => \A f \in DOMAIN w.fields : Api(f)
    BY KeepsIs
  <2>7. "null" \in CS!TypesOf(m) <=> m.nullable
    BY <2>1 DEF CS!TypesOf
  <2>8. CS!open[m] <=>
          \/ m.type = "object" /\ m.props = <<>> /\ m.extra = {} /\ ~m.preserve /\ ~m.embedded
          \/ \E f \in DOMAIN m.props : CS!open[m.props[f]]
          \/ \E e \in m.extra : CS!open[e]
    BY OpenIs
  <2>9. ASSUME w.is = "object", w.is \in CS!TypesOf(m), NEW f \in DOMAIN w.fields
        PROVE  /\ Api(f) => Ci(f)
               /\ Ci(f) => Api(f) \/ CS!open[m]
    <3> DEFINE x == w.fields[f]
    <3>1. x \in Terms
      BY <2>9, FieldsBelow
    <3>2. CASE f \in CS!Own(m) /\ f = "metadata"
      <4>1. m.embedded /\ f \in DOMAIN s.props /\ s.props[f] = [CS!Plain("object") EXCEPT !.preserve = TRUE]
        BY <2>4, <3>2 DEF CS!Own, CS!OwnFields, CS!ResourceFields
      <4>2. Ci(f) <=> x.is = "object"
        BY <3>1, <4>1, OwnAgree
      <4>3. Api(f) <=> x.is = "object"
        BY <3>2
      <4> QED
        BY <4>2, <4>3
    <3>3. CASE f \in CS!Own(m) \ (DOMAIN m.props \cup {"metadata"})
      <4>1. m.embedded /\ f \in DOMAIN s.props /\ s.props[f] = CS!Plain("string")
        BY <2>4, <3>3 DEF CS!Own, CS!OwnFields, CS!ResourceFields
      <4>2. Ci(f) <=> x.is = "string"
        BY <3>1, <4>1, OwnAgree
      <4>3. Api(f) <=> x.is = "string"
        BY <3>3
      <4> QED
        BY <4>2, <4>3
    <3>4. CASE f \in DOMAIN m.props \ (CS!Own(m) \cap {"metadata"})
      <4>1. f \in DOMAIN s.props /\ s.props[f] = m.props[f]
        BY <2>4, <3>4 DEF CS!Own, CS!OwnFields, CS!ResourceFields
      <4>2. Ci(f) <=> CS!valid[m.props[f]][TRUE][x]
        BY <4>1
      <4>3. Api(f) <=> CS!keeps[m.props[f]][x]
        BY <3>4
      <4>4. Agrees(m.props[f], x) /\ (CS!open[m.props[f]] => CS!open[m])
        BY <2>2, <2>8, <3>1, <3>4
      <4> QED
        BY <4>2, <4>3, <4>4
    <3>5. CASE f \notin DOMAIN m.props \cup CS!Own(m)
      <4>1. f \notin DOMAIN s.props
        BY <2>4, <3>5 DEF CS!Own, CS!OwnFields, CS!ResourceFields
      <4>2. Ci(f) <=> (\A e \in m.extra : CS!valid[e][TRUE][x]) /\ (m.extra = {} => ~s.closed)
        BY <4>1, <2>4
      <4>3. Api(f) <=> (\E e \in m.extra : CS!keeps[e][x]) \/ (m.extra = {} /\ m.preserve)
        BY <3>5
      <4>4. CASE m.extra = {}
        <5>1. m.type = "object"
          BY <2>1, <2>9 DEF CS!TypesOf
        <5>2. ~s.closed => m.preserve \/ (m.props = <<>> /\ ~m.embedded)
          <6>1. m.embedded => "kind" \in DOMAIN s.props
            BY <2>4 DEF CS!ResourceFields, CS!OwnFields
          <6>2. DOMAIN <<>> = {}
            OBVIOUS
          <6>3. m.embedded => s.props # <<>>
            BY <6>1, <6>2
          <6> HIDE DEF s
          <6> QED
            BY <6>3, <2>4
        <5>3. m.preserve => ~s.closed
          BY <2>4
        <5> HIDE DEF s, Ci, Api
        <5> QED
          BY <4>2, <4>3, <4>4, <2>8, <5>1, <5>2, <5>3
      <4>5. CASE m.extra # {}
        <5>1. PICK e \in m.extra : m.extra = {e}
          BY <2>1, <4>5
        <5>2. Agrees(e, x) /\ (CS!open[e] => CS!open[m])
          BY <2>2, <2>8, <3>1
        <5> HIDE DEF s, Ci, Api
        <5> QED
          BY <4>2, <4>3, <5>1, <5>2
      <4> QED
        BY <4>4, <4>5
    <3> HIDE DEF Ci, Api
    <3> QED
      BY <3>2, <3>3, <3>4, <3>5
  <2>10. CASE w.is = "null"
    BY <2>10, <2>5, <2>6, <2>7
  <2>11. CASE w.is # "null"
    <3> HIDE DEF Ci, Api
    <3> QED
      BY <2>11, <2>5, <2>6, <2>9
  <2> QED
    BY <2>10, <2>11
<1> HIDE DEF B
<1>2. CS!Nodes \subseteq B
  BY <1>1, DepthTyped, ByDepth
<1> QED
  BY <1>2 DEF B

LEMMA CrdsMean == CS!TypeOK => CS!ServedObjectsPass /\ CS!DroppedFieldsFail
<1> SUFFICES ASSUME CS!TypeOK PROVE CS!ServedObjectsPass /\ CS!DroppedFieldsFail
  OBVIOUS
<1>1. CS!Convert(schema) \in CS!Nodes /\ CS!taken[CS!Convert(schema)] /\ value \in Terms
  BY CrdAssumption DEF CS!TypeOK
<1> QED
  BY <1>1, CiAgrees DEF CS!ServedObjectsPass, CS!DroppedFieldsFail

LEMMA CrdsTyped == SpecAll => []CS!TypeOK
<1>1. InitAll => CS!TypeOK
  BY CrdAssumption DEF InitAll, CS!Init, CS!TypeOK
<1>2. CS!TypeOK /\ [CS!Next]_(CS!vars) => CS!TypeOK'
  BY DEF CS!TypeOK, CS!Next, CS!Generate, CS!Write, CS!vars
<1>3. CS!TypeOK /\ [NextAll]_allVars => CS!TypeOK'
  BY <1>2, CrdsSteps
<1> QED
  BY <1>1, <1>3, PTL DEF SpecAll

\* For any schemas that the API server takes and any objects of theirs: what it serves as it
\* is passes CI, and what it would drop or refuse fails there, but in an object that declares
\* no properties (convert_node).
THEOREM SchemasAreExact == SpecAll => []SchemasExact
<1>1. CS!TypeOK => SchemasExact
  BY CrdsMean DEF SchemasExact
<1> QED
  BY <1>1, CrdsTyped, PTL

-----------------------------------------------------------------------------
(* The types of them all *)

\* Every program keeps to its types in the behaviours that run it.
THEOREM OperationsTyped == SpecAll => []TypesOK
<1>1. /\ job \in Jobs /\ (LH!TypeOK /\ LH!CompleteMeansConverged) /\ (GC!TypeOK /\ GC!IntactAfterFlip)
      /\ RolloutTyped /\ (VP!TypeOK /\ VP!ContractWhereRendered /\ VP!ExemptionsAreReviewed) /\ BackupInv
      /\ (TypeOK /\ HostsApart /\ ReplicasWired) /\ (AG!TypeOK /\ AG!NoDefaultWritten) /\ CS!TypeOK
      /\ (SE!TypeOK /\ SE!ExactWhereQuiet /\ SE!NoFalseSpread)
      => TypesOK
  <2> SUFFICES ASSUME job \in Jobs, LH!TypeOK, GC!TypeOK, GR!TypeOK, VP!TypeOK, KC!TypeOK, TypeOK, AG!TypeOK, CS!TypeOK, SE!TypeOK
               PROVE  TypesOK
    BY DEF RolloutTyped, BackupInv
  <2> QED
    BY DEF Jobs, TypesOK
<1> QED
  BY <1>1, JobsKept, LonghornSafe, RegistrySafe, RolloutIsTyped, VpaSafe, BackupSafe, OmniSafe, AgentSafe, CrdsTyped,
     EvidenceSafe, PTL
=============================================================================
