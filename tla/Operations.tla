------------------------------ MODULE Operations ------------------------------
(* The programs that operate the cluster and the checks that guard its           *)
(* repository.  They share no state with one another: in every behaviour one of  *)
(* them runs, its job, and the others stay as they were.  The contract of the    *)
(* machine sets is extended, the others are instances.                           *)
EXTENDS OmniContract, Sequences

CONSTANTS
  Volumes, Selected, Unselected, Runners, Given, Backoff, Edits,  \* LonghornSelinux
  Images, GcFaults,                                               \* RegistryGc
  Trees, Merges,                                                  \* GitOpsRollout
  Objects, Excluded, Commits,                                     \* VpaPolicies
  Stored, Policies, Repositories,                                 \* KopiurCoverage
  Dirs, Start, Config, Commands,                                  \* AgentGitGuard
  Schemas, Values, SchemaDepth, Terms,                            \* CrdSchemas
  Bindable, Hosts, PVs, Zone, MaxMoves, MaxFailures               \* StorageEvidence

VARIABLES
  job,
  pv, revision, policy, attempts, podPc, mode, plan, current, edits,              \* LonghornSelinux
  wanted, pod, blobs, manifests, garbage, collector, gcPc, flipFailed, gcFaults,  \* RegistryGc
  main, specs, view, apps, claims, root, gate, baseline,                          \* GitOpsRollout
  vpas, commit,                                                                   \* VpaPolicies
  backups, volume, snapshot, reachable,                                           \* KopiurCoverage
  checkout, damage,                                                               \* AgentGitGuard
  stage, schema, value,                                                           \* CrdSchemas
  bound, present, copies, raw, report, since, moves                               \* StorageEvidence

longhorn == <<pv, revision, policy, attempts, podPc, mode, plan, current, edits>>
registry == <<wanted, pod, blobs, manifests, garbage, collector, gcPc, flipFailed, gcFaults>>
rollout  == <<main, specs, view, apps, claims, root, gate, baseline>>
vpa      == <<vpas, commit>>
backup   == <<backups, volume, snapshot, reachable>>
agent    == <<checkout, damage>>
crds     == <<stage, schema, value>>
evidence == <<bound, present, copies, raw, report, since, moves>>

allVars == <<job, vars, longhorn, registry, rollout, vpa, backup, agent, crds, evidence>>

LH == INSTANCE LonghornSelinux WITH
  Claims <- Selected, Other <- Unselected, Changes <- Edits, pc <- podPc, changes <- edits

GC == INSTANCE RegistryGc WITH Faults <- GcFaults, pc <- gcPc, faults <- gcFaults

GR == INSTANCE GitOpsRollout

VP == INSTANCE VpaPolicies WITH repo <- vpas

KC == INSTANCE KopiurCoverage WITH Claims <- Stored, repo <- backups

AG == INSTANCE AgentGitGuard WITH repo <- checkout

CS == INSTANCE CrdSchemas WITH Depth <- SchemaDepth

SE == INSTANCE StorageEvidence WITH
  Claims <- Bindable, Nodes <- Hosts, MaxChanges <- MaxMoves,
  nodes <- present, replicas <- copies, changes <- moves

-----------------------------------------------------------------------------
\* A machine set has a number of machines; the bounds are numbers.
ASSUME OmniAssumption == \A t \in Templates : \A s \in t.sets : s.size \in Nat
ASSUME BoundsAssumption ==
  {Backoff, Edits, GcFaults, Merges, Commits, MaxMoves, MaxFailures} \subseteq Nat

\* Others give a volume options of the kinds the Job tells apart.
ASSUME LonghornAssumption == Given \subseteq LH!OptionLists

\* A key is a namespace, or "", and a name; what a list exempts by its exact name it does not
\* exempt by a pattern of that name; a chart renders namespaces for all workloads of a name or for
\* none.
ASSUME VpaAssumption ==
  /\ \A o \in Objects : o.key \in [ns : STRING, name : STRING]
  /\ \A e, f \in Objects : VP!Same(e, f) /\ e.is = "exempt" => e.exact = f.exact
  /\ \A w, u \in Objects :
       w.is = "workload" /\ u.is = "workload" /\ w.key.name = u.key.name /\ w.key.ns = "" => u.key.ns = ""

\* What an object names is there; one Restore at most creates a claim itself; some
\* repository is accepted.
ASSUME BackupAssumption ==
  /\ \A r \in Repositories :
       /\ DOMAIN r.pvcs \subseteq Stored /\ DOMAIN r.policies \subseteq Policies
       /\ \A p \in DOMAIN r.policies : r.policies[p].claim \in Stored
       /\ \A s \in DOMAIN r.restores : r.restores[s].policy \in Policies /\ r.restores[s].foreign \in BOOLEAN
       /\ \A s, t \in DOMAIN r.restores :
            r.restores[s].target = r.restores[t].target /\ r.restores[s].target \in Stored => s = t
  /\ \E r \in Repositories : KC!Accepted(r)
  /\ {"unbound", "empty", "none", "foreign"} \cap Stored = {}

\* A checkout may be on a feature branch; git commits or pushes, with a number of options.
ASSUME AgentAssumption ==
  /\ \A d \in Dirs : \E c \in Config[d] : c.branch = "topic" /\ c.push = AG!Unset
  /\ \A cmd \in Commands : \A k \in DOMAIN cmd : cmd[k].is = "git" => cmd[k].op \in {"commit", "push"} /\ cmd[k].values \in Nat

\* There is a first tree, and in it no two Applications of one name or with one guarded
\* object.  Trees are finite, have their kustomizations, and what these use, in their
\* directories, and have the same ApplicationSets; none of these is called as an Application
\* written out in a tree, or owns it.
ASSUME TreesAssumption ==
  /\ 1 \in DOMAIN Trees /\ ~GR!Duplicate(GR!Settled(Trees[1]))
  /\ \A a, b \in GR!Settled(Trees[1]) : GR!Guards(Trees[1], a) \cap GR!Guards(Trees[1], b) # {} => a = b
  /\ IsFiniteSet(GR!Sets) /\ "root" \notin GR!Sets
  /\ \A k \in DOMAIN Trees :
       /\ DOMAIN Trees[k].sets = GR!Sets
       /\ \A a \in Trees[k].alone : a.owner \notin GR!Sets /\ a.name \notin {<<s>> : s \in GR!Sets}
       /\ IsFiniteSet(Trees[k].dirs) /\ IsFiniteSet(Trees[k].alone) /\ IsFiniteSet(DOMAIN Trees[k].files)
       /\ Trees[k].dirs \subseteq Seq(STRING) /\ DOMAIN Trees[k].files \subseteq Trees[k].dirs
       /\ \A d \in DOMAIN Trees[k].files : IsFiniteSet(Trees[k].files[d].objs) /\ Trees[k].files[d].uses \subseteq Trees[k].dirs

\* A schema's parts, and a value's, are schemas and values, and a schema nests deeper than its
\* parts, and a resource than what every resource has; the API server takes the CRDs.
ASSUME CrdAssumption ==
  LET own == {CS!Plain("string"), [CS!Plain("object") EXCEPT !.preserve = TRUE]} IN
  /\ SchemaDepth \in [CS!Nodes -> Nat]
  /\ \A n \in CS!Nodes : \A p \in n.extra \cup n.branches \cup {n.props[f] : f \in DOMAIN n.props} \cup IF n.embedded THEN own ELSE {} :
       p \in CS!Nodes /\ SchemaDepth[p] < SchemaDepth[n]
  /\ \A s \in Schemas : CS!Convert(s) \in CS!Nodes /\ CS!taken[CS!Convert(s)]
  /\ Schemas # {} /\ Values # {} /\ Values \subseteq Terms
  /\ \A v \in Terms : v.is = "object" => \A f \in DOMAIN v.fields : v.fields[f] \in Terms

\* The nodes of a cluster are finitely many; "none" is no volume.
ASSUME EvidenceAssumption ==
  /\ IsFiniteSet(Hosts)
  /\ "none" \notin DOMAIN PVs /\ \A p \in DOMAIN PVs : PVs[p] \in [driver : STRING, handle : STRING \ {"none"}]

-----------------------------------------------------------------------------
InitAll ==
  /\ job \in {"longhorn", "registry", "rollout", "vpa", "backup", "omni", "agent", "crds", "evidence"}
  /\ LH!Init /\ GC!Init /\ GR!Init /\ VP!Init /\ KC!Init /\ Init /\ AG!Init /\ CS!Init /\ SE!Init

Runs(name, others) == job = name /\ UNCHANGED <<job, others>>

LonghornRuns == Runs("longhorn", <<registry, rollout, vpa, backup, vars, agent, crds, evidence>>)
RegistryRuns == Runs("registry", <<longhorn, rollout, vpa, backup, vars, agent, crds, evidence>>)
RolloutRuns  == Runs("rollout", <<longhorn, registry, vpa, backup, vars, agent, crds, evidence>>)
VpaRuns      == Runs("vpa", <<longhorn, registry, rollout, backup, vars, agent, crds, evidence>>)
BackupRuns   == Runs("backup", <<longhorn, registry, rollout, vpa, vars, agent, crds, evidence>>)
OmniRuns     == Runs("omni", <<longhorn, registry, rollout, vpa, backup, agent, crds, evidence>>)
AgentRuns    == Runs("agent", <<longhorn, registry, rollout, vpa, backup, vars, crds, evidence>>)
CrdsRuns     == Runs("crds", <<longhorn, registry, rollout, vpa, backup, vars, agent, evidence>>)
EvidenceRuns == Runs("evidence", <<longhorn, registry, rollout, vpa, backup, vars, agent, crds>>)

NextAll ==
  \/ LonghornRuns /\ LH!Next
  \/ RegistryRuns /\ GC!Next
  \/ RolloutRuns /\ GR!Next
  \/ VpaRuns /\ VP!Next
  \/ BackupRuns /\ KC!Next
  \/ OmniRuns /\ Next
  \/ AgentRuns /\ AG!Next
  \/ CrdsRuns /\ CS!Next
  \/ EvidenceRuns /\ SE!Next

\* The fairness each program's module states, in the behaviours that run it.
SpecAll ==
  /\ InitAll /\ [][NextAll]_allVars
  /\ WF_allVars(LonghornRuns /\ LH!Progress)
  /\ WF_allVars(RegistryRuns /\ GC!Script) /\ WF_allVars(RegistryRuns /\ GC!Rollout) /\ WF_allVars(RegistryRuns /\ GC!Sweep)
  /\ \A p \in Policies : WF_allVars(BackupRuns /\ KC!Snapshot(p))

TypesOK ==
  CASE job = "longhorn" -> LH!TypeOK
    [] job = "registry" -> GC!TypeOK
    [] job = "rollout" -> GR!TypeOK
    [] job = "vpa" -> VP!TypeOK
    [] job = "backup" -> KC!TypeOK
    [] job = "omni" -> TypeOK
    [] job = "agent" -> AG!TypeOK
    [] job = "crds" -> CS!TypeOK
    [] job = "evidence" -> SE!TypeOK

-----------------------------------------------------------------------------
(* What the programs promise, each in the behaviours that run it. *)

\* Changes that were reviewed, each merged when the ApplicationSets were through with the
\* one before, delete no Application, in whatever order Argo CD takes specs and trees; and
\* what a passed live gate says of specs and Applications holds.
ApplicationsKept ==
  job = "rollout" /\ GR!Unhurried => GR!AppsSurvive /\ (gate.at = "pass" => GR!CommitLive)

\* ... and, by its finalizer, no claim; nor is one gone after a passed gate.
NothingDeleted ==
  /\ ApplicationsKept
  /\ job = "rollout" /\ GR!Unhurried => GR!ClaimsSurvive /\ (gate.at = "pass" => GR!ObjectsLive)

\* A storage report that operators act on is exact where nothing moved while it was
\* collected, and counts no spread that was not there.
ReportsTrue == job = "evidence" => SE!ExactWhereQuiet /\ SE!NoFalseSpread

\* VPA: over any sequence of commits that pass, every rendered workload is under the
\* contract, and an exact coverage exemption from it is no older than its workload.
PoliciesReviewed == job = "vpa" => VP!ContractWhereRendered /\ VP!ExemptionsAreReviewed

\* Guards stop what they are for: no two replicas of a volume on one host and none behind
\* Wi-Fi, no push of the default branch that the guard sees, but every one of a feature
\* branch.
GuardsExact ==
  /\ job = "omni" => HostsApart /\ ReplicasWired
  /\ job = "agent" => AG!NoDefaultWritten /\ AG!FeaturePushPasses

\* No field that the API server would drop passes CI, but every object that it serves does.
SchemasExact == job = "crds" => CS!ServedObjectsPass /\ CS!DroppedFieldsFail

\* A migration that reports itself complete left no volume behind, and a garbage
\* collection after the switch to read-only was complete removed nothing that is wanted.
MaintenanceSafe ==
  /\ job = "longhorn" => LH!CompleteMeansConverged
  /\ job = "registry" => GC!IntactAfterFlip

\* What a step may not do: patch a volume that is not as it was judged, or bind a claim
\* of a rebuilt cluster without its backup.
StepsAsJudged == LH!WritesAsJudged /\ KC!RestoredFromBackup

\* What must come about: the volumes converge, the registry takes pushes again, and what
\* is declared is backed up.
AllComesAbout ==
  /\ job = "longhorn" => LH!Converges
  /\ job = "registry" => GC!WritesComeBack
  /\ job = "backup" => KC!BackedUp
=============================================================================
