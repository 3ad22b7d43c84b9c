# Specifications for talos-argocd-proxmox

TLA+ models of the programs this repository runs, TLC configurations that check them on small
instances, and proofs that TLAPS checks for every value of the constants.

The repository is mostly the desired state of a Talos Kubernetes cluster, applied by Argo CD:
manifests of other people's software. Its own logic is a set of small programs. Some run in the
cluster (Python and shell, mounted from ConfigMaps), die at any line, and talk through files,
ConfigMaps, databases and kernel state. Others guard the repository: they accept or refuse a
commit, and what they accept is what the cluster then does. Both kinds are modelled here, the
second together with the behaviour of the cluster it is meant to rule out.

All paths below are relative to `src/`; `vpn-egress/` is `infrastructure/networking/vpn-egress/`,
`home-assistant/` is `my-apps/home-automation/home-assistant/scripts/`.

## 1. Inventory

### Programs of the data plane

**VPN egress controller**: `vpn-egress/scripts/controller.py`
- *State*: the ConfigMap `vpn-egress-state` (the toggle), the live CiliumEgressGatewayPolicy, and
  in memory `streak`, `in_policy`, `seeded`, `owner_uid`, the `wake` event and the snapshot.
- *Operations*: `reconcile()` (seven API calls, every 10 s or when woken), `set_enabled()` in an
  HTTP handler thread, `/api/status`, `/metrics`, `/healthz`.
- *Hard*: loop and handlers interleave; an API write may be applied and its answer lost; a pass
  fails half way; the process restarts and must rebuild its beliefs from the cluster; in a rollout
  two processes overlap.
- *Correct when*: an acknowledged toggle is not slept through; the page tells the truth about the
  live policy; restarts and rollouts do not flap gateways; policy, owner and toggle agree in the end.

**VPN gateway**: `vpn-egress/scripts/gateway.sh`, one per gateway node
- *State*: kernel rules, blackhole, routes and the WireGuard link (they outlive the script), the
  script's `ADDR`, `conf_sum`, `healthy`, `fails`, and its status ConfigMap.
- *Operations*: `setup`, the loop (compare config, rebuild, probe, report, sleep).
- *Hard*: `set -e` and SIGTERM at any command, reboots, a config file that changes while it is
  read four times, addresses that accumulate on a reused link.
- *Correct when*: no tunnel address is on the link before its rule and the blackhole exist; the
  report tells whether traffic passes; the link is rebuilt when lost; the config is applied.

**VPN failover timing**: both loops with `config.env`
- *State*: ages, timers, failure counts and streaks.
- *Correct when*: pods leave a dead tunnel within a bound; while reports arrive a live gateway keeps its traffic,
  however slow its probes and writes are.

**vLLM model cache**: `my-apps/ai/vllm/scripts/model_cache.py`
- *State*: per root (archive, local disk) the files, their `.part` files, the marker
  `.verified-manifest`; the manifest each Job was started with.
- *Operations*: `download`, `sync`, `wait`, sharing `start`, `begin`, `ready`, `finish`.
- *Hard*: two Jobs and a waiting pod over the same directories; crashes, resumed and garbled
  replies, same-sized files of different manifests, disks that rot, git moving on.
- *Correct when*: readiness (a marker and sizes) implies verified content; incomplete files never
  take a final name; the pod ends up serving what git pins.

**Kiwix offline library**: `my-apps/knowledge/kiwix/scripts/{download-library,index-library}.sh`
- *State*: archives, parts and checksum markers on the data volume; `library.xml` and
  `files.current` in an emptyDir.
- *Operations*: check, adopt, download, verify, publish, mark, remove older releases; list,
  compare, rebuild, rename twice.
- *Hard*: a CronJob and a sidecar over one directory without a lock; deaths between any two
  commands; pinned releases that go forward and back.
- *Correct when*: markers are honest; a series never loses its last good release; exit 0 means
  complete; the catalog comes to list what is published, once no archive is broken.

**Home Assistant statistics**: `home-assistant/{retire-period-statistics,repair-power-statistics}.py`
- *State*: rows of the recorder's SQLite and their ids; an archive of the retired rows, a journal
  of the repaired ones, and what of either is durable.
- *Operations*: retire, save the archive, restore; repair, undo; each an init container.
- *Hard*: kills and outages between rename, directory sync and commit; git moving between retire,
  restore and neither; rows recorded in between.
- *Correct when*: no row is ever in neither place; a restore is exact; a repaired series is one
  series that can be lowered again; the pod starts, or refuses for a stated reason.

**Home Assistant power analysis**: `home-assistant/power-analysis/{analysis,summary,sensor}.py`
- *State*: hourly rows, meters that reset at midnight and on the first, cached facts, the text.
- *Hard*: days of 23 to 25 hours, missing, late and falling rows; meters that reset after midnight;
  a model that answers a minute later or fails.
- *Correct when*: a day is counted with exactly its hours; no text shows a figure of another period.

**Other applications**, each with a small state machine of its own:
- *Hermes seed and kanban* (`my-apps/development/hermes/scripts/{seed.sh,reconcile-kanban.py}`):
  skills, their commit marker, tasks. A marker must vouch for a whole copy; tasks are parked before
  the gateway starts; no failure keeps it from starting.
- *Hermes usage exporter* (`.../usage-exporter.py`): cached totals, zeros held for new label sets.
  First calls count although Prometheus takes a first sample as the start; totals never fall.
- *HolmesGPT console* (`monitoring/ai-ops/_archive/holmesgpt/scripts/server.py`): results, `busy`,
  `uncertain`, a worker thread. One investigation at a time, though answers get lost.
- *Open WebUI function loader* (`my-apps/ai/open-webui/scripts/load-functions.py`), *Presenton
  settings* (`my-apps/ai/presenton/scripts/reconcile-llm.py`), *PostHog replay settings*
  (`my-apps/development-infra/posthog/scripts/configure-replay-retention.py`): write what git
  declares into a table, three copies of a file, rows of a database, while the application or its
  users write too. Done must mean done, wherever earlier attempts were killed.

### Programs that operate the cluster

- **Longhorn SELinux migration** (`infrastructure/storage/longhorn-selinux/scripts/reconcile.py`):
  lists volumes, judges all, then patches them under uid and resourceVersion. *Hard*: volumes
  are replaced or edited between list and patch, answers get lost, pods overlap, retries are few.
- **Container registry garbage collection**
  (`infrastructure/platform/container-registry/scripts/run-garbage-collection.sh`): read-only
  rollout, collect, restore writes in a trap. *Hard*: every command may fail or time out; a kill
  runs no trap.
- **Storage evidence** (`scripts/collect-storage-evidence.py`): the six queries of its cluster mode,
  of a moving cluster, some of which fail. A report must not claim a spread over zones that was not there.

### Programs that guard the repository

- **GitOps change review and live gate** (`scripts/gitops-risk-check.py`, `gitops-live-gate.py`):
  predict what Argo CD does with a change whose parts it takes in any order; read, object by
  object, whether the cluster is where a commit assumes it. Argo CD itself (sync waves, generators,
  finalizers, pruning) is the environment, modelled as the repository's configuration uses it.
- **VPA policies** (`scripts/validate-vpa-policies.py`), **kopiur coverage**
  (`validate-kopiur-coverage.py`), **Omni contract** (`validate-omni-contract.py`), **CRD schemas**
  (`generate-crd-schemas.py`), **agent git guard** (`agent-git-guard.py`): predicates over a commit,
  a template, a schema, a command. *Hard*: what they accept one commit at a time must stay safe
  over sequences of commits, rebuilds, machines that join and leave, and configurations that
  change under them.

The programs do not call each other, except that gateway and controller meet in the status
ConfigMaps. What they share is their environment: kubelet restarts, Argo CD syncs, commits.

### Not modelled

| Part | Why not |
|---|---|
| Reboot reasons (`monitoring/logs/boot-reason`) | a shell loop over the boot id and a saved state; only reports |
| Other repository checks (`scripts/validate-monitoring-contract.py`, `validate-argocd-apps.sh`, ...) | one check after the other over the files of one commit, each a list of required texts or counts: no state, and a model would repeat the list |
| Dashboards and their generator (`scripts/generate-inference-dashboards.py`), monitoring rules | text in, text out |
| ComfyUI nodes, HAR analyser, download scripts (`my-apps/ai`) | string and file transformations without concurrent state |
| Home Assistant imports (`consumers-energy-restore`, `aircube.py`) | one turn of the event loop against an importer outside the repository; a vendored sensor |
| Databases, workflow engines, edge, provisioning, bootstrap, remaining applications | configuration of third-party controllers, or procedures run by hand |
| Agent tooling (`.pi/extensions/mink.ts`), documentation site, benchmarks | no state of the system |
| Worktree clean-up of Hermes, the rest of `seed.sh` | repeated at every start, or weekly over directories nobody else writes |

`PROJECT.json` lists every part, and the hazards with their lines.

## 2. Plan

Done, in the order of consequence: leaking or losing VPN traffic, serving wrong weights, losing
archives, losing history; then deleting Applications and claims by a commit, restoring from
nothing, corrupting the registry; then what the smaller programs promise.

1. `VpnController`, its abstraction `EgressControl`, `VpnGateway`, `VpnFailover` (both loops in
   time), `ControllerRollout` (two loops at once).
2. `ModelCache`, `KiwixLibrary`, `RetiredStatistics`, `PowerRepair`.
3. `GitOpsRisk` and the cluster it rules, `GitOpsRollout`; `LonghornSelinux`, `RegistryGc`,
   `KopiurCoverage`, `OmniContract`, `VpaPolicies`, `AgentGitGuard`, `StorageEvidence`, `CrdSchemas`.
4. `HermesSeed`, `UsageExporter`, `HolmesConsole`, `PowerAnalysis`, `PowerSummary`,
   `FunctionLoader`, `PresentonSettings`, `ReplaySettings`.
5. The compositions `VpnEgress`, `Applications` and `Operations`, and proofs of every safety property
   that a passing run checks.

What is left to model: two pods of one download Job over one archive, and the reboot reasons.

## 3. Modules and code

| Module | Code | State and actions |
|---|---|---|
| `VpnController` | `controller.py` | one action per API call of `reconcile()` and outcome (`pc` names the next call); `PutState`, `SetWake` are `set_enabled()`; `Restart` forgets memory |
| `EgressControl` | the same, abstract | observe the toggle, reports and nodes; write a policy only from gateways observed up while observed on |
| `ControllerRollout` | the same and `controller.yaml` | two instances of `VpnController` over one cluster; `stage` of the rollout |
| `VpnGateway` | `gateway.sh` | one action per command that changes kernel, script or status; `CommandFails` is `set -e` |
| `VpnFailover` | both, timing | one tick is 5 s; sleep, probe, write with their timeouts; controller pass every `CheckEvery` |
| `ModelCache` | `model_cache.py` | per root a job with `pc`, `man`, `idx`; one action per file operation; chunks of a reply are single steps |
| `KiwixLibrary` | two shell scripts | downloader `dpc`, indexer `ipc`; one action per command |
| `RetiredStatistics` | `retire-period-statistics.py` | init container `pc`; rename, directory sync and commit are separate steps |
| `PowerRepair` | `repair-power-statistics.py` | rows `low` or `raised`, journal; the same crash points |
| `PowerAnalysis`, `PowerSummary` | `analysis.py`; `summary.py`, `sensor.py` | hours and rows, `Included(d)` is the code's choice of days; the hourly update step by step between meters and a model |
| `LonghornSelinux` | `reconcile.py`, its Job | per pod `pc`, `plan`; `List`, `Patch`, lost answers; the Job's retries and replacements |
| `RegistryGc` | `run-garbage-collection.sh` | one action per command, the Deployment's pod, the external collector's mark and sweep |
| `GitOpsRisk`, `GitOpsRollout` | `gitops-risk-check.py`, `gitops-live-gate.py` | `Verdict(old, new)` as an operator over two trees; merges, root syncs, generators, application syncs, and the gate's reads one by one |
| `VpaPolicies`, `KopiurCoverage`, `OmniContract`, `AgentGitGuard` | the validators, the guard | `Accepted(x)` as the code decides it; actions are commits or commands that pass, and what the cluster or git does with them |
| `CrdSchemas` | `generate-crd-schemas.py` | `Convert` and `Closes` on schemas, beside `keeps`, the API server's pruning, and `valid`, the validator's reading |
| `StorageEvidence` | `collect-storage-evidence.py` | one action per query; the report is computed from what the queries saw |
| `HermesSeed`, `FunctionLoader`, `PresentonSettings`, `ReplaySettings` | the seeding scripts | one action per call, file operation or statement; `pc` of the container; users and administrators |
| `UsageExporter`, `HolmesConsole` | two servers | cache, baseline, held zeros and scrapes; worker thread, results and what runs upstream |

`MC*` modules give constants their values for TLC; `*_proofs` hold theorems. Operators commented
`Mutant` are wrong versions of the operator after them: a plausible bug that a property must catch.

Three modules compose what never runs together: `VpnEgress` (gateway, timing, rollout),
`Applications` (the ten programs beside it) and `Operations` (the nine that operate the cluster or
guard its repository). Each has a variable (`model` or `job`) chosen by the initial state; each
behaviour runs one program, and the variables of the others never change. The state space is the
sum, not the product, of those of the models; no interaction is lost, because these programs share
no state. Each property of a composition is the conjunction of what its programs promise, named in
its definition by the module and property it comes from; each conjunct has a mutant of its own in
`PROJECT.json` where its failure is a bug of a different program. What their constants may be is
assumed by name in the composition (`ReplayAssumption`, `BackupAssumption`, ...), each assumption as
weak as the proofs allow; the small worlds that TLC runs them on are in `MCVpnEgress`,
`MCApplications` and `MCOperations`.

What the abstractions keep and drop:
- A file is the content it starts with and its length (`ModelCache`), or one of absent, short, bad
  and good (`KiwixLibrary`): hashes tell contents apart, sizes only lengths.
- A gateway's report is its link when fresh and healthy, else `NoLink`; ages appear only in
  `VpnFailover`. Streaks and failure counts saturate at the value they are compared with.
- `calm` is an environment switch: once set, no more failures, restarts or changes. Liveness is
  stated from there on. `unseen` (an acknowledged toggle not yet read) and `steady` (tunnel and
  pod alive since the last report) are history and guard nothing; so are `settled`
  (`ControllerRollout`), `calm` and `synced` of a merge (`GitOpsRollout`), `current` (`LonghornSelinux`), `cut` (`HermesSeed`), `damage` (`AgentGitGuard`), `since` (`StorageEvidence`), `fell`
  (`PowerAnalysis`), `apart` and `edited` (`FunctionLoader`, `ReplaySettings`).
- In `RetiredStatistics` the statistics tables are one set of rows, `other` the highest row id of
  all other series; `durable` is what an outage would leave of the archive.
- Rendered manifests are records of the fields that are decided on; a claim carries as its
  uid the last commit when it was created, or 0 if it was there from the start, so that "deleted and
  created again" is not "kept".
- A path is a sequence of directory names, so the globs of the ApplicationSets and the prefix
  tests of the review keep their meaning.

## 4. Runs

| Run | Instance | Shows |
|---|---|---|
| `vpn_controller` | 1 gateway, 2 links, 1 client, Rise 2, lost replies | `WakeNotLost`, `SnapshotHonest`, `DropOnlyWhenDown`, `JoinAfterRise`, `Converges`; every step implements `EgressControl` (`ImplementsControl`) |
| `vpn_gateway` | commands: 2 configs with an address each, 3 failures; timing: the deployed one in ticks of 5 s, pod and tunnel faults, 1 lost write in a row; rollout: 1 gateway, 2 faults. 0.8M states | `NoLeak`, `Reports`; `DropBound`, a live gateway is dropped only after a lost report; `HonestAgain`, flaps of a rollout end (`SteadyTraffic`) |
| `model_cache` | 2 manifests, 2 files, 3 contents, 3 faults, rotting disks | `ReadyIsVerified`, `NeverIncomplete`, `CopiesAreVerified`, `Serves` |
| `kiwix_library` | 2 releases of a series and an undated archive, any initial files, 3 faults; 510k states | `MarkerIsHonest`, `OnlyWholeArchives`, `SeriesNeverLost`, `SuccessMeansComplete`, `CatalogConverges`, `LibraryConverges` |
| `operations` | the nine programs and guards below; 281k states | see below |
| `applications` | the ten programs below; 80k states | see below |
| `vpn_controller_toggle`, `vpn_gateway_config`, `kiwix_restart`, `ha_statistics_durable`, `registry_gc`, `vpa_contract` | small | one violation each, section 6 |

The properties of `operations`:

| Property | Promise |
|---|---|
| `NothingDeleted` | reviewed changes, each merged when the ApplicationSets are through with the one before (`Unhurried`), delete no Application, and no claim that the commit before declares, in whatever order Argo CD takes their parts, but for claims of two kinds of Applications that gate and review leave open (section 5); a passed gate means the commit runs |
| `ReportsTrue` | a storage report is exact where nothing moved, and never too good |
| `PoliciesReviewed` | no VPA steers the CPU a rendered HPA scales by, over sequences of commits; a workload with an exact coverage exemption was there when that was reviewed |
| `GuardsExact` | whatever template is accepted, replicas of a volume are on different hosts and none is behind Wi-Fi; no commit or push that the agent's guard lets through writes a default branch, but in the ways `Overlooked` lists (section 6), and pushes of feature branches by name pass |
| `SchemasExact` | no field that the API server drops passes, and every object that it serves does (schemas of objects, scalars and logical branches, open and nullable nodes; section 7) |
| `MaintenanceSafe` | a migration that completes left nothing behind; a collection after a complete flip loses nothing |
| `StepsAsJudged` | a volume is patched only as it was judged; a rebuilt claim is bound only with its backup, unless it is an operator's and restored by hand or from another namespace's policy |
| `AllComesAbout` | volumes converge, the registry takes pushes again, what is declared is backed up |

and of `applications`:

| Property | Promise |
|---|---|
| `NothingLost`, `RetiredBeforeStart`, `RestoredExactly` | of the retirement: a row is in the recorder or the archive; Home Assistant runs only after it; a restore gives back exactly what was taken |
| `StatisticsRight` | one baseline, repairs can be undone; a day is billed for its hours; figures are of the text's date |
| `SeededAsDeclared` | "done" means done: skills whole (but one whose removal was cut off, section 6), tasks parked, functions, settings and projects as in git |
| `OneAtATime` | one investigation; a console that refuses says why |
| `NothingDropped` | first calls are counted, totals never fall, URLs added by users stay |
| `AllStart` | everything another program waits for ends |

`TypesOK` of a run is the type invariant of each of its models.

Why the bounds are enough:
- *Controller*: two links make a recreated one; Rise 2 (as deployed) tells "first good check" from
  "enough". The rules treat gateways one by one, so one shows them; what relates two (a policy
  written for all) is covered by the proofs, which hold for any number. One client already overlaps
  its own request with the loop. In a rollout, two faults let a loop fail
  and a gateway change; the proof of `HonestAgain` holds for any number.
- *Gateway*: two configs are the smallest number that leaves an old address on the link; three
  failures are the deployed `FAILS_BEFORE_DOWN`. Restarts, reboots and changes are unbounded.
- *Failover*: the deployed intervals. The bound evaluates to 26 ticks, exactly the worst
  behaviour, with one lost write in a row as with more (proved for any number). Clocks saturate at
  `Horizon` = 30, above the bound and `StaleTicks`.
  Times below a tick and API delays of the controller are left out, so the number is an
  approximation of the real delay to within a few ticks.
- *Model cache*: two manifests with one shared file, and with same-sized files of different
  content, are what readiness could confuse. Three faults allow a cut reply, a crash and a commit in
  any order. Rot is unbounded; what it changed is `Rotten`, and `Serves` allows only for that.
- *Kiwix*: an older and a newer release, and two lists that pin one each, give update, failed
  replacement and rollback; the undated archive takes the early return. `MaxAttempts` 2 of 5:
  one attempt that is not the last and one that is. Three faults cover a commit, a rollback and a
  death. Any mix of good, bad and short files may be there at the start (a hand-filled volume).
- *Statistics*: three rows allow a first archive, rows recorded later and a mixture. Six faults
  allow retire, revert, restore and retire again with a kill and an outage in between; five for the
  repair and its undo.
- *GitOps*: fourteen trees, with two merges: the regrouping of September in one step and in
  three, category moves, dropped claims, an Application moved with and without its
  directory left behind, a directory copied to its new category before the old one goes, shared
  bases. Two merges let a second change arrive while parts of the first are not yet applied.
- *Longhorn*: two volumes of two claims and a third outside the policy, two pods, three changes by
  others: a replacement between list and patch, a lost answer and an edit. `Backoff` 2 as deployed.
- *Registry*: two images, three faults: a failed flip, a killed script and a failed restore.
- *Validators*: every template, repository, checkout or schema of the small worlds in
  `MCOperations`; three commits of the VPA policies, so that a workload goes and comes back.
- *Servers and seeds*: two to five faults; two functions, teams, keys, tasks, so that one of several
  can fail; the exporter's times are the deployed ones in ticks of 30 s, and three lost scrapes are
  what its hold of 180 s allows for.
- `CHECK_DEADLOCK FALSE` only where a program ends and the bounded environment may be used up.

Fairness, and why the code justifies it:
- *Controller*: weak fairness of the loop thread and of every handler. Failing calls are part of
  both, so fairness alone promises nothing until the API is calm. The rollout needs none.
- *Gateway*: weak fairness of the script: kubelet restarts it, it never blocks for good (every
  `curl` has a `--max-time`).
- *Model cache*: weak fairness of both jobs and of `wait`. Strong fairness of a new sync of a
  failed or outdated job: `backoffLimit` ends the restarts of a failing Job, and Argo CD's
  automated, self-healing sync recreates it from git; nothing else replaces an outdated manifest.
- *Kiwix*: the CronJob starts a run every 15 minutes and the sidecar loops for ever.
- *Init containers* (retirement, repair, Hermes, Presenton): kubelet reruns them until they succeed.
- *Longhorn*: pods run and the Job controller replaces failed ones, as long as attempts are left and
  the Job is not over: `Deadline` (`activeDeadlineSeconds: 180`) may come at any moment, ends the
  attempts and stops any of the pods, and nothing is promised of a Job that has given up.
- *Registry*: the CronJob comes round again; kubelet and Deployment do their work.
- *Backups*: the operator takes scheduled snapshots. *Summary*: the hourly trigger. *Console*: its
  worker thread runs, and its request has a time-out.
- Faults that a module counts end by the bound; `calm` ends the others.

## 5. Proofs

For every value of the constants that satisfies the module's assumptions:

| Theorem | Property | Argument |
|---|---|---|
| `VpnController_proofs!TypeCorrect` | `TypeOK` | inductive |
| `…!SnapshotIsHonest` | `SnapshotHonest` | `BeliefInv`: from the seed until a failed write `inPolicy` equals the live policy; a pass that reaches publication without errors has written the policy with its owner. Without those two facts a snapshot taken from `inPolicy` could be anything |
| `…!DropsOnlyWhenDown`, `…!JoinsAfterRise` | action properties | from `BeliefInv` before the one step that writes the policy |
| `…!WakeIsNeverLost` | `WakeNotLost` | a stronger form over all program counters: the loop clears the event before it reads |
| `…!ControllerImplementsControl` | `ImplementsControl` | each action maps to one of `EgressControl` or a stutter |
| `VpnEgress_proofs!EgressTyped` | `TypesOK` | each model's types with its invariant below |
| `…!NeverLeaks` | `NoLeak` | `GatewayInv`: past the rule step the current address has its rule, past the blackhole step there is a blackhole, and no command removes either |
| `…!DropsInTime` | `DropBound` | `TimerInv` bounds what is left of every timer by the phase; `OutageInv`: while the script believes in a dead tunnel the outage is no older than its failed probes and the round under way; while the last report says "up", than the rounds it takes to notice and the report's age; while the controller routes there, its next check is due in time |
| `…!HonestAfterRollout` | `HonestAgain` | `RolloutInv`: `BeliefInv` of `VpnController_proofs` holds of the old controller before the rollout and of the new one once it has read or written the policy alone; in between of neither |
| `…!TrafficIsSteady` | `SteadyTraffic` | `SteadyInv`: the last report of a live gateway is no older than the longest round (sleep, probe and write with their full timeouts) times one more than the reports lost since, and so much of a round as is under way. No assumption about the timing: the theorem says how many reports must be lost before the staleness limit is reached, which is none with no loss and one as deployed |
| `ModelCache_proofs!TypeCorrect`, `…!ReadinessIsHonest`, `…!NothingIncomplete`, `…!CopiesVerified` | `TypeOK`, `ReadyIsVerified`, `NeverIncomplete`, `CopiesAreVerified` | `StreamInv` (a part is as long as the reply was read), `MarkerInv` (no marker while writing), `ProgressInv` (files before `idx` verified or rotten since). Disks may rot at any moment |
| `KiwixLibrary_proofs!TypeCorrect`, `…!MarkersAreHonest`, `…!OnlyWhole`, `…!NeverLost` | `TypeOK`, `MarkerIsHonest`, `OnlyWholeArchives`, `SeriesNeverLost` | `VerifiedInv`: the file being published, marked or cleaned up after has verified. `NeverLost` also needs that `Older` orders each series (`LibraryAssumption`), as its names' dates do |
| `…!Succeeds` | `SuccessMeansComplete` | `DoneInv`: unless a line has failed, every line before the current one is published and good; a later line's clean-up leaves it alone because no archive of a list is older than another of it (`ListedStays`) |
| `Applications_proofs!ApplicationsTyped` | `TypesOK` | types of the ten programs |
| `…!NothingIsLost` | `NothingLost` | `ArchiveInv`: an archive that is not yet durable is a part of the recorder. Assumes `OrderedRename` |
| `…!RetiredFirst` | `RetiredBeforeStart` | `StartInv`: from the verified templates to the running pod |
| `…!RestoresExactly` | `RestoredExactly` | `RetiredInv`: rows and ids of recorder and archive are in one-to-one order (`Proper`), and the recorder holds none or all of the archived ones; ids handed out anew keep that (`InsertedIs`) |
| `…!StatisticsAreRight` | `StatisticsRight` | `RepairInv` (a journal is written of low rows and committed only while it is theirs); `AnalysisInv` with `Telescope` (the changes between a day's rows add up to the day's, whatever rows are late or fall); `SummaryInv` (facts are of the date they carry) |
| `…!SeededRight` | `SeededAsDeclared` | `HermesInv`, `FiltersInv`, `PresentonInv`, `ReplayInv`: for each place of the job, what has been written up to it; `MarkerFits`: whatever commit a skill's marker is of, the copy beside it is whole, is being removed, or its removal was cut off (`cut`) |
| `…!InvestigationsOneAtATime` | `OneAtATime` | `OneInv`: what runs upstream is what the worker waits for, or the console knows that it does not know; `HeldInv`: the result that is being worked on is not pruned, so the worker gets to its end and `busy` is released or explained |
| `…!NothingIsDropped` | `NothingDropped` | `UsageInv`: what Prometheus has is no more than the cached answer and the totals, and a label set it does not have yet has been held at zero for less time than since its last scrape; `UrlsStep` from `ReplayInv` |
| `Operations_proofs!OperationsTyped` | `TypesOK` | types of the nine programs |
| `…!MaintenanceIsSafe` | `MaintenanceSafe` | `CompleteInv` of `LonghornSelinux_proofs` (a completing pod saw every selected volume, and what it saw converged stays so while its change is `current`); `RegistryInv` (until a command before the collection fails the collector runs in a pod that takes no pushes, so what it marked stays garbage) |
| `…!StepsAreAsJudged` | `StepsAsJudged` | `PlanInv`: resourceVersions are handed out once and go up, so a volume that still has the version in the plan is the volume that was judged, uid and all; `BackupInv` and `LinkedPolicy`: a link leads to the one policy of its claim, in its namespace; a `Restore` that makes its claim is told by its policy's name alone (`Unmatched`) |
| `…!PoliciesAreReviewed` | `PoliciesReviewed` | `VpaInv` and `ExemptionMeansWorkload`: an accepted exact coverage exemption has its workload rendered beside it, so a workload that comes finds no exemption that was there before it |
| `…!GuardsAreExact` | `GuardsExact` | `ZonesApart`: machines keep to the accepted template, which gives a provider one zone, and replicas are in different zones; so two of one host would be in one zone. For the agent's guard no invariant is needed beyond types: an allowed command writes no default branch but in a way the guard overlooks (`AllowedWritesNothing`) |
| `…!ApplicationsSurvive` | the half of `NothingDeleted` about Applications, `ApplicationsKept` | `CalmInv`: a merge that finds the ApplicationSets through (`Unhurried`) leaves only the last two commits to be mixed, and `Verdict` let the second pass because it gives every Application of the first in every mixture, once and under its owner (`VerdictKeeps`); so whichever of the two a set has its spec and its directories from, it keeps them. The gate: what it has read well stays so while it reads on, because its plan goes by rank (`PlanInOrder`) from the root to the specs to the Applications, and nothing of a lower rank moves once what is above it has come to rest (`ReadInv`) |
| `…!NothingIsDeleted` | `NothingDeleted` | the invariant above and `HeldParts`. `GuardInv`: the last change leaves each guarded object of the commit before with its Application, because the review either compares what both trees render (`GuardsKept`) or need not: an Application that is not affected depends on directories that did not change, and so renders what it did (`DependenciesStay`: a directory's dependencies, a recursive function, are the least set closed under use, `DependenciesAre`, by induction on how many directories are not yet seen). `SourceInv`: an Application is what specs and directories of the last two commits make, and synced to one of them. `KeeperInv`, `RemainInv`: so whoever syncs it finds its declared objects with it and renders them. `ReadObjectInv`: an object read well after its Application was stays |
| `…!ReportsAreTrue` | `ReportsTrue` | `EvidenceInv`: what was collected was so in some state since the collection began, each part perhaps in another, and the report is made of it |
| `…!SchemasAreExact` | `SchemasExact` | `CiAgrees`, by induction on how deep a schema nests (`SchemaDepth`): at every node the generated schema and the API server ask the same of a field, declared, additional, a resource's own or none of these, and of branches (`BranchesAgree`). `RecursiveFunction` shows first that the recursive definitions are of functions (`ValidIs`, `KeepsIs`, ...). Assumes that the CRDs are ones the API server takes (`taken`) |
| `LonghornSelinux_proofs!WritesAreJudged`, `…!CompleteIsConverged` | the parts of the two above | `PlanInv`; `CompleteInv` |

The theorems about a composition hold for every job, and so for each program alone; the lemmas
`LonghornSteps`, `RegistrySteps`, ... say that a step of the composition is one of the program or
leaves it alone. `Statistics_proofs` holds the lemmas of the three Home Assistant programs.

What looking for the proofs brought to light, and changed:
- `DropBound` was one tick above the worst behaviour; the proof gave the exact bound.
- `ExactWhereQuiet` asked for less quiet than exactness needs: a claim that is bound anew between two
  of the queries counts as a move, too.
- `RestoredFromBackup` needs that one `Restore` at most creates a claim itself. The validator
  (`validate-kopiur-coverage.py`) accepts two for one claim; no manifest here does that
  (`BackupAssumption`).
- `ExemptionsAreReviewed` needs that a chart renders namespaces for all workloads of a name or
  for none (`validate-vpa-policies.py:80` falls back on the empty namespace; `VpaAssumption`).
- `AppsSurvive` does not hold when a commit is merged before the ApplicationSets have read the one
  before: a directory copied to a new category and then removed from the old one, in two reviewed
  commits, deletes the Application and with it its claims when an ApplicationSet skips the first.
  The gate does not read what they have generated from, so `PASS` does not exclude it:
  `Unhurried` states when it holds. The proof also needs that all trees have the same
  ApplicationSets and that no Application written out in a tree is called as one of them or owned
  by one (`TreesAssumption`): a change that adds or removes an ApplicationSet is outside the model.
- `ClaimsSurvive` was too wide, though TLC found it true of the trees it tried. It leaves out now:
  objects that the commit before no longer declares, which are anyone's to prune; those of an
  Application that strays, that is, whose source a change moves onto a directory that one of the
  two commits has for something else (synced between, it renders that; the review warns,
  `gitops-risk-check.py:206`, and does not block); and those of the root's own Applications when they
  were behind at the merge, for `gitops-live-gate.py` does not wait for their sync and the second of
  two quick changes finds them rendering the commit before the last. After a `PASS` only the last
  kind is left out (`ObjectsLive`). The proof needs that what a kustomization uses, and whatever has
  files, is a directory of the tree (`TreesAssumption`).

Only model-checked:
- All liveness, which needs fairness: `Converges`, `Reports`, `Serves`, `CatalogConverges`,
  `LibraryConverges`, `AllComesAbout`, `AllStart`.

## 6. What disagrees

Six runs end in a counterexample to what a comment or document says:

1. **`ToggleWins`** (`controller.py:238`). The first pass answers a 404 by a forced apply of the
   default. A POST saved between the two, answered 200, is overwritten. `config.env:4`: "After
   that, the UI toggle wins".
2. **`ConfigApplied`** (`gateway.sh:110`). The config is summed after the first setup has read it.
   A change in between is summed, never applied, and never noticed again.
3. **`CatalogConverges`** (`index-library.sh:22`). `library.xml` is renamed before
   `files.current`; a restart between the two, followed by a directory equal to the old list,
   leaves the catalog stale until the directory changes once more. `kiwix_library` shows the same
   property holds when that one window is closed (`TornCatalog = FALSE`).
4. **`NothingLost`** (`retire-period-statistics.py:67`). After a kill between the rename and the
   directory's fsync the next run finds the archive equal and deletes the rows; nothing has made
   the rename durable. Filesystems that persist a rename with any later fsync (ext4, XFS) hide
   it; `applications` and the proof assume one.
5. **`StoreIntact`** (`run-garbage-collection.sh:17`). The script goes on to collect when the flip
   or its rollout has failed: it is started as a program of its own, so the `-euo pipefail` of the
   CronJob's shell is not in force in it. A push during the sweep leaves a manifest without its blob.
   `MaintenanceSafe` shows the store intact where flip and rollout succeeded.
6. **`MemoryOnlyContract`** (`validate-vpa-policies.py:109`). "Require an explicit memory-only
   contract": a container without a policy and without a `"*"` is controlled in every resource,
   and an HPA rendered without its namespace matches no target; both are accepted.
   `PoliciesReviewed` shows the contract holds elsewhere.

Noticed while reading, without a run:
- `my-apps/ai/vllm/README.md` says both that warm syncs hash the copy again (line 239) and that
  they do not (line 232); the code does not.
- A tunnel that stops is documented to be dropped after 45 s of failed probes and one controller
  pass (`docs/domains/networking/vpn-egress.md:53` and `:111`); it takes longer when those probes
  time out slowly, when a status write is lost, or when the pod dies after it renewed an "up"
  report: `DropBound` gives the bound.
- `vpn-egress/controller.yaml:10` says of `maxSurge: 0` "the old one stops before the new one
  starts"; the new pod is created when the old one is marked for deletion, and that may still run. `HonestAgain` and `SteadyTraffic` show what is left of that.
- `load-functions.py:99` does not look at the answer of the activation, and what is read afterwards
  (`:106`) is only printed; a function may stay inactive until someone sees it. `ServedAsInGit` leaves out exactly those functions.
- One lost report is enough to drop a live gateway when probes and writes are slow: two rounds of
  15 s sleep, 5 s probe (`gateway.sh:72`) and 10 s write, and the write of the next, are 70 s, and
  `STALE_SECONDS` is 60 (`controller.py:138`). `ReportsKeepPolicy` says so.
- A broken archive under its final name is kept for inspection (`download-library.sh:46`); if
  `kiwix-manage` cannot open it, every rebuild of the catalog fails at `index-library.sh:18`, and
  the library stays as it was for all other archives until someone removes the file. `CatalogConverges`
  and `LibraryConverges` leave that case out by name (`NoBrokenFiles`).
- `vpa-exemptions.yaml:2-3` says that stale exact-name entries fail validation;
  `validate-vpa-policies.py:288-299` looks at the coverage exemptions only, and an exact entry of the
  workload exemptions outlives its workload. `ExemptionsAreReviewed` is about the first list.
- `agent-git-guard.py:98` takes any two arguments without a dash for a remote and an explicit feature
  refspec that overrides upstream. The value of an option counts as one (`git push -o x origin`); a
  branch named without a destination still goes to its upstream under `push.default` `upstream` or
  `tracking`; `tracking` itself, the refspec `:` (typed, or configured for the remote),
  `remote.*.mirror` and a shortened `--all` are not looked at. Each of these lets a write of the
  default branch through, each is in the model's git, and `Overlooked` names them one by one:
  `NoDefaultWritten` shows that there are no others.
- A `Restore` that makes its claim itself is matched by the name of its policy alone
  (`validate-kopiur-coverage.py:128-130`, `:147`); the namespace that `:88` compares for populators
  is not looked at, so it may bring another namespace's data. `RestoredFromBackup` leaves exactly
  those out (`Unmatched`).
- `rm -rf` of a skill (`seed.sh:33`) may be cut off before it comes to `.source-sha`. When the old
  commit is pinned again before the next start removes the rest, `seed.sh:26` skips the torn copy
  for good. `MarkerMeansWhole` leaves out exactly that copy (`cut`).

## 7. Limits

- One writer per model root: a Job whose node is lost may run two pods for a while
  (`model_cache.py:84`), and one may truncate the part the other just finished.
- `wget -c` of a complete part is taken to succeed (`download-library.sh:55`); each archive keeps
  one pinned checksum.
- The liveness probe of the controller (`controller.py:458`), which compares clocks with the time a
  pass of seven API calls may take, is not modelled.
- Home Assistant's own purge of short-term statistics, unexpected sources and changed schemas
  (refused before the first write) are left out of `RetiredStatistics` and `PowerRepair`.
- The review of GitOps changes is modelled without Helm charts, remote bases and Applications of
  several sources, which block.
- A skill gets its name in `SKILL.md` after its marker is written (`seed.sh:35`): killed between the
  two it keeps its old name for good. The model leaves that edit out.
- `OmniContract` follows one accepted template; a template that replaces another while replicas
  stay is not modelled (the validator sees one at a time).
- The command guard is a narrow check by its own words: quoting, variables, aliases, git's `-c` and
  a switch of branches within a command are outside it and outside the model.
- `CrdSchemas` has no arrays and no untyped nodes that preserve unknown fields, and a boolean is a
  scalar like others; `SchemasExact` says nothing of those.
- The review of GitOps changes takes the predicted plan as complete; whether an Application is
  affected by a change of `prune`, which `identity()` leaves out, is the model's reading (`Affected`).
- `StorageEvidence` leaves out zones that are the empty string, which are in neither count
  (`collect-storage-evidence.py:104-105`), and two collectors that write one file.
- The deadline of the Longhorn Job is a step that may come at any time, not 180 s of a clock.
- Power loss is modelled where the code asks for durability (`RetiredStatistics`, `PowerRepair`);
  seeds and caches are killed, not unplugged.
- Argo CD, kopiur's operator, Longhorn's placement, the VPA, the registry's collector, Prometheus
  and git are modelled as the code relies on them and marked external in `PROJECT.json`.
- Exit addresses, handshakes, byte counters and metrics text are reported, never decided on.
