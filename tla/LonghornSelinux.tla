--------------------------- MODULE LonghornSelinux ---------------------------
(***************************************************************************)
(* The Job that gives selected Longhorn volumes their SELinux mount option *)
(* (longhorn-selinux/scripts/reconcile.py).  It lists the volumes, judges  *)
(* every selected one, and only then patches them one by one, each under   *)
(* the uid and resourceVersion it was judged at.  Volumes are edited,      *)
(* released, deleted and created anew meanwhile, answers get lost, and a   *)
(* pod whose node is lost may run beside its replacement.                  *)
(***************************************************************************)
EXTENDS Naturals

CONSTANTS
  Volumes,   \* names of persistent volumes
  Claims,    \* claims the policy lists
  Other,     \* a claim it does not list
  Runners,   \* pods of the Job that may overlap
  Given,     \* mount options others give a volume
  Backoff,   \* backoffLimit
  Changes    \* bound: changes of volumes and policy by others

VARIABLES
  pv,        \* the volumes in the API server, or Absent
  revision,  \* the last resourceVersion handed out
  policy,    \* the mode in policy.json
  attempts,  \* pods the Job may still start
  pc,        \* where each pod is
  mode,      \* the policy each pod was started with
  plan,      \* what it has still to patch: volumes as they were listed
  current,   \* has nobody else changed anything since it listed?
  changes    \* changes left

pods == <<pc, mode, plan, current>>
vars == <<pv, revision, policy, attempts, pods, changes>>

Absent == <<>>
\* Mount options: those of others ("override" has another SELinux context in it), and
\* where among them MOUNT_OPTION is.
OptionLists ==
  {o \in [others : {"none", "noatime", "override"}, ctx : {"absent", "within", "last"}] :
     o.others = "none" => o.ctx # "within"}
Modes == {"plan", "apply", "remove"}
\* What others create: a volume of some claim, of the reviewed kind (Longhorn, ext4, one
\* writer) or not, with mount options of their own.
Shapes == [claim : Claims \cup {Other}, reviewed : BOOLEAN, opts : Given]

TypeOK ==
  /\ \A n \in Volumes : pv[n] # Absent =>
       pv[n].opts \in OptionLists /\ pv[n].uid <= pv[n].rv /\ pv[n].rv <= revision
  /\ policy \in Modes
  /\ attempts \in 0 .. Backoff + 1
  /\ pc \in [Runners -> {"off", "list", "patch", "done", "failed"}]
  /\ mode \in [Runners -> Modes]
  /\ current \in [Runners -> BOOLEAN]
  /\ changes \in 0 .. Changes

Init ==
  /\ pv = [n \in Volumes |-> Absent]
  /\ revision = 0
  /\ policy = "plan"
  /\ attempts = 0
  /\ pc = [r \in Runners |-> "off"]
  /\ mode = [r \in Runners |-> "plan"]
  /\ plan = [r \in Runners |-> {}]
  /\ current = [r \in Runners |-> FALSE]
  /\ changes = Changes

-----------------------------------------------------------------------------
(* make_plan() *)

\* The listed claims' volumes that are Bound and not being deleted.
Targets == {n \in Volumes : pv[n] # Absent /\ pv[n].claim \in Claims /\ pv[n].live}

Conflicting(v) == v.opts.others = "override"

\* The option goes to the end; "remove" leaves the others.
Desired(m, opts) == [opts EXCEPT !.ctx = IF m = "remove" THEN "absent" ELSE "last"]

\* One target that is not what was reviewed, or two volumes of one claim: no write at all.
Refused ==
  \/ \E n \in Targets : ~pv[n].reviewed \/ Conflicting(pv[n])
  \/ \E n, k \in Targets : n # k /\ pv[n].claim = pv[k].claim

ToChange(m) == {n \in Targets : Desired(m, pv[n].opts) # pv[n].opts}

Change == changes > 0 /\ changes' = changes - 1
Stale == current' = [r \in Runners |-> FALSE]

Goto(r, step) == pc' = [pc EXCEPT ![r] = step]

\* Mutant: the first change of the plan is the whole plan.
ListOne(r) ==
  /\ pc[r] = "list"
  /\ current' = [current EXCEPT ![r] = TRUE]
  /\ IF Refused THEN Goto(r, "failed") /\ UNCHANGED plan
     ELSE /\ plan' = [plan EXCEPT ![r] =
                        {[name |-> n, seen |-> pv[n]] :
                           n \in {k \in ToChange(mode[r]) : \A o \in ToChange(mode[r]) : pv[k].rv >= pv[o].rv}}]
          /\ Goto(r, IF mode[r] = "plan" THEN "done" ELSE "patch")
  /\ UNCHANGED <<pv, revision, policy, attempts, mode, changes>>

\* One consistent list: later pages are served from the snapshot of the first.
List(r) ==
  /\ pc[r] = "list"
  /\ current' = [current EXCEPT ![r] = TRUE]
  /\ IF Refused THEN Goto(r, "failed") /\ UNCHANGED plan
     ELSE /\ plan' = [plan EXCEPT ![r] =
                        {[name |-> n, seen |-> pv[n]] : n \in ToChange(mode[r])}]
          /\ Goto(r, IF mode[r] = "plan" THEN "done" ELSE "patch")
  /\ UNCHANGED <<pv, revision, policy, attempts, mode, changes>>

-----------------------------------------------------------------------------
(* reconcile() *)

\* Mutant: only the uid is tested.
UnchangedUid(e) == pv[e.name] # Absent /\ pv[e.name].uid = e.seen.uid

\* The JSON patch applies when both tests hold.
Unchanged(e) ==
  /\ pv[e.name] # Absent
  /\ pv[e.name].uid = e.seen.uid
  /\ pv[e.name].rv = e.seen.rv

Write(r, e) ==
  /\ revision' = revision + 1
  /\ pv' = [pv EXCEPT ![e.name] =
              [@ EXCEPT !.opts = Desired(mode[r], e.seen.opts), !.rv = revision + 1]]

\* A patch that does not apply, or whose answer does not come, ends the pod.
Patch(r) ==
  /\ pc[r] = "patch"
  /\ \E e \in plan[r] :
       /\ IF Unchanged(e) THEN Write(r, e) /\ UNCHANGED pc
          ELSE Goto(r, "failed") /\ UNCHANGED <<pv, revision>>
       /\ plan' = [plan EXCEPT ![r] = @ \ {e}]
  /\ UNCHANGED <<policy, attempts, mode, current, changes>>

LoseAnswer(r) ==
  /\ pc[r] = "patch"
  /\ Change
  /\ \E e \in plan[r] : Unchanged(e) /\ Write(r, e)
  /\ Goto(r, "failed")
  /\ UNCHANGED <<policy, attempts, mode, plan, current>>

Complete(r) ==
  /\ pc[r] = "patch" /\ plan[r] = {}
  /\ Goto(r, "done")
  /\ UNCHANGED <<pv, revision, policy, attempts, mode, plan, current, changes>>

Run(r) == List(r) \/ Patch(r) \/ Complete(r)

-----------------------------------------------------------------------------
(* The Job, git, and everybody else *)

Idle(r) == pc[r] \in {"off", "done", "failed"}

\* Mutant: one attempt too many.
StartPodOnceMore(r) ==
  /\ Idle(r)
  /\ Goto(r, "list")
  /\ mode' = [mode EXCEPT ![r] = policy]
  /\ plan' = [plan EXCEPT ![r] = {}]
  /\ attempts' = attempts - 1
  /\ UNCHANGED <<pv, revision, policy, current>>

StartPod(r) ==
  /\ Idle(r)
  /\ Goto(r, "list")
  /\ mode' = [mode EXCEPT ![r] = policy]
  /\ plan' = [plan EXCEPT ![r] = {}]
  /\ attempts > 0 /\ attempts' = attempts - 1
  /\ UNCHANGED <<pv, revision, policy, current>>

\* The Job starts another pod when its last one failed ...
Retry(r) ==
  /\ \A s \in Runners : Idle(s) /\ pc[s] # "done"
  /\ \E s \in Runners : pc[s] = "failed"
  /\ StartPod(r)
  /\ UNCHANGED changes

\* ... or is being evicted, though it still runs.
Replace(r) ==
  /\ \E s \in Runners : ~Idle(s)
  /\ StartPod(r)
  /\ Change

\* activeDeadlineSeconds: after three minutes the Job has failed, whatever attempts it has
\* left; its pods are told to stop, and some of them run on for a while.
Deadline ==
  /\ attempts > 0 \/ \E r \in Runners : ~Idle(r)
  /\ \A r \in Runners : pc[r] # "done"
  /\ attempts' = 0
  /\ \E stopped \in SUBSET {r \in Runners : ~Idle(r)} :
       pc' = [r \in Runners |-> IF r \in stopped THEN "failed" ELSE pc[r]]
  /\ UNCHANGED <<pv, revision, policy, mode, plan, current, changes>>

\* A commit, or a sync: Argo CD deletes the Job with its pods and creates it anew.
Sync ==
  /\ Change
  /\ policy' \in Modes
  /\ attempts' = Backoff
  /\ \E r \in Runners :
       /\ pc' = [s \in Runners |-> IF s = r THEN "list" ELSE "off"]
       /\ mode' = [mode EXCEPT ![r] = policy']
  /\ plan' = [r \in Runners |-> {}]
  /\ Stale
  /\ UNCHANGED <<pv, revision>>

\* Somebody creates, replaces, edits or deletes a volume.
Create(n) ==
  /\ Change
  /\ \E s \in Shapes :
       pv' = [pv EXCEPT ![n] = [claim |-> s.claim, live |-> TRUE, reviewed |-> s.reviewed, opts |-> s.opts,
                                uid |-> revision + 1, rv |-> revision + 1]]
  /\ revision' = revision + 1
  /\ Stale
  /\ UNCHANGED <<policy, attempts, pc, mode, plan>>

Edit(n) ==
  /\ Change
  /\ pv[n] # Absent
  /\ \E o \in Given, l \in BOOLEAN :
       pv' = [pv EXCEPT ![n] = [@ EXCEPT !.opts = o, !.live = l, !.rv = revision + 1]]
  /\ revision' = revision + 1
  /\ Stale
  /\ UNCHANGED <<policy, attempts, pc, mode, plan>>

Delete(n) ==
  /\ Change
  /\ pv[n] # Absent
  /\ pv' = [pv EXCEPT ![n] = Absent]
  /\ Stale
  /\ UNCHANGED <<revision, policy, attempts, pc, mode, plan>>

Next ==
  \/ \E r \in Runners : Run(r) \/ LoseAnswer(r) \/ Retry(r) \/ Replace(r)
  \/ Deadline \/ Sync
  \/ \E n \in Volumes : Create(n) \/ Edit(n) \/ Delete(n)

Spec == Init /\ [][Next]_vars

\* The kubelet runs the pods, the Job controller replaces the failed ones until its deadline.
Progress == \E r \in Runners : Run(r) \/ Retry(r)
FairSpec == Spec /\ WF_vars(Progress)

-----------------------------------------------------------------------------
(* Properties *)

\* "Validate every selected target before sending the first write": whatever happens to
\* the volumes between the list and the patch, a write changes a volume that is selected,
\* live, reviewed and free of other contexts at that very moment, and only its options.
WritesAsJudged ==
  [][\A n \in Volumes : pv'[n] # pv[n] /\ changes' = changes =>
       /\ n \in Targets /\ pv[n].reviewed /\ ~Conflicting(pv[n])
       /\ \E m \in Modes \ {"plan"} :
            pv'[n] = [pv[n] EXCEPT !.opts = Desired(m, @), !.rv = pv'[n].rv]]_vars

Converged == policy = "plan" \/ Refused \/ ToChange(policy) = {}

\* A Job that completes has done all its policy asks for, unless somebody changed a
\* volume after its pod listed them: no conflict or lost answer is taken for success.
CompleteMeansConverged == \A r \in Runners : pc[r] = "done" /\ current[r] => Converged

\* The Job has used up its retries, or its three minutes, and no pod of it runs or is done.
GivenUp == attempts = 0 /\ \A r \in Runners : pc[r] \in {"off", "failed"}

\* Once nobody else changes anything the volumes are as the policy says, unless the policy
\* is refused, the Job has given up, or it was done before the last change.
Converges == <>[](Converged \/ GivenUp \/ \E r \in Runners : pc[r] = "done" /\ ~current[r])
=============================================================================
