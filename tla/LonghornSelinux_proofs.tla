------------------------ MODULE LonghornSelinux_proofs ------------------------
(***************************************************************************)
(* Proofs about the migration of Longhorn volumes, for any volumes, claims,*)
(* pods and changes by others.                                             *)
(***************************************************************************)
EXTENDS LonghornSelinux, TLAPS

\* What make_plan() lets into a plan.
Judged(v) == v.claim \in Claims /\ v.live /\ v.reviewed /\ ~Conflicting(v)

\* A volume that still has the resourceVersion of a plan's entry is the volume that was
\* listed: versions are handed out once, and only go up.
PlanInv ==
  /\ revision \in Nat /\ changes \in Nat
  /\ \A n \in Volumes : pv[n] # Absent =>
       pv[n].rv \in Nat /\ pv[n].rv <= revision /\ "rv" \in DOMAIN pv[n]
  /\ \A r \in Runners : \A e \in plan[r] :
       /\ e.name \in Volumes /\ Judged(e.seen) /\ e.seen.rv \in Nat /\ e.seen.rv <= revision
       /\ pv[e.name] # Absent /\ pv[e.name].rv = e.seen.rv => pv[e.name] = e.seen
  /\ \A r \in Runners : pc[r] = "patch" => mode[r] \in Modes \ {"plan"}
  /\ pv = [n \in Volumes |-> pv[n]] /\ plan = [r \in Runners |-> plan[r]]
  /\ pc = [r \in Runners |-> pc[r]] /\ mode \in [Runners -> Modes] /\ policy \in Modes

-----------------------------------------------------------------------------

LEMMA PlanInit == ASSUME Changes \in Nat PROVE Init => PlanInv
  BY DEF Init, PlanInv, Modes

\* What others do, and what a patch does: a volume is as it was, is gone, or has a version
\* that no plan knows; plans only get smaller.
NewVersion(n) ==
  /\ revision' \in Nat /\ revision' >= revision
  /\ pv' = [k \in Volumes |-> pv'[k]]
  /\ \A k \in Volumes \ {n} : pv'[k] = pv[k]
  /\ pv'[n] # Absent => pv'[n].rv = revision' /\ revision' > revision /\ "rv" \in DOMAIN pv'[n]

PlansKept ==
  /\ changes' \in Nat /\ mode' = mode /\ policy' = policy
  /\ plan' = [r \in Runners |-> plan'[r]] /\ \A r \in Runners : plan'[r] \subseteq plan[r]
  /\ pc' = [r \in Runners |-> pc'[r]] /\ \A r \in Runners : pc'[r] = "patch" => pc[r] = "patch"

LEMMA NewVersions ==
  ASSUME PlanInv, NEW n \in Volumes, NewVersion(n), PlansKept PROVE PlanInv'
<1>0. revision \in Nat
  BY DEF PlanInv
<1>1. \A k \in Volumes : pv'[k] # Absent =>
        pv'[k].rv \in Nat /\ pv'[k].rv <= revision' /\ "rv" \in DOMAIN pv'[k]
  BY DEF PlanInv, NewVersion
<1>2. ASSUME NEW r \in Runners, NEW e \in plan'[r]
      PROVE  /\ e.name \in Volumes /\ Judged(e.seen) /\ e.seen.rv \in Nat /\ e.seen.rv <= revision'
             /\ pv'[e.name] # Absent /\ pv'[e.name].rv = e.seen.rv => pv'[e.name] = e.seen
  <2>1. /\ e \in plan[r] /\ e.name \in Volumes /\ Judged(e.seen)
        /\ e.seen.rv \in Nat /\ e.seen.rv <= revision
        /\ pv[e.name] # Absent /\ pv[e.name].rv = e.seen.rv => pv[e.name] = e.seen
    BY <1>2 DEF PlanInv, PlansKept
  <2>2. pv'[e.name] # Absent /\ pv'[e.name].rv = e.seen.rv => pv'[e.name] = e.seen
    <3>1. CASE e.name = n
      BY <1>0, <2>1, <3>1 DEF NewVersion
    <3>2. CASE e.name # n
      BY <2>1, <3>2 DEF NewVersion
    <3> QED
      BY <3>1, <3>2
  <2>3. e.seen.rv <= revision'
    BY <1>0, <2>1 DEF NewVersion
  <2> QED
    BY <2>1, <2>2, <2>3
<1>3. /\ \A r \in Runners : pc'[r] = "patch" => mode'[r] \in Modes \ {"plan"}
      /\ mode' \in [Runners -> Modes] /\ policy' \in Modes
  BY DEF PlanInv, PlansKept
<1> QED
  BY <1>1, <1>2, <1>3 DEF PlanInv, NewVersion, PlansKept, Judged, Conflicting

\* A plan is made of the volumes there are, all of them judged.
LEMMA ListKeepsPlans ==
  ASSUME PlanInv, NEW r \in Runners, List(r) PROVE PlanInv'
<1>1. UNCHANGED <<pv, revision, policy, mode, changes>>
  BY DEF List
<1>2. CASE Refused
  <2>1. /\ UNCHANGED plan /\ pc' = [pc EXCEPT ![r] = "failed"]
    BY <1>2 DEF List, Goto
  <2> QED
    BY <1>1, <2>1 DEF PlanInv, Judged, Conflicting
<1>3. CASE ~Refused
  <2>1. /\ plan' = [plan EXCEPT ![r] = {[name |-> n, seen |-> pv[n]] : n \in ToChange(mode[r])}]
        /\ pc' = [pc EXCEPT ![r] = IF mode[r] = "plan" THEN "done" ELSE "patch"]
    BY <1>3 DEF List, Goto
  <2>2. ASSUME NEW s \in Runners, NEW e \in plan'[s]
        PROVE  /\ e.name \in Volumes /\ Judged(e.seen) /\ e.seen.rv \in Nat /\ e.seen.rv <= revision
               /\ pv[e.name] # Absent /\ pv[e.name].rv = e.seen.rv => pv[e.name] = e.seen
    <3>1. CASE s # r
      BY <2>1, <2>2, <3>1 DEF PlanInv
    <3>2. CASE s = r
      <4>1. PICK n \in ToChange(mode[r]) : e = [name |-> n, seen |-> pv[n]]
        BY <2>1, <2>2, <3>2 DEF PlanInv
      <4>2. n \in Targets /\ e.name = n /\ e.seen = pv[n]
        BY <4>1 DEF ToChange
      <4>3. n \in Volumes /\ pv[n] # Absent /\ Judged(pv[n])
        BY <1>3, <4>2 DEF Targets, Judged, Refused
      <4> QED
        BY <4>2, <4>3 DEF PlanInv
    <3> QED
      BY <3>1, <3>2
  <2>3. \A s \in Runners : pc'[s] = "patch" => mode[s] \in Modes \ {"plan"}
    BY <2>1 DEF PlanInv
  <2> QED
    BY <1>1, <2>1, <2>2, <2>3 DEF PlanInv, Judged, Conflicting
<1> QED
  BY <1>2, <1>3

\* A write makes a version no plan knows, of the volume that was listed.
LEMMA WriteMakesVersion ==
  ASSUME PlanInv, NEW r \in Runners, NEW e \in plan[r], Unchanged(e), Write(r, e)
  PROVE  /\ e.name \in Volumes /\ Judged(pv[e.name]) /\ NewVersion(e.name)
         /\ pv'[e.name] = [pv[e.name] EXCEPT !.opts = Desired(mode[r], @), !.rv = revision']
         /\ pv'[e.name].rv = revision'
<1>1. /\ e.name \in Volumes /\ pv[e.name] = e.seen /\ Judged(pv[e.name]) /\ "rv" \in DOMAIN pv[e.name]
      /\ revision \in Nat
  BY DEF PlanInv, Unchanged
<1>2. /\ revision' = revision + 1
      /\ pv' = [pv EXCEPT ![e.name] =
                  [pv[e.name] EXCEPT !.opts = Desired(mode[r], pv[e.name].opts), !.rv = revision']]
  BY <1>1 DEF Write
<1>3. /\ pv'[e.name] = [pv[e.name] EXCEPT !.opts = Desired(mode[r], pv[e.name].opts), !.rv = revision']
      /\ \A k \in Volumes \ {e.name} : pv'[k] = pv[k]
      /\ pv' = [k \in Volumes |-> pv'[k]]
  BY <1>1, <1>2 DEF PlanInv
<1>4. pv'[e.name].rv = revision' /\ "rv" \in DOMAIN pv'[e.name]
  BY <1>1, <1>3
<1>5. revision' \in Nat /\ revision' > revision
  BY <1>1, <1>2
<1> QED
  BY <1>1, <1>3, <1>4, <1>5 DEF NewVersion

LEMMA PatchKeepsPlans ==
  ASSUME PlanInv, NEW r \in Runners, Patch(r) PROVE PlanInv'
<1>1. PICK e \in plan[r] :
        /\ \/ Unchanged(e) /\ Write(r, e) /\ UNCHANGED pc
           \/ Goto(r, "failed") /\ UNCHANGED <<pv, revision>>
        /\ plan' = [plan EXCEPT ![r] = @ \ {e}]
  BY DEF Patch
<1>2. PlansKept
  BY <1>1 DEF PlanInv, Patch, PlansKept, Goto
<1>3. CASE Unchanged(e) /\ Write(r, e) /\ UNCHANGED pc
  <2>1. e.name \in Volumes /\ NewVersion(e.name)
    BY <1>3, WriteMakesVersion
  <2> QED
    BY <1>2, <2>1, NewVersions
<1>4. CASE Goto(r, "failed") /\ UNCHANGED <<pv, revision>>
  BY <1>2, <1>4 DEF PlanInv, PlansKept, Judged, Conflicting
<1> QED
  BY <1>1, <1>3, <1>4

LEMMA LoseAnswerKeepsPlans ==
  ASSUME PlanInv, NEW r \in Runners, LoseAnswer(r) PROVE PlanInv'
<1>1. PICK e \in plan[r] : Unchanged(e) /\ Write(r, e)
  BY DEF LoseAnswer
<1>2. e.name \in Volumes /\ NewVersion(e.name)
  BY <1>1, WriteMakesVersion
<1>3. changes' \in Nat /\ mode' = mode /\ policy' = policy /\ plan' = plan
  BY DEF PlanInv, LoseAnswer, Change
<1>4. pc' = [pc EXCEPT ![r] = "failed"]
  BY DEF LoseAnswer, Goto
<1>5. pc' = [s \in Runners |-> pc'[s]] /\ \A s \in Runners : pc'[s] = "patch" => pc[s] = "patch"
  BY <1>4 DEF PlanInv
<1>6. plan' = [s \in Runners |-> plan'[s]]
  BY <1>3 DEF PlanInv
<1>7. PlansKept
  BY <1>3, <1>5, <1>6 DEF PlansKept
<1> QED
  BY <1>2, <1>7, NewVersions

\* A pod that starts has no plan yet.
LEMMA StartKeepsPlans ==
  ASSUME PlanInv, NEW r \in Runners, StartPod(r), changes' \in Nat PROVE PlanInv'
<1>1. /\ pc' = [pc EXCEPT ![r] = "list"] /\ mode' = [mode EXCEPT ![r] = policy]
      /\ plan' = [plan EXCEPT ![r] = {}] /\ UNCHANGED <<pv, revision, policy>>
  BY DEF StartPod, Goto
<1>2. \A s \in Runners : plan'[s] \subseteq plan[s] /\ (pc'[s] = "patch" => pc[s] = "patch" /\ mode'[s] = mode[s])
  BY <1>1 DEF PlanInv
<1>3. /\ plan' = [s \in Runners |-> plan'[s]] /\ pc' = [s \in Runners |-> pc'[s]]
      /\ mode' = [s \in Runners |-> mode'[s]]
  BY <1>1 DEF PlanInv
<1>4. \A s \in Runners : \A e \in plan'[s] : e \in plan[s]
  BY <1>2
<1>5. \A s \in Runners : pc'[s] = "patch" => mode'[s] \in Modes \ {"plan"}
  BY <1>2 DEF PlanInv
<1> QED
  BY <1>1, <1>3, <1>4, <1>5 DEF PlanInv, Judged, Conflicting

LEMMA SyncKeepsPlans ==
  ASSUME PlanInv, Sync PROVE PlanInv'
<1>1. changes' \in Nat /\ policy' \in Modes /\ UNCHANGED <<pv, revision>>
      /\ plan' = [s \in Runners |-> {}]
  BY DEF PlanInv, Sync, Change
<1>2. PICK r \in Runners : /\ pc' = [s \in Runners |-> IF s = r THEN "list" ELSE "off"]
                           /\ mode' = [mode EXCEPT ![r] = policy']
  BY DEF Sync
<1>3. mode' \in [Runners -> Modes] /\ \A s \in Runners : pc'[s] # "patch"
  BY <1>1, <1>2 DEF PlanInv
<1> QED
  BY <1>1, <1>2, <1>3 DEF PlanInv

\* A volume others create, edit or delete gets a new version or is gone.
LEMMA OthersKeepPlans ==
  ASSUME PlanInv, NEW n \in Volumes, Create(n) \/ Edit(n) \/ Delete(n) PROVE PlanInv'
<1>1. PlansKept
  <2>1. changes > 0 /\ changes' = changes - 1 /\ UNCHANGED <<policy, pc, mode, plan>>
    BY DEF Create, Edit, Delete, Change
  <2> QED
    BY <2>1 DEF PlanInv, PlansKept
<1>2. revision \in Nat /\ pv = [k \in Volumes |-> pv[k]]
  BY DEF PlanInv
<1>3. CASE Create(n)
  <2>1. PICK s \in Shapes :
          /\ revision' = revision + 1
          /\ pv' = [pv EXCEPT ![n] = [claim |-> s.claim, live |-> TRUE, reviewed |-> s.reviewed, opts |-> s.opts,
                                      uid |-> revision + 1, rv |-> revision + 1]]
    BY <1>3 DEF Create
  <2> QED
    BY <1>1, <1>2, <2>1, NewVersions DEF NewVersion
<1>4. CASE Edit(n)
  <2>1. PICK o \in Given, l \in BOOLEAN :
          /\ pv[n] # Absent /\ revision' = revision + 1
          /\ pv' = [pv EXCEPT ![n] = [pv[n] EXCEPT !.opts = o, !.live = l, !.rv = revision + 1]]
    BY <1>4 DEF Edit
  <2>2. "rv" \in DOMAIN pv[n]
    BY <2>1 DEF PlanInv
  <2>3. pv'[n] = [pv[n] EXCEPT !.opts = o, !.live = l, !.rv = revision + 1]
    BY <1>2, <2>1
  <2>4. pv'[n].rv = revision' /\ "rv" \in DOMAIN pv'[n]
    BY <2>1, <2>2, <2>3
  <2>5. NewVersion(n)
    BY <1>2, <2>1, <2>4 DEF NewVersion
  <2> QED
    BY <1>1, <2>5, NewVersions
<1>5. CASE Delete(n)
  <2>1. NewVersion(n)
    BY <1>2, <1>5 DEF Delete, NewVersion
  <2> QED
    BY <1>1, <2>1, NewVersions
<1> QED
  BY <1>3, <1>4, <1>5

LEMMA PlanStep == PlanInv /\ [Next]_vars => PlanInv'
<1> SUFFICES ASSUME PlanInv, [Next]_vars PROVE PlanInv'
  OBVIOUS
<1>1. ASSUME NEW r \in Runners, Run(r) PROVE PlanInv'
  <2>1. CASE Complete(r)
    BY <2>1 DEF Complete, Goto, PlanInv, Judged, Conflicting
  <2> QED
    BY <1>1, <2>1, ListKeepsPlans, PatchKeepsPlans DEF Run
<1>2. ASSUME NEW r \in Runners, LoseAnswer(r) PROVE PlanInv'
  BY <1>2, LoseAnswerKeepsPlans
<1>3. ASSUME NEW r \in Runners, Retry(r) \/ Replace(r) PROVE PlanInv'
  <2>1. StartPod(r) /\ changes' \in Nat
    BY <1>3 DEF Retry, Replace, Change, PlanInv
  <2> QED
    BY <2>1, StartKeepsPlans
<1>4. CASE Sync
  BY <1>4, SyncKeepsPlans
<1>5. ASSUME NEW n \in Volumes, Create(n) \/ Edit(n) \/ Delete(n) PROVE PlanInv'
  BY <1>5, OthersKeepPlans
<1>7. CASE Deadline
  BY <1>7 DEF Deadline, Idle, PlanInv, Judged, Conflicting
<1>6. CASE UNCHANGED vars
  BY <1>6 DEF vars, pods, PlanInv, Judged, Conflicting
<1> QED
  BY <1>1, <1>2, <1>3, <1>4, <1>5, <1>6, <1>7 DEF Next

-----------------------------------------------------------------------------

\* Others' changes and lost answers count as changes; without one only a patch writes, and
\* what it writes is the volume that was judged.
LEMMA OnlyJudgedWrites ==
  ASSUME PlanInv, [Next]_vars, changes' = changes, NEW n \in Volumes, pv'[n] # pv[n]
  PROVE  /\ n \in Targets /\ pv[n].reviewed /\ ~Conflicting(pv[n])
         /\ \E m \in Modes \ {"plan"} :
              pv'[n] = [pv[n] EXCEPT !.opts = Desired(m, @), !.rv = pv'[n].rv]
<1>1. ~Change
  BY DEF Change, PlanInv
<1>2. PICK r \in Runners : Patch(r)
  BY <1>1 DEF Next, vars, Run, List, Complete, LoseAnswer, Retry, Replace, StartPod, Deadline, Sync, Create, Edit, Delete
<1>3. PICK e \in plan[r] : Unchanged(e) /\ Write(r, e)
  BY <1>2 DEF Patch
<1>4. n = e.name
  BY <1>3, WriteMakesVersion DEF NewVersion
<1>5. mode[r] \in Modes \ {"plan"}
  BY <1>2 DEF Patch, PlanInv
<1>6. pv[n] # Absent
  BY <1>3, <1>4 DEF Unchanged
<1>7. /\ Judged(pv[n]) /\ pv'[n].rv = revision'
      /\ pv'[n] = [pv[n] EXCEPT !.opts = Desired(mode[r], @), !.rv = revision']
  BY <1>3, <1>4, WriteMakesVersion
<1> QED
  BY <1>5, <1>6, <1>7 DEF Judged, Targets

\* However pods overlap, volumes are replaced and answers get lost, a patch changes only a
\* volume that is selected and reviewed when it is written, and only its options.
THEOREM WritesAreJudged ==
  ASSUME Changes \in Nat PROVE Spec => WritesAsJudged
<1>1. Init => PlanInv
  BY PlanInit
<1>2. PlanInv /\ [Next]_vars =>
        [\A n \in Volumes : pv'[n] # pv[n] /\ changes' = changes =>
           /\ n \in Targets /\ pv[n].reviewed /\ ~Conflicting(pv[n])
           /\ \E m \in Modes \ {"plan"} :
                pv'[n] = [pv[n] EXCEPT !.opts = Desired(m, @), !.rv = pv'[n].rv]]_vars
  BY OnlyJudgedWrites
<1> QED
  BY <1>1, <1>2, PlanStep, PTL DEF Spec, WritesAsJudged

-----------------------------------------------------------------------------

Volume == [claim : Claims \cup {Other}, live : BOOLEAN, reviewed : BOOLEAN, opts : OptionLists,
           uid : Nat, rv : Nat]

TypeInv ==
  /\ revision \in Nat
  /\ \A n \in Volumes : pv[n] # Absent =>
       pv[n] \in Volume /\ pv[n].uid <= pv[n].rv /\ pv[n].rv <= revision
  /\ policy \in Modes /\ attempts \in 0 .. Backoff + 1 /\ changes \in 0 .. Changes
  /\ pc \in [Runners -> {"off", "list", "patch", "done", "failed"}]
  /\ mode \in [Runners -> Modes] /\ current \in [Runners -> BOOLEAN]

\* All that is left to change is in the plan.
Covers(r) == ~Refused /\ \A n \in ToChange(policy) : \E e \in plan[r] : e.name = n

\* Pods of an older policy are gone.  One that listed after all changes by others has the
\* whole rest of the work in its plan, whichever pod does it, and when it is done there is
\* none.
CompleteInv ==
  /\ \A r \in Runners : pc[r] # "off" => mode[r] = policy
  /\ \A r \in Runners : current[r] /\ pc[r] = "patch" => Covers(r)
  /\ \A r \in Runners : current[r] /\ pc[r] = "done" => Converged

CompleteOk == PlanInv /\ TypeInv /\ CompleteInv

VolumesTyped ==
  \A n \in Volumes : pv[n] # Absent =>
    pv[n] \in Volume /\ pv[n].uid <= pv[n].rv /\ pv[n].rv <= revision

LEMMA CompleteInit ==
  ASSUME Changes \in Nat, Backoff \in Nat PROVE Init => CompleteOk
<1> SUFFICES ASSUME Init PROVE CompleteOk
  OBVIOUS
<1>1. PlanInv
  BY PlanInit
<1>2. TypeInv
  BY DEF Init, TypeInv, Modes
<1>3. CompleteInv
  BY DEF Init, CompleteInv
<1> QED
  BY <1>1, <1>2, <1>3 DEF CompleteOk

LEMMA DesiredTyped ==
  ASSUME NEW m, NEW o \in OptionLists PROVE Desired(m, o) \in OptionLists
<1>1. CASE m = "remove"
  BY <1>1 DEF Desired, OptionLists
<1>2. CASE m # "remove"
  BY <1>2 DEF Desired, OptionLists
<1> QED
  BY <1>1, <1>2

\* A second time changes nothing.
LEMMA DesiredTwice ==
  ASSUME NEW m, NEW o \in OptionLists PROVE Desired(m, Desired(m, o)) = Desired(m, o)
  BY DEF Desired, OptionLists

\* A write changes the options of one volume, to what they are to be.
LEMMA WriteTyped ==
  ASSUME PlanInv, TypeInv, NEW r \in Runners, NEW e \in plan[r], Unchanged(e), Write(r, e)
  PROVE  /\ VolumesTyped' /\ revision' \in Nat
         /\ e.name \in Volumes /\ pv[e.name] # Absent
         /\ \A k \in Volumes \ {e.name} : pv'[k] = pv[k]
         /\ pv'[e.name] # Absent
         /\ \A f \in {"claim", "live", "reviewed", "uid"} : pv'[e.name][f] = pv[e.name][f]
         /\ pv'[e.name].opts = Desired(mode[r], pv[e.name].opts)
<1> DEFINE n == e.name
<1>1. /\ n \in Volumes /\ NewVersion(n)
      /\ pv'[n] = [pv[n] EXCEPT !.opts = Desired(mode[r], @), !.rv = revision']
  BY WriteMakesVersion
<1>2. pv[n] # Absent /\ revision' = revision + 1 /\ revision \in Nat
  BY DEF Unchanged, Write, TypeInv
<1>3. pv[n] \in Volume /\ pv[n].uid <= pv[n].rv /\ pv[n].rv <= revision
  BY <1>1, <1>2 DEF TypeInv
<1>4. Desired(mode[r], pv[n].opts) \in OptionLists
  BY <1>3, DesiredTyped DEF Volume
<1>5. /\ pv'[n] \in Volume /\ pv'[n].uid = pv[n].uid /\ pv'[n].rv = revision + 1
      /\ pv'[n].claim = pv[n].claim /\ pv'[n].live = pv[n].live /\ pv'[n].reviewed = pv[n].reviewed
      /\ pv'[n].opts = Desired(mode[r], pv[n].opts)
  <2>1. /\ pv'[n].claim = pv[n].claim /\ pv'[n].live = pv[n].live /\ pv'[n].reviewed = pv[n].reviewed
        /\ pv'[n].uid = pv[n].uid
    BY <1>1, <1>3 DEF Volume
  <2>2. pv'[n].opts = Desired(mode[r], pv[n].opts) /\ pv'[n].rv = revision + 1
    BY <1>1, <1>2, <1>3 DEF Volume
  <2>3. pv'[n] = [claim |-> pv[n].claim, live |-> pv[n].live, reviewed |-> pv[n].reviewed,
                  opts |-> Desired(mode[r], pv[n].opts), uid |-> pv[n].uid, rv |-> revision + 1]
    BY <1>1, <1>2, <1>3 DEF Volume
  <2>4. revision + 1 \in Nat
    BY <1>2
  <2>5. pv'[n] \in Volume
    BY <1>3, <1>4, <2>3, <2>4 DEF Volume
  <2> QED
    BY <2>1, <2>2, <2>5
<1>6. \A k \in Volumes \ {n} : pv'[k] = pv[k]
  BY <1>1 DEF NewVersion
<1>7. VolumesTyped'
  <2> SUFFICES ASSUME NEW k \in Volumes, pv'[k] # Absent
               PROVE  pv'[k] \in Volume /\ pv'[k].uid <= pv'[k].rv /\ pv'[k].rv <= revision'
    BY DEF VolumesTyped
  <2>1. CASE k = n
    BY <1>2, <1>3, <1>5, <2>1 DEF Volume
  <2>2. CASE k # n
    <3>1. pv[k] \in Volume /\ pv[k].uid <= pv[k].rv /\ pv[k].rv <= revision /\ pv'[k] = pv[k]
      BY <1>6, <2>2 DEF TypeInv
    <3> QED
      BY <1>2, <3>1 DEF Volume
  <2> QED
    BY <2>1, <2>2
<1>8. pv'[n] # Absent
  BY <1>5 DEF Volume, Absent
<1>9. \A f \in {"claim", "live", "reviewed", "uid"} : pv'[n][f] = pv[n][f]
  BY <1>5
<1> QED
  BY <1>1, <1>2, <1>5, <1>6, <1>7, <1>8, <1>9

LEMMA TypeRun ==
  ASSUME PlanInv, TypeInv, Changes \in Nat, NEW r \in Runners, Run(r) \/ LoseAnswer(r) PROVE TypeInv'
<1>1. CASE List(r)
  BY <1>1 DEF List, TypeInv, Goto
<1>2. CASE Complete(r)
  BY <1>2 DEF Complete, TypeInv, Goto
<1>3. CASE Patch(r)
  <2>1. PICK e \in plan[r] :
          \/ Unchanged(e) /\ Write(r, e) /\ UNCHANGED pc
          \/ Goto(r, "failed") /\ UNCHANGED <<pv, revision>>
    BY <1>3 DEF Patch
  <2>2. UNCHANGED <<policy, attempts, mode, current, changes>>
    BY <1>3 DEF Patch
  <2>3. CASE Unchanged(e) /\ Write(r, e) /\ UNCHANGED pc
    <3>1. VolumesTyped' /\ revision' \in Nat
      BY <2>3, WriteTyped
    <3> QED
      BY <2>2, <2>3, <3>1 DEF TypeInv, VolumesTyped
  <2>4. CASE Goto(r, "failed") /\ UNCHANGED <<pv, revision>>
    BY <2>2, <2>4 DEF TypeInv, Goto
  <2> QED
    BY <2>1, <2>3, <2>4
<1>4. CASE LoseAnswer(r)
  <2>1. PICK e \in plan[r] : Unchanged(e) /\ Write(r, e)
    BY <1>4 DEF LoseAnswer
  <2>2. VolumesTyped' /\ revision' \in Nat
    BY <2>1, WriteTyped
  <2>3. changes' \in 0 .. Changes
    BY <1>4 DEF LoseAnswer, Change, TypeInv
  <2> QED
    BY <1>4, <2>2, <2>3 DEF LoseAnswer, TypeInv, VolumesTyped, Goto
<1> QED
  BY <1>1, <1>2, <1>3, <1>4 DEF Run

LEMMA TypeStart ==
  ASSUME TypeInv, Changes \in Nat, Backoff \in Nat, NEW r \in Runners, Retry(r) \/ Replace(r) PROVE TypeInv'
<1>1. StartPod(r) /\ changes' \in 0 .. Changes
  <2>1. StartPod(r) /\ (UNCHANGED changes \/ Change)
    BY DEF Retry, Replace
  <2> QED
    BY <2>1 DEF Change, TypeInv
<1>2. attempts' \in 0 .. Backoff + 1
  BY <1>1 DEF StartPod, TypeInv
<1>3. pc' \in [Runners -> {"off", "list", "patch", "done", "failed"}] /\ mode' \in [Runners -> Modes]
  BY <1>1 DEF StartPod, TypeInv, Goto
<1> QED
  BY <1>1, <1>2, <1>3 DEF StartPod, TypeInv

LEMMA TypeSync ==
  ASSUME TypeInv, Changes \in Nat, Backoff \in Nat, Sync PROVE TypeInv'
<1>1. changes' \in 0 .. Changes /\ attempts' \in 0 .. Backoff + 1 /\ policy' \in Modes
  BY DEF Sync, Change, TypeInv
<1>2. PICK r \in Runners :
        /\ pc' = [s \in Runners |-> IF s = r THEN "list" ELSE "off"]
        /\ mode' = [mode EXCEPT ![r] = policy']
  BY DEF Sync
<1>3. current' \in [Runners -> BOOLEAN]
  BY DEF Sync, Stale
<1>4. mode' \in [Runners -> Modes]
  BY <1>1, <1>2 DEF TypeInv
<1> QED
  BY <1>1, <1>2, <1>3, <1>4 DEF Sync, TypeInv

LEMMA TypeOthers ==
  ASSUME TypeInv, Changes \in Nat, pv = [k \in Volumes |-> pv[k]],
         Given \subseteq OptionLists,
         NEW n \in Volumes, Create(n) \/ Edit(n) \/ Delete(n)
  PROVE TypeInv'
<1>1. changes' \in 0 .. Changes /\ current' \in [Runners -> BOOLEAN]
  <2>1. Change /\ Stale
    BY DEF Create, Edit, Delete
  <2> QED
    BY <2>1 DEF Change, Stale, TypeInv
<1>2. UNCHANGED <<policy, attempts, pc, mode>>
  BY DEF Create, Edit, Delete
<1>3. /\ revision \in Nat /\ revision' \in Nat /\ revision <= revision'
      /\ \A k \in Volumes \ {n} : pv'[k] = pv[k]
  <2>1. revision \in Nat /\ revision' \in {revision, revision + 1}
    BY DEF Create, Edit, Delete, TypeInv
  <2>2. \E v : pv' = [pv EXCEPT ![n] = v]
    BY DEF Create, Edit, Delete
  <2> QED
    BY <2>1, <2>2
<1>4. pv'[n] # Absent => pv'[n] \in Volume /\ pv'[n].uid <= pv'[n].rv /\ pv'[n].rv <= revision'
  <2>1. CASE Create(n)
    <3>1. PICK s \in Shapes :
            pv' = [pv EXCEPT ![n] = [claim |-> s.claim, live |-> TRUE, reviewed |-> s.reviewed, opts |-> s.opts,
                                     uid |-> revision + 1, rv |-> revision + 1]]
      BY <2>1 DEF Create
    <3>2. pv'[n] = [claim |-> s.claim, live |-> TRUE, reviewed |-> s.reviewed, opts |-> s.opts,
                    uid |-> revision + 1, rv |-> revision + 1]
      BY <3>1
    <3>3. revision' = revision + 1
      BY <2>1 DEF Create
    <3> QED
      BY <1>3, <3>2, <3>3 DEF Shapes, Volume
  <2>2. CASE Edit(n)
    <3>1. PICK o \in Given, l \in BOOLEAN :
            pv' = [pv EXCEPT ![n] = [@ EXCEPT !.opts = o, !.live = l, !.rv = revision + 1]]
      BY <2>2 DEF Edit
    <3>2. pv'[n] = [pv[n] EXCEPT !.opts = o, !.live = l, !.rv = revision + 1]
      BY <3>1
    <3>3. revision' = revision + 1 /\ pv[n] \in Volume /\ pv[n].uid <= pv[n].rv /\ pv[n].rv <= revision
      BY <2>2 DEF Edit, TypeInv
    <3> QED
      <4>1. pv'[n] = [claim |-> pv[n].claim, live |-> l, reviewed |-> pv[n].reviewed,
                      opts |-> o, uid |-> pv[n].uid, rv |-> revision + 1]
        BY <3>2, <3>3 DEF Volume
      <4>2. o \in OptionLists /\ revision + 1 \in Nat
        BY <1>3
      <4>3. pv'[n] \in Volume
        BY <3>3, <4>1, <4>2 DEF Volume
      <4>4. pv'[n].uid = pv[n].uid /\ pv'[n].rv = revision + 1
        BY <4>1
      <4>5. pv[n].uid \in Nat /\ pv[n].rv \in Nat
        BY <3>3 DEF Volume
      <4> QED
        BY <1>3, <3>3, <4>3, <4>4, <4>5
  <2>3. CASE Delete(n)
    BY <2>3 DEF Delete
  <2> QED
    BY <2>1, <2>2, <2>3
<1>5. VolumesTyped'
  <2> SUFFICES ASSUME NEW k \in Volumes, pv'[k] # Absent
               PROVE  pv'[k] \in Volume /\ pv'[k].uid <= pv'[k].rv /\ pv'[k].rv <= revision'
    BY DEF VolumesTyped
  <2>1. CASE k # n
    <3>1. pv[k] \in Volume /\ pv[k].uid <= pv[k].rv /\ pv[k].rv <= revision /\ pv'[k] = pv[k]
      BY <1>3, <2>1 DEF TypeInv
    <3> QED
      BY <1>3, <3>1 DEF Volume
  <2> QED
    BY <1>4, <2>1
<1> QED
  BY <1>1, <1>2, <1>3, <1>5 DEF TypeInv, VolumesTyped

LEMMA TypeStep ==
  ASSUME Changes \in Nat, Backoff \in Nat, Given \subseteq OptionLists
  PROVE  PlanInv /\ TypeInv /\ [Next]_vars => TypeInv'
<1> SUFFICES ASSUME PlanInv, TypeInv, [Next]_vars PROVE TypeInv'
  OBVIOUS
<1>1. ASSUME NEW r \in Runners, Run(r) \/ LoseAnswer(r) PROVE TypeInv'
  BY <1>1, TypeRun
<1>2. ASSUME NEW r \in Runners, Retry(r) \/ Replace(r) PROVE TypeInv'
  BY <1>2, TypeStart
<1>3. CASE Sync
  BY <1>3, TypeSync
<1>4. ASSUME NEW n \in Volumes, Create(n) \/ Edit(n) \/ Delete(n) PROVE TypeInv'
  <2>1. pv = [k \in Volumes |-> pv[k]]
    BY DEF PlanInv
  <2> QED
    BY <1>4, <2>1, TypeOthers
<1>5. CASE UNCHANGED vars
  BY <1>5 DEF vars, pods, TypeInv
<1>6. CASE Deadline
  <2>1. attempts' = 0 /\ pc' \in [Runners -> {"off", "list", "patch", "done", "failed"}]
    BY <1>6 DEF Deadline, TypeInv
  <2> QED
    BY <1>6, <2>1 DEF Deadline, TypeInv
<1> QED
  BY <1>1, <1>2, <1>3, <1>4, <1>5, <1>6 DEF Next

\* A write under the current policy does a part of the work, and makes nothing refused.
LEMMA WriteConverges ==
  ASSUME PlanInv, TypeInv, NEW r \in Runners, NEW e \in plan[r], Unchanged(e), Write(r, e),
         mode[r] = policy, policy' = policy
  PROVE  /\ Refused' <=> Refused
         /\ ToChange(policy)' \subseteq ToChange(policy) \ {e.name}
<1> DEFINE n == e.name
<1>1. /\ n \in Volumes /\ pv[n] # Absent /\ pv'[n] # Absent
      /\ \A k \in Volumes \ {n} : pv'[k] = pv[k]
      /\ pv'[n].opts = Desired(policy, pv[n].opts)
  BY WriteTyped
<1>2. pv'[n].claim = pv[n].claim /\ pv'[n].live = pv[n].live /\ pv'[n].reviewed = pv[n].reviewed
  BY WriteTyped
<1>3. pv[n].opts \in OptionLists
  BY <1>1 DEF TypeInv, Volume
<1>4. pv'[n].opts.others = pv[n].opts.others
  BY <1>1, <1>3 DEF Desired, OptionLists
<1>5. \A k \in Volumes :
        /\ pv'[k] # Absent <=> pv[k] # Absent
        /\ pv'[k].claim = pv[k].claim /\ pv'[k].live = pv[k].live /\ pv'[k].reviewed = pv[k].reviewed
        /\ pv'[k].opts.others = pv[k].opts.others
  BY <1>1, <1>2, <1>4
<1>6. Targets' = Targets
  BY <1>5 DEF Targets
<1>7. Refused' <=> Refused
  BY <1>5, <1>6 DEF Refused, Conflicting, Targets
<1>8. Desired(policy, pv'[n].opts) = pv'[n].opts
  BY <1>1, <1>3, DesiredTwice
<1>9. n \notin ToChange(policy)'
  BY <1>8 DEF ToChange
<1>10. ASSUME NEW k \in ToChange(policy)', k # n PROVE k \in ToChange(policy)
  <2>1. k \in Targets /\ Desired(policy, pv'[k].opts) # pv'[k].opts
    BY <1>6, <1>10 DEF ToChange
  <2>2. pv'[k] = pv[k]
    BY <1>1, <1>10, <2>1 DEF Targets
  <2> QED
    BY <2>1, <2>2 DEF ToChange
<1> QED
  BY <1>7, <1>9, <1>10

\* Whoever does it, work that is done needs no doing.
LEMMA CoverKept ==
  ASSUME NEW r \in Runners, NEW x, Covers(r), policy' = policy, Refused' <=> Refused,
         ToChange(policy)' \subseteq ToChange(policy) \ {x},
         \A e \in plan[r] : e.name # x => e \in plan'[r]
  PROVE  Covers(r)'
<1>1. ~Refused'
  BY DEF Covers
<1>2. ASSUME NEW n \in ToChange(policy)' PROVE \E e \in plan'[r] : e.name = n
  <2>1. n \in ToChange(policy) /\ n # x
    BY <1>2
  <2>2. PICK e \in plan[r] : e.name = n
    BY <2>1 DEF Covers
  <2> QED
    BY <2>1, <2>2
<1> QED
  BY <1>1, <1>2 DEF Covers

\* A write by any pod.
LEMMA CompleteWrite ==
  ASSUME CompleteOk, NEW r \in Runners, NEW e \in plan[r], Unchanged(e), Write(r, e), pc[r] = "patch",
         UNCHANGED <<policy, mode, current>>,
         \A s \in Runners : pc'[s] = pc[s] \/ (pc'[s] = "failed" /\ pc[s] = "patch"),
         \A s \in Runners : \A d \in plan[s] : d.name # e.name => d \in plan'[s]
  PROVE  CompleteInv'
<1>1. mode[r] = policy
  BY DEF CompleteOk, CompleteInv
<1>2. (Refused' <=> Refused) /\ ToChange(policy)' \subseteq ToChange(policy) \ {e.name}
  BY <1>1, WriteConverges DEF CompleteOk
<1>3. \A s \in Runners : pc'[s] # "off" => mode'[s] = policy'
  BY DEF CompleteOk, CompleteInv
<1>4. ASSUME NEW s \in Runners, current'[s], pc'[s] = "patch" PROVE Covers(s)'
  <2>1. Covers(s)
    BY <1>4 DEF CompleteOk, CompleteInv
  <2> QED
    BY <1>2, <2>1, CoverKept
<1>5. ASSUME NEW s \in Runners, current'[s], pc'[s] = "done" PROVE Converged'
  <2>1. Converged
    BY <1>5 DEF CompleteOk, CompleteInv
  <2>2. CASE policy = "plan"
    BY <2>2 DEF Converged
  <2>3. CASE ToChange(policy) = {}
    <3>1. ToChange(policy)' = {}
      BY <1>2, <2>3
    <3> QED
      BY <3>1 DEF Converged
  <2>4. CASE Refused
    BY <1>2, <2>4 DEF Converged
  <2> QED
    BY <2>1, <2>2, <2>3, <2>4 DEF Converged
<1> QED
  BY <1>3, <1>4, <1>5 DEF CompleteInv

LEMMA CompleteRun ==
  ASSUME CompleteOk, NEW r \in Runners, Run(r) \/ LoseAnswer(r) PROVE CompleteInv'
<1>0. /\ pc \in [Runners -> {"off", "list", "patch", "done", "failed"}]
      /\ current \in [Runners -> BOOLEAN] /\ plan = [s \in Runners |-> plan[s]]
  BY DEF CompleteOk, TypeInv, PlanInv
<1>1. CASE List(r)
  <2>1. UNCHANGED <<pv, revision, policy, mode, changes>> /\ pc[r] = "list" /\ mode[r] = policy
    BY <1>1 DEF List, CompleteOk, CompleteInv
  <2>2. /\ Refused' <=> Refused
        /\ ToChange(policy)' = ToChange(policy)
        /\ Converged' <=> Converged
    BY <2>1 DEF Refused, ToChange, Targets, Conflicting, Converged
  <2>3. \A s \in Runners \ {r} : pc'[s] = pc[s] /\ current'[s] = current[s] /\ plan'[s] = plan[s]
    BY <1>0, <1>1 DEF List, Goto
  <2>4. ASSUME NEW s \in Runners, s # r
        PROVE  /\ pc'[s] # "off" => mode'[s] = policy'
               /\ current'[s] /\ pc'[s] = "patch" => Covers(s)'
               /\ current'[s] /\ pc'[s] = "done" => Converged'
    BY <2>1, <2>2, <2>3, <2>4 DEF CompleteOk, CompleteInv, Covers
  <2>5. CASE Refused
    BY <1>0, <1>1, <2>1, <2>4, <2>5 DEF List, Goto, CompleteInv
  <2>6. CASE ~Refused
    <3>1. /\ plan' = [plan EXCEPT ![r] = {[name |-> n, seen |-> pv[n]] : n \in ToChange(policy)}]
          /\ pc' = [pc EXCEPT ![r] = IF mode[r] = "plan" THEN "done" ELSE "patch"]
      BY <1>1, <2>1, <2>6 DEF List, Goto
    <3>2. plan'[r] = {[name |-> n, seen |-> pv[n]] : n \in ToChange(policy)}
      BY <1>0, <3>1
    <3>3. Covers(r)'
      <4>1. ASSUME NEW n \in ToChange(policy)' PROVE \E e \in plan'[r] : e.name = n
        <5>1. [name |-> n, seen |-> pv[n]] \in plan'[r]
          BY <2>2, <3>2
        <5> QED
          BY <5>1
      <4> QED
        BY <2>2, <2>6, <4>1 DEF Covers
    <3>4. pc'[r] = "done" => Converged'
      <4>1. pc'[r] = "done" => policy' = "plan"
        BY <1>0, <2>1, <3>1
      <4> QED
        BY <4>1 DEF Converged
    <3> QED
      BY <2>1, <2>4, <3>3, <3>4 DEF CompleteInv
  <2> QED
    BY <2>5, <2>6
<1>2. CASE Complete(r)
  <2>1. /\ UNCHANGED <<pv, revision, policy, attempts, mode, plan, current, changes>>
        /\ pc[r] = "patch" /\ plan[r] = {} /\ pc' = [pc EXCEPT ![r] = "done"]
    BY <1>2 DEF Complete, Goto
  <2>2. /\ Refused' <=> Refused
        /\ ToChange(policy)' = ToChange(policy)
        /\ Converged' <=> Converged
    BY <2>1 DEF Refused, ToChange, Targets, Conflicting, Converged
  <2>3. \A s \in Runners : Covers(s) => Covers(s)'
    BY <2>1, <2>2 DEF Covers
  <2>4. pc'[r] = "done" /\ \A s \in Runners \ {r} : pc'[s] = pc[s]
    BY <1>0, <2>1
  <2>5. current[r] => Converged
    BY <2>1 DEF CompleteOk, CompleteInv, Covers, Converged
  <2> QED
    BY <2>1, <2>2, <2>3, <2>4, <2>5 DEF CompleteOk, CompleteInv
<1>3. CASE Patch(r)
  <2>1. PICK e \in plan[r] :
          /\ \/ Unchanged(e) /\ Write(r, e) /\ UNCHANGED pc
             \/ Goto(r, "failed") /\ UNCHANGED <<pv, revision>>
          /\ plan' = [plan EXCEPT ![r] = @ \ {e}]
    BY <1>3 DEF Patch
  <2>2. pc[r] = "patch" /\ UNCHANGED <<policy, attempts, mode, current, changes>>
    BY <1>3 DEF Patch
  <2>3. CASE Unchanged(e) /\ Write(r, e) /\ UNCHANGED pc
    <3>1. \A s \in Runners : \A d \in plan[s] : d.name # e.name => d \in plan'[s]
      BY <1>0, <2>1
    <3>2. \A s \in Runners : pc'[s] = pc[s]
      BY <2>3
    <3> QED
      BY <2>2, <2>3, <3>1, <3>2, CompleteWrite
  <2>4. CASE Goto(r, "failed") /\ UNCHANGED <<pv, revision>>
    <3>1. /\ Refused' <=> Refused
          /\ ToChange(policy)' = ToChange(policy)
          /\ Converged' <=> Converged
      BY <2>2, <2>4 DEF Refused, ToChange, Targets, Conflicting, Converged
    <3>2. pc'[r] = "failed" /\ \A s \in Runners \ {r} : pc'[s] = pc[s] /\ plan'[s] = plan[s]
      BY <1>0, <2>1, <2>4 DEF Goto
    <3>3. \A s \in Runners \ {r} : Covers(s) => Covers(s)'
      BY <2>2, <3>1, <3>2 DEF Covers
    <3>4. mode[r] = policy
      BY <2>2 DEF CompleteOk, CompleteInv
    <3> QED
      BY <2>2, <3>1, <3>2, <3>3, <3>4 DEF CompleteOk, CompleteInv
  <2> QED
    BY <2>1, <2>3, <2>4
<1>4. CASE LoseAnswer(r)
  <2>1. PICK e \in plan[r] : Unchanged(e) /\ Write(r, e)
    BY <1>4 DEF LoseAnswer
  <2>2. pc[r] = "patch" /\ pc' = [pc EXCEPT ![r] = "failed"] /\ UNCHANGED <<policy, attempts, mode, plan, current>>
    BY <1>4 DEF LoseAnswer, Goto
  <2>3. \A s \in Runners : pc'[s] = pc[s] \/ (pc'[s] = "failed" /\ pc[s] = "patch")
    BY <1>0, <2>2
  <2> QED
    BY <2>1, <2>2, <2>3, CompleteWrite
<1> QED
  BY <1>1, <1>2, <1>3, <1>4 DEF Run

LEMMA CompleteStep ==
  ASSUME Changes \in Nat, Backoff \in Nat, Given \subseteq OptionLists
  PROVE  CompleteOk /\ [Next]_vars => CompleteOk'
<1> SUFFICES ASSUME CompleteOk, [Next]_vars PROVE CompleteInv'
  BY PlanStep, TypeStep DEF CompleteOk
<1>0. /\ pc \in [Runners -> {"off", "list", "patch", "done", "failed"}]
      /\ mode \in [Runners -> Modes]
  BY DEF CompleteOk, TypeInv
<1>1. ASSUME NEW r \in Runners, Run(r) \/ LoseAnswer(r) PROVE CompleteInv'
  BY <1>1, CompleteRun
<1>2. ASSUME NEW r \in Runners, Retry(r) \/ Replace(r) PROVE CompleteInv'
  <2>1. /\ UNCHANGED <<pv, revision, policy, current>>
        /\ pc' = [pc EXCEPT ![r] = "list"] /\ mode' = [mode EXCEPT ![r] = policy]
        /\ plan' = [plan EXCEPT ![r] = {}]
    BY <1>2 DEF Retry, Replace, StartPod, Goto
  <2>2. /\ Refused' <=> Refused
        /\ ToChange(policy)' = ToChange(policy)
        /\ Converged' <=> Converged
    BY <2>1 DEF Refused, ToChange, Targets, Conflicting, Converged
  <2>3. /\ pc'[r] = "list" /\ mode'[r] = policy
        /\ \A s \in Runners \ {r} : pc'[s] = pc[s] /\ mode'[s] = mode[s] /\ plan'[s] = plan[s]
    BY <1>0, <2>1 DEF CompleteOk, PlanInv
  <2>4. \A s \in Runners \ {r} : Covers(s) => Covers(s)'
    BY <2>1, <2>2, <2>3 DEF Covers
  <2> QED
    BY <2>1, <2>2, <2>3, <2>4 DEF CompleteOk, CompleteInv
<1>3. ASSUME NEW r \in Runners, Stale PROVE ~current'[r]
  BY <1>3 DEF Stale
<1>4. CASE Sync
  <2>1. PICK r \in Runners :
          /\ pc' = [s \in Runners |-> IF s = r THEN "list" ELSE "off"]
          /\ mode' = [mode EXCEPT ![r] = policy']
    BY <1>4 DEF Sync
  <2>2. \A s \in Runners : pc'[s] # "off" => mode'[s] = policy'
    BY <1>0, <2>1
  <2> QED
    BY <1>3, <1>4, <2>2 DEF Sync, CompleteInv
<1>5. ASSUME NEW n \in Volumes, Create(n) \/ Edit(n) \/ Delete(n) PROVE CompleteInv'
  <2>1. Stale /\ UNCHANGED <<policy, pc, mode>>
    BY <1>5 DEF Create, Edit, Delete
  <2> QED
    BY <1>3, <2>1 DEF CompleteOk, CompleteInv
<1>7. CASE Deadline
  <2>1. UNCHANGED <<pv, policy, mode, plan, current>>
    BY <1>7 DEF Deadline
  <2>2. \A s \in Runners : pc'[s] = pc[s] \/ (pc'[s] = "failed" /\ pc[s] # "off")
    BY <1>7 DEF Deadline, Idle
  <2>3. /\ Refused' <=> Refused
        /\ ToChange(policy)' = ToChange(policy)
        /\ Converged' <=> Converged
    BY <2>1 DEF Refused, ToChange, Targets, Conflicting, Converged
  <2>4. \A s \in Runners : Covers(s) => Covers(s)'
    BY <2>1, <2>3 DEF Covers
  <2> QED
    BY <2>1, <2>2, <2>3, <2>4 DEF CompleteOk, CompleteInv
<1>6. CASE UNCHANGED vars
  <2>1. UNCHANGED <<pv, policy, pc, mode, plan, current>>
    BY <1>6 DEF vars, pods
  <2>2. /\ Refused' <=> Refused
        /\ ToChange(policy)' = ToChange(policy)
        /\ Converged' <=> Converged
    BY <2>1 DEF Refused, ToChange, Targets, Conflicting, Converged
  <2>3. \A s \in Runners : Covers(s) => Covers(s)'
    BY <2>1, <2>2 DEF Covers
  <2> QED
    BY <2>1, <2>2, <2>3 DEF CompleteOk, CompleteInv
<1> QED
  BY <1>1, <1>2, <1>4, <1>5, <1>6, <1>7 DEF Next

\* The state of the Job, of its pods and of the volumes has its type: no pod is started
\* beyond backoffLimit, no volume has a version that was not handed out.
THEOREM JobTyped ==
  ASSUME Changes \in Nat, Backoff \in Nat, Given \subseteq OptionLists PROVE Spec => []TypeOK
<1>1. CompleteOk => TypeOK
  BY DEF CompleteOk, TypeInv, TypeOK, Volume
<1> QED
  BY <1>1, CompleteInit, CompleteStep, PTL DEF Spec

\* However pods overlap and whichever of them does the work: a Job that is complete has
\* left no volume behind that its policy selects, if nobody else changed one.
THEOREM CompleteIsConverged ==
  ASSUME Changes \in Nat, Backoff \in Nat, Given \subseteq OptionLists
  PROVE  Spec => []CompleteMeansConverged
<1>1. CompleteOk => CompleteMeansConverged
  BY DEF CompleteOk, CompleteInv, CompleteMeansConverged
<1> QED
  BY <1>1, CompleteInit, CompleteStep, PTL DEF Spec
=============================================================================
