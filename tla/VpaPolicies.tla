------------------------------ MODULE VpaPolicies ------------------------------
(***************************************************************************)
(* What the autoscaler policies of the repository may be                   *)
(* (scripts/validate-vpa-policies.py).  CI accepts a commit only when the  *)
(* rendered objects pass; the model lets the repository move from one      *)
(* accepted state to the next.  An object is a record                      *)
(*   workload  key, containers, on (replicas # 0)                          *)
(*   vpa       key of its target, id, mode, policies per container         *)
(*   hpa       key of its target: it scales by CPU utilization             *)
(*   exempt    key, exact (or by a name pattern), in the list of coverage  *)
(*             exemptions or the one of workload exemptions                *)
(* of that kind, a key a namespace, "" when it is not rendered, and a name.*)
(***************************************************************************)
EXTENDS Naturals, FiniteSets

CONSTANTS
  Objects,   \* what commits may add
  Excluded,  \* namespaceExemptions
  Commits    \* bound: commits

VARIABLES
  repo,   \* the rendered objects, each with the commit that brought it
  commit  \* the number of commits so far

vars == <<repo, commit>>

TypeOK == DOMAIN repo \subseteq Objects /\ commit \in 0 .. Commits /\ \A o \in DOMAIN repo : repo[o] \in 1 .. commit

Kind(objs, kind) == {o \in objs : o.is = kind}

-----------------------------------------------------------------------------
(* The validator *)

\* A rendered object without a namespace matches the exemption for any.
MatchesException(key, e) ==
  /\ key.ns \in {"", e.key.ns}
  /\ key.name = e.key.name

\* ... and a target exists when it, or just that name without a namespace, is rendered.
TargetExists(key, objs) ==
  \E w \in Kind(objs, "workload") : w.key.name = key.name /\ w.key.ns \in {"", key.ns}

Controlling(vpa) == {p \in vpa.policies : ~p.off}

CpuControlled(vpa) == \E p \in Controlling(vpa) : "cpu" \in p.resources

MemoryOnly(vpa) == Controlling(vpa) # {} /\ \A p \in Controlling(vpa) : p.resources = {"memory"}

\* Both kinds of scaler default to a Deployment in their own namespace.
HpaCpuTargets(objs) == {h.key : h \in Kind(objs, "hpa")}

\* Update mode and minimum replicas; requests, never limits.
UnsafeVpa(vpa) ==
  \/ vpa.mode \notin {"InPlaceOrRecreate", "Off"}
  \/ \E p \in Controlling(vpa) : ~p.requestsOnly

Doubled(objs) == \E v, w \in Kind(objs, "vpa") : v # w /\ v.key = w.key

\* Mutant: one policy for memory only is enough.
SteeredUnlessSome(objs) ==
  \E v \in Kind(objs, "vpa") :
    v.key \in HpaCpuTargets(objs) /\ \A p \in Controlling(v) : p.resources # {"memory"}

\* An explicit contract for memory only, where an HPA scales by CPU.
Steered(objs) ==
  \E v \in Kind(objs, "vpa") :
    v.key \in HpaCpuTargets(objs) /\ (CpuControlled(v) \/ ~MemoryOnly(v))

\* No VPA of that name in any namespace, and no exemption.
Uncovered(objs) ==
  \E w \in Kind(objs, "workload") :
    /\ w.on
    /\ w.key.ns \notin Excluded \cup {"kube-system"}
    /\ \A v \in Kind(objs, "vpa") : v.key.name # w.key.name
    /\ \A e \in Kind(objs, "exempt") : ~MatchesException(w.key, e)

\* Mutant: exemptions stay when their workload goes.
NeverStale(objs) == FALSE

\* "Exact exemptions should not silently outlive their workload": those of the first list.
Stale(objs) ==
  \E e \in Kind(objs, "exempt") : e.exact /\ e.list = "coverage" /\ ~TargetExists(e.key, objs)

Accepted(objs) ==
  /\ \A v \in Kind(objs, "vpa") : ~UnsafeVpa(v) /\ TargetExists(v.key, objs)
  /\ ~Doubled(objs) /\ ~Steered(objs) /\ ~Uncovered(objs) /\ ~Stale(objs)

-----------------------------------------------------------------------------
(* The repository *)

\* The versions of an object; an exemption that moves to the other list is a new one.
Same(o, p) == o.is = p.is /\ o.key = p.key /\ (o.is = "exempt" => o.list = p.list)

Init == repo = <<>> /\ commit = 0

Unique(objs) == \A o, p \in objs : Same(o, p) /\ o.is = "workload" => o = p

\* A commit takes objects out and brings others in; what replaces an object of its kind
\* and key is its next version.
Commit(gone, added) ==
  LET before == DOMAIN repo
      after == (before \ gone) \cup added
      Since(o) == {repo[p] : p \in {q \in before : Same(q, o)}}
  IN  /\ commit < Commits /\ commit' = commit + 1
      /\ added \cap before = {} /\ Unique(after) /\ Accepted(after)
      /\ repo' = [o \in after |-> IF Since(o) = {} THEN commit + 1 ELSE CHOOSE n \in Since(o) : TRUE]

Small(S) == {{}} \cup {{x} : x \in S} \cup {{x, y} : x, y \in S}
Next == \E gone \in Small(DOMAIN repo), added \in Small(Objects) : Commit(gone, added)
Spec == Init /\ [][Next]_vars

-----------------------------------------------------------------------------
(* What the autoscalers do with it *)

\* A container's policy is its own, or the one for "*"; one without either is controlled
\* in everything.
PolicyOf(v, c) ==
  LET own == {p \in v.policies : p.container = c}
  IN  IF own # {} THEN own ELSE {p \in v.policies : p.container = "*"}

SteersCpu(v, w, c) ==
  /\ v.mode # "Off"
  /\ TargetExists(v.key, {w})
  /\ \A p \in PolicyOf(v, c) : ~p.off /\ "cpu" \in p.resources

Scaled(h, w) == TargetExists(h.key, {w}) \/ h.key = w.key \/ h.key = [w.key EXCEPT !.ns = ""]

Both(v, h, w, c) == Scaled(h, w) /\ SteersCpu(v, w, c)

\* "Require an explicit memory-only contract for CPU-utilization HPA targets": the CPU a
\* horizontal scaler measures is not moved by a vertical one.
MemoryOnlyContract ==
  \A w \in Kind(DOMAIN repo, "workload"), v \in Kind(DOMAIN repo, "vpa"), h \in Kind(DOMAIN repo, "hpa") :
    \A c \in w.containers : ~Both(v, h, w, c)

\* ... which holds of containers that have a policy, where the scaler is rendered with its
\* namespace.
ContractWhereRendered ==
  \A w \in Kind(DOMAIN repo, "workload"), v \in Kind(DOMAIN repo, "vpa"), h \in Kind(DOMAIN repo, "hpa") :
    \A c \in w.containers : Both(v, h, w, c) => h.key # v.key \/ PolicyOf(v, c) = {}

\* An exact coverage exemption was written for the workload it exempts: one that is removed
\* and comes back, or is another of that name, does not inherit it.  (A workload exemption
\* it does inherit: nothing looks whether those are stale.)
ExemptionsAreReviewed ==
  \A e \in Kind(DOMAIN repo, "exempt"), w \in Kind(DOMAIN repo, "workload") :
    e.exact /\ e.list = "coverage" /\ e.key = w.key => repo[e] >= repo[w]
=============================================================================
