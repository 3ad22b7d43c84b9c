---------------------------- MODULE KopiurCoverage ----------------------------
(***************************************************************************)
(* Backups of claims and their restore in a disaster, for any repository   *)
(* that scripts/validate-kopiur-coverage.py accepts.  A repository is      *)
(*   pvcs      rendered claims: the Restore their dataSourceRef names      *)
(*   policies  SnapshotPolicies: the claim, and whether the manual restore *)
(*             of a claim an operator makes is a written decision          *)
(*   restores  Restores: the policy they take snapshots of, whether it is  *)
(*             another namespace's (foreign) policy of that name, and the  *)
(*             target ("populator", or a claim they create themselves)     *)
(*   labelled  does the namespace carry the label that brings credentials? *)
(***************************************************************************)
EXTENDS Naturals

CONSTANTS
  Claims, Policies,
  Repositories   \* what git may hold

VARIABLES
  repo,       \* the repository that is merged
  volume,     \* what each claim holds: nothing bound, "empty", its own or another's data, or
              \* what another namespace restores ("foreign")
  snapshot,   \* what each policy's latest snapshot holds, or "none"
  reachable   \* is the backup store?

vars == <<repo, volume, snapshot, reachable>>

TypeOK ==
  /\ repo \in Repositories /\ reachable \in BOOLEAN
  /\ volume \in [Claims -> {"unbound", "empty", "foreign"} \cup Claims]
  /\ snapshot \in [Policies -> {"none", "empty", "foreign"} \cup Claims]

-----------------------------------------------------------------------------
(* The validator *)

\* The Restore the claim names is rendered, and a populator.
Populator(r, c) == r.pvcs[c] \in DOMAIN r.restores /\ r.restores[r.pvcs[c]].target = "populator"

\* Mutant: the pointer is enough.
LinkByKind(r, c, p) == r.pvcs[c] \in DOMAIN r.restores

\* ... and of the policy that backs the claim up, in the claim's namespace.
RestoreLink(r, c, p) ==
  Populator(r, c) /\ LET s == r.restores[r.pvcs[c]] IN s.policy = p /\ ~s.foreign

Backs(r, p, c) == p \in DOMAIN r.policies /\ r.policies[p].claim = c

\* Restores that make the claim are told apart by the name of their policy alone, whatever
\* its namespace.
Direct(r, p, c) == {s \in DOMAIN r.restores : r.restores[s].target = c /\ r.restores[s].policy = p}

\* A claim that is not rendered is an operator's: restored directly, or by hand.
PolicyOk(r, p) ==
  LET c == r.policies[p].claim IN
  IF c \in DOMAIN r.pvcs THEN r.pvcs[c] # "none" /\ RestoreLink(r, c, p)
  ELSE r.policies[p].manual \/ Direct(r, p, c) # {}

\* Mutant: the label is not looked at.
AnyNamespace(r) == TRUE

\* A Namespace that is not rendered at all only earns a warning; here it is.
Labelled(r) == DOMAIN r.policies = {} \/ r.labelled

\* Claims that nothing backs up only earn warnings, unless their Restore is broken; whose
\* snapshots it takes is not asked.
Unbacked(r, c) == \A p \in DOMAIN r.policies : ~Backs(r, p, c)
UnbackedOk(r, c) == r.pvcs[c] # "none" => Populator(r, c)

Accepted(r) ==
  /\ \A p \in DOMAIN r.policies : PolicyOk(r, p)
  /\ \A c \in DOMAIN r.pvcs : Unbacked(r, c) => UnbackedOk(r, c)
  /\ Labelled(r)

-----------------------------------------------------------------------------
(* The cluster *)

Init ==
  /\ repo = CHOOSE r \in Repositories : Accepted(r)
  /\ volume = [c \in Claims |-> "unbound"]
  /\ snapshot = [p \in Policies |-> "none"]
  /\ reachable = TRUE

Merge ==
  /\ repo' \in {r \in Repositories : Accepted(r)} \ {repo}
  /\ UNCHANGED <<volume, snapshot, reachable>>

\* The populator, and a Restore that makes the claim: nothing is bound while the store is
\* out of reach; a store without a snapshot gives an empty volume.
Restored(s) ==
  LET from == repo.restores[s] IN
  IF from.foreign THEN "foreign" ELSE IF snapshot[from.policy] = "none" THEN "empty" ELSE snapshot[from.policy]

BindRendered(c) ==
  /\ volume[c] = "unbound" /\ c \in DOMAIN repo.pvcs
  /\ \/ repo.pvcs[c] = "none" /\ volume' = [volume EXCEPT ![c] = "empty"]
     \/ repo.pvcs[c] # "none" /\ reachable /\ volume' = [volume EXCEPT ![c] = Restored(repo.pvcs[c])]
  /\ UNCHANGED <<repo, snapshot, reachable>>

BindOperators(c) ==
  /\ volume[c] = "unbound" /\ c \notin DOMAIN repo.pvcs
  /\ LET direct == {s \in DOMAIN repo.restores : repo.restores[s].target = c} IN
     \/ direct = {} /\ volume' = [volume EXCEPT ![c] = "empty"]
     \/ reachable /\ \E s \in direct : volume' = [volume EXCEPT ![c] = Restored(s)]
  /\ UNCHANGED <<repo, snapshot, reachable>>

Fill(c) ==
  /\ volume[c] = "empty" /\ volume' = [volume EXCEPT ![c] = c]
  /\ UNCHANGED <<repo, snapshot, reachable>>

\* Movers get their credentials through the label.
Snapshot(p) ==
  /\ p \in DOMAIN repo.policies /\ repo.labelled /\ reachable
  /\ volume[repo.policies[p].claim] # "unbound"
  /\ snapshot' = [snapshot EXCEPT ![p] = volume[repo.policies[p].claim]]
  /\ UNCHANGED <<repo, volume, reachable>>

Disaster ==
  /\ volume' = [c \in Claims |-> "unbound"]
  /\ UNCHANGED <<repo, snapshot, reachable>>

Store ==
  /\ reachable' = ~reachable
  /\ UNCHANGED <<repo, volume, snapshot>>

Next ==
  \/ Merge \/ Disaster \/ Store
  \/ \E c \in Claims : BindRendered(c) \/ BindOperators(c) \/ Fill(c)
  \/ \E p \in Policies : Snapshot(p)

Spec == Init /\ [][Next]_vars

\* Schedules come round again and again while the store answers.
FairSpec == Spec /\ \A p \in Policies : WF_vars(Snapshot(p))

-----------------------------------------------------------------------------
(* Properties *)

\* "recreates EMPTY in DR" is "the single most dangerous silent gap": a claim that is
\* bound anew while a policy backs it up holds that policy's latest snapshot, if there is
\* one, unless no populator restores it and either restoring by hand is a written decision
\* or the Restore that makes it takes another namespace's policy of that name, which
\* validate-kopiur-coverage.py:128-130 does not look at.
Unmatched(p, c) ==
  c \notin DOMAIN repo.pvcs /\ (repo.policies[p].manual \/ \E s \in Direct(repo, p, c) : repo.restores[s].foreign)
RestoredFromBackup ==
  [][\A c \in Claims, p \in DOMAIN repo.policies :
       /\ Backs(repo, p, c) /\ volume[c] = "unbound" /\ volume'[c] # "unbound"
       /\ snapshot[p] # "none"
       => volume'[c] = snapshot[p] \/ Unmatched(p, c)]_vars

\* "the mover can't auth" does not happen: what a policy backs up is backed up in the end,
\* if it stays and the store stays in reach.
BackedUp ==
  \A p \in Policies, c \in Claims :
    <>[](reachable /\ Backs(repo, p, c) /\ volume[c] = c) => <>(snapshot[p] = c)
=============================================================================
