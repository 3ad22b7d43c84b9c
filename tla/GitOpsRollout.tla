----------------------------- MODULE GitOpsRollout -----------------------------
(***************************************************************************)
(* A change on its way from review to cluster.  It is merged when the      *)
(* static review (GitOpsRisk) does not block it and the live gate          *)
(* (scripts/gitops-live-gate.py) has passed for the commit before it.      *)
(* Argo CD then syncs the root, the ApplicationSets regenerate, and every  *)
(* Application is synced, each from whatever commit it has seen so far.    *)
(* The gate reads these objects one after the other while all that goes    *)
(* on.                                                                     *)
(***************************************************************************)
EXTENDS GitOpsRisk

CONSTANTS
  Trees,    \* trees of the repository; the first one is live
  Merges    \* bound: commits

VARIABLES
  main,     \* the commits merged so far: their tree's number, and, for the properties, whether
            \* the ApplicationSets were through with the commit before, and the root's own
            \* Applications synced to it
  specs,    \* for every ApplicationSet, the commit its live spec is from
  view,     \* ... and the commit whose directories it reads
  apps,     \* the live Applications: their definition, the commit they are synced to
  claims,   \* the live guarded objects: key, Application, and uid: the commit they came with, or 0
  root,     \* the root Application's operation and comparison
  gate,     \* the gate: what it has still to read, and whether all was well so far
  baseline  \* the guarded objects recorded when the last change was prepared

cluster == <<specs, view, apps, claims, root>>
vars == <<main, cluster, gate, baseline>>

Tip == Len(main)
T(commit) == Trees[main[commit].tree]
Sets == DOMAIN Trees[1].sets
Guards(t, a) == {Key(r) : r \in {q \in Rendered(t, a) : Guarded(q)}}

TypeOK ==
  /\ main \in Seq([tree : DOMAIN Trees, calm : BOOLEAN, synced : BOOLEAN])
  /\ specs \in [Sets -> 1 .. Tip] /\ view \in [Sets -> 1 .. Tip]
  /\ \A n \in DOMAIN apps : apps[n].def.name = n /\ apps[n].rev \in 0 .. Tip
  /\ \A c \in claims : c.uid \in 0 .. Tip
  /\ \A c, d \in claims : c.key = d.key => c = d
  /\ root.rev \in 1 .. Tip /\ root.compared \in 1 .. Tip
  /\ gate.ok \in BOOLEAN

Live(a, rev) == [def |-> a, rev |-> rev]

Init ==
  LET t == Trees[1] IN
  /\ main = <<[tree |-> 1, calm |-> TRUE, synced |-> TRUE]>>
  /\ specs = [s \in Sets |-> 1] /\ view = [s \in Sets |-> 1]
  /\ apps = [n \in Names(Settled(t)) |-> Live(Named(Settled(t), n), 1)]
  /\ claims = UNION {{[key |-> k, app |-> a.name, uid |-> 0] : k \in Guards(t, a)} : a \in Settled(t)}
  /\ root = [running |-> FALSE, rev |-> 1, compared |-> 1, todo |-> {}]
  /\ gate = [at |-> "idle", todo |-> <<>>, ok |-> TRUE]
  /\ baseline = claims

-----------------------------------------------------------------------------
(* The gate *)

\* The plan: every ApplicationSet, what it generates, and the objects that must survive.
Plan(t) ==
  <<[kind |-> "root"]>>
  \o SetToSeq({[kind |-> "set", name |-> s] : s \in DOMAIN t.sets})
  \o SetToSeq({[kind |-> "app", app |-> a] : a \in {b \in Settled(t) : b.owner # "root"}})
  \o SetToSeq({[kind |-> "object", object |-> c] : c \in baseline})

\* Mutant: Synced and Healthy, whatever operation succeeded last.
RootSynced == ~root.running /\ root.compared = Tip

\* A successful operation at the prerequisite, and a comparison that agrees.
RootOk == ~root.running /\ root.rev = Tip /\ root.compared = Tip

\* The expected fields of the spec: discovery rules, template, preservation.
SetOk(s) == T(specs[s]).sets[s] = T(Tip).sets[s]

\* Source, destination and finalizers, owner, and a sync at the prerequisite.
AppOk(a) == a.name \in DOMAIN apps /\ apps[a.name] = Live(a, Tip)

\* The same uid as before.
ObjectOk(c) == \E d \in claims : d.key = c.key /\ d.uid = c.uid

Check(item) ==
  CASE item.kind = "root"   -> RootOk
    [] item.kind = "set"    -> SetOk(item.name)
    [] item.kind = "app"    -> AppOk(item.app)
    [] item.kind = "object" -> ObjectOk(item.object)

GateStart ==
  /\ gate.at \in {"idle", "block"}
  /\ gate' = [at |-> "reading", todo |-> Plan(T(Tip)), ok |-> TRUE]
  /\ UNCHANGED <<main, cluster, baseline>>

GateRead ==
  /\ gate.at = "reading" /\ gate.todo # <<>>
  /\ gate' = [gate EXCEPT !.todo = Tail(@), !.ok = @ /\ Check(gate.todo[1])]
  /\ UNCHANGED <<main, cluster, baseline>>

GateReport ==
  /\ gate.at = "reading" /\ gate.todo = <<>>
  /\ gate' = [gate EXCEPT !.at = IF gate.ok THEN "pass" ELSE "block", !.ok = TRUE]
  /\ UNCHANGED <<main, cluster, baseline>>

\* Every ApplicationSet has read the last commit and its Applications are what it then wants.
Calm ==
  \A s \in Sets :
    view[s] = Tip /\ \A n \in DOMAIN apps : apps[n].def.owner = s => apps[n].def \in Settled(T(Tip))

\* The root's own Applications render the last commit.
Synced == \A n \in DOMAIN apps : apps[n].def.owner = "root" => apps[n].rev = Tip

\* The next change, by the procedure: reviewed against main, after a PASS for main.
Merge(t) ==
  /\ Tip <= Merges
  /\ gate.at = "pass"
  /\ t # main[Tip].tree /\ Verdict(T(Tip), Trees[t]) # "BLOCK"
  /\ main' = Append(main, [tree |-> t, calm |-> Calm, synced |-> Synced])
  /\ gate' = [gate EXCEPT !.at = "idle"]
  /\ baseline' = claims
  /\ UNCHANGED cluster

-----------------------------------------------------------------------------
(* Argo CD *)

RootCompare ==
  /\ root.compared < Tip
  /\ root' = [root EXCEPT !.compared = Tip]
  /\ UNCHANGED <<main, specs, view, apps, claims, gate, baseline>>

Alone(c) == {a \in T(c).alone : a.owner = "root"}

RootStart ==
  /\ ~root.running /\ root.rev < Tip
  /\ root' = [running |-> TRUE, rev |-> Tip, compared |-> Tip,
              todo |-> {<<s>> : s \in Sets} \cup Names(Alone(Tip))]
  /\ UNCHANGED <<main, specs, view, apps, claims, gate, baseline>>

\* One of the root's objects is applied: an ApplicationSet ...
RootApplySet(s) ==
  /\ root.running /\ <<s>> \in root.todo
  /\ specs' = [specs EXCEPT ![s] = root.rev]
  /\ root' = [root EXCEPT !.todo = @ \ {<<s>>}]
  /\ UNCHANGED <<main, view, apps, claims, gate, baseline>>

\* ... or an Application of its own.
RootApplyApp(n) ==
  /\ root.running /\ n \in root.todo
  /\ \E a \in Alone(root.rev) :
       /\ a.name = n
       /\ apps' = [m \in DOMAIN apps \cup {n} |->
                    IF m = n THEN Live(a, IF n \in DOMAIN apps THEN apps[n].rev ELSE 0) ELSE apps[m]]
  /\ root' = [root EXCEPT !.todo = @ \ {n}]
  /\ UNCHANGED <<main, specs, view, claims, gate, baseline>>

RootDone ==
  /\ root.running /\ root.todo = {}
  /\ root' = [root EXCEPT !.running = FALSE]
  /\ UNCHANGED <<main, specs, view, apps, claims, gate, baseline>>

Refresh(s) ==
  /\ view[s] < Tip
  /\ view' = [view EXCEPT ![s] = Tip]
  /\ UNCHANGED <<main, specs, apps, claims, root, gate, baseline>>

\* The set's Applications follow its spec and its view; an Application that goes takes its
\* objects with it unless the set preserves them.
Generate(s) ==
  LET spec == T(specs[s]).sets[s]
      want == {Expand(s, spec, p) : p \in Discovered(spec, T(view[s]).dirs)}
      mine == {n \in DOMAIN apps : apps[n].def.owner = s}
      gone == mine \ Names(want)
      kept == DOMAIN apps \ gone
      new  == {n \in Names(want) : n \notin kept \/ n \in mine}
  IN  /\ apps' = [n \in kept \cup new |->
                    IF n \in new THEN Live(Named(want, n), IF n \in kept THEN apps[n].rev ELSE 0) ELSE apps[n]]
      /\ claims' = {c \in claims : c.app \notin gone \/ spec.preserve}
      /\ UNCHANGED <<main, specs, view, root, gate, baseline>>

\* An Application is compared with a commit no older than the last and synced to it:
\* missing objects are created, those it no longer renders pruned, an empty render refused
\* (allowEmpty), and another Application's object never touched (FailOnSharedResource).
SyncApp(n) ==
  \E r \in apps[n].rev .. Tip :
    LET a == apps[n].def
        keys == Guards(T(r), a)
        here == {c \in claims : c.key \in keys}
        goes == {c \in claims : c.app = n /\ c.key \notin keys}
    IN  /\ r > 0 /\ Renders(T(r), a.path) /\ Rendered(T(r), a) # {}
        /\ \A c \in here : c.app = n \/ c.app \notin DOMAIN apps
        /\ claims' = (claims \ (here \cup IF a.prune THEN goes ELSE {}))
                     \cup {[c EXCEPT !.app = n] : c \in here}
                     \cup {[key |-> k, app |-> n, uid |-> Tip] : k \in keys \ {c.key : c \in here}}
        /\ apps' = [apps EXCEPT ![n].rev = r]
        /\ UNCHANGED <<main, specs, view, root, gate, baseline>>

Gate == GateStart \/ GateRead \/ GateReport
Argo ==
  \/ RootCompare \/ RootStart \/ RootDone
  \/ \E s \in Sets : RootApplySet(s) \/ Refresh(s) \/ Generate(s)
  \/ \E n \in DOMAIN apps : SyncApp(n)
  \/ \E n \in root.todo : RootApplyApp(n)

Next == Gate \/ Argo \/ \E t \in DOMAIN Trees : Merge(t)
Spec == Init /\ [][Next]_vars

-----------------------------------------------------------------------------
(* Properties *)

Earlier == 1 .. Tip - 1

\* Every change was merged when the ApplicationSets were through with the one before.  The
\* gate does not look at that: after a PASS a set may still read, or have Applications from,
\* an older tree, and the review did not try the next change's rules with that one.
Unhurried == \A k \in DOMAIN main : main[k].calm

\* What the review and the gate exist for ("the controller's old path spec against the new
\* tree deleted Applications"): whatever order the cluster takes the parts of a change in,
\* no Application of an earlier commit is ever gone, or given to another owner, namespace
\* or finalizer.
AppsSurvive ==
  \A k \in Earlier : \A a \in Settled(T(k)) :
    a.name \in DOMAIN apps /\ Kept(apps[a.name].def) = Kept(a)

\* The commit before the last, and what specs and directories of the last two make together.
Before == IF Tip = 1 THEN 1 ELSE Tip - 1
Recent == {Before, Tip}
Mixed(x, y) == Inventory(T(x).sets, T(x).alone, T(y).dirs)

\* An Application that a change, at some stage, points at a directory which one of the two
\* commits has for something else: its source leaves a directory behind, or moves onto one
\* there already.  Synced from that commit it renders something else; the review warns.
Strays(n) ==
  \E x, y, r \in Recent : \E d \in Mixed(x, y) :
    /\ d.name = n /\ d.path \in T(r).dirs
    /\ \A a \in Settled(T(r)) : a.name = n => a.path # d.path

\* A recorded object that its Application renders in the commit before is declared there.
Declaring(c) == {a \in Settled(T(Before)) : a.name = c.app /\ c.key \in Guards(T(Before), a)}
Remains(c) == \E d \in claims : d.key = c.key /\ d.uid = c.uid

\* No claim that was there when a change was merged, and declared, is deleted, or deleted and
\* created again empty.  The root's own Application may be behind when the change is merged,
\* as the gate does not wait for its sync: it may then still render a commit from before.
ClaimsSurvive ==
  \A c \in baseline : Remains(c) \/ \A a \in Declaring(c) :
    Strays(a.name) \/ (a.owner = "root" /\ ~main[Tip].synced)

\* "Answers whether the exact prerequisite state exists now": though it is read piece by
\* piece from a cluster that moves, a PASS describes a state that holds when it is given
\* and until the next merge.  Every spec and every Application is the last commit's ...
CommitLive ==
  /\ \A s \in Sets : T(specs[s]).sets[s] = T(Tip).sets[s]
  /\ \A a \in Settled(T(Tip)) : a.name \in DOMAIN apps /\ apps[a.name].def = a

\* ... and the declared objects that must survive are there, of whatever strays too.  Those
\* of the root's own Applications may still go: a plan cannot list these, so nobody waits
\* for their sync.
ObjectsLive ==
  \A c \in baseline : Remains(c) \/ \A a \in Declaring(c) : a.owner = "root"
=============================================================================
