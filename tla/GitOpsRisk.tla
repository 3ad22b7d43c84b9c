------------------------------ MODULE GitOpsRisk ------------------------------
(***************************************************************************)
(* The static review of a change to the GitOps tree                        *)
(* (scripts/gitops-risk-check.py).  It predicts which Applications the     *)
(* ApplicationSets discover while their own specs and the tree they read   *)
(* are updated at different times, and which persistent objects the        *)
(* affected Applications render before and after.  GitOpsRollout says what *)
(* a cluster then does with the change.                                    *)
(*                                                                         *)
(* A path is a sequence of directory names, a glob has "*" for one of      *)
(* them.  A tree is a record of                                            *)
(*   dirs   all directories, those between included;                       *)
(*   files  for those with a kustomization, the objects in it and the      *)
(*          directories it uses;                                           *)
(*   sets   the ApplicationSets: discovery rules, template, preservation;  *)
(*   alone  the Applications written out in the tree, the root's too.      *)
(***************************************************************************)
EXTENDS Naturals, Sequences, SequencesExt

-----------------------------------------------------------------------------
(* Discovery *)

\* '*' does not cross '/'.
Matches(path, glob) ==
  Len(path) = Len(glob) /\ \A i \in DOMAIN path : glob[i] \in {"*", path[i]}

Discovered(spec, dirs) ==
  LET Hit(ex) == {p \in dirs : \E r \in spec.rules : r.exclude = ex /\ Matches(p, r.glob)}
  IN  Hit(FALSE) \ Hit(TRUE)

\* The template: named after the set and the last directory, which is the namespace too.
Expand(set, spec, path) ==
  [name |-> <<set, path[Len(path)]>>, owner |-> set, path |-> path, ns |-> path[Len(path)],
   finalizer |-> spec.finalizer, prune |-> spec.prune]

\* The Applications of a tree's controllers over the directories of another.
Inventory(sets, alone, dirs) ==
  alone \cup UNION {{Expand(s, sets[s], p) : p \in Discovered(sets[s], dirs)} : s \in DOMAIN sets}

Duplicate(apps) == \E a, b \in apps : a # b /\ a.name = b.name
Names(apps) == {a.name : a \in apps}
Named(apps, n) == CHOOSE a \in apps : a.name = n

Settled(t) == Inventory(t.sets, t.alone, t.dirs)

\* Mutant: only the final state is compared with the old one.
TransitionsFinal(old, new) == {[label |-> "new/new", apps |-> Settled(new), dirs |-> new.dirs]}

\* The specs and the tree reach the controller in either order.
Transitions(old, new) ==
  {[label |-> "old/new", apps |-> Inventory(old.sets, old.alone, new.dirs), dirs |-> new.dirs],
   [label |-> "new/old", apps |-> Inventory(new.sets, new.alone, old.dirs), dirs |-> old.dirs],
   [label |-> "new/new", apps |-> Settled(new), dirs |-> new.dirs]}

\* What must not change of an Application; its source may.
Kept(a) == <<a.owner, a.ns, a.finalizer>>

-----------------------------------------------------------------------------
(* Rendering *)

\* dependency_dirs(): the directory and what its kustomization uses, directly or not.
DependencyDirs(t, path) ==
  LET Uses(p) == IF p \in DOMAIN t.files THEN t.files[p].uses ELSE {}
      with[seen \in SUBSET t.dirs] ==
        LET more == (UNION {Uses(p) : p \in seen}) \ seen
        IN  IF more = {} THEN seen ELSE with[seen \cup more]
  IN  IF path \in t.dirs THEN with[{path}] ELSE {}

\* kustomize: fails without a kustomization; objects take the Application's namespace.
Renders(t, path) == path \in DOMAIN t.files

Rendered(t, app) ==
  {[ns |-> app.ns, obj |-> o] : o \in UNION {t.files[d].objs : d \in DependencyDirs(t, app.path) \cap DOMAIN t.files}}

Key(r) == <<r.ns, r.obj.kind, r.obj.name>>

\* Claims, volumes, stateful sets and namespaces, and whatever carries a finalizer.
Guarded(r) == r.obj.kind = "claim" \/ r.obj.finalizer

-----------------------------------------------------------------------------
(* Findings *)

\* Files that differ between the trees.
Changed(old, new) ==
  {d \in DOMAIN old.files \cup DOMAIN new.files :
     ~(d \in DOMAIN old.files /\ d \in DOMAIN new.files /\ old.files[d] = new.files[d])}

Find(level, code, targets) == {[level |-> level, code |-> code, target |-> x] : x \in targets}

TransitionFindings(old, new) ==
  LET oo == Settled(old) IN
  UNION {
    LET gone == Names(oo) \ Names(s.apps)
        other == {n \in Names(oo) \ gone : Kept(Named(oo, n)) # Kept(Named(s.apps, n))}
        lost == {n \in Names(oo) \ gone : Named(s.apps, n).path \notin s.dirs}
        left == {a.name : a \in {b \in oo : b.path \notin s.dirs}}
    IN  Find("BLOCK", "application-disappears", gone)
        \cup Find("BLOCK", "application-ownership", other)
        \cup Find("WARN", "missing-next-source-directory", lost)
        \cup Find("WARN", "missing-source-directory", left)
    : s \in Transitions(old, new)}

NoSet == [rules |-> {}, finalizer |-> FALSE, prune |-> FALSE, preserve |-> FALSE]
SetOf(t, s) == IF s \in DOMAIN t.sets THEN t.sets[s] ELSE NoSet

SetFindings(old, new) ==
  LET A(s) == SetOf(old, s)
      B(s) == SetOf(new, s)
      Where(Is(_)) == {<<s>> : s \in {t \in DOMAIN old.sets \cup DOMAIN new.sets : Is(t)}}
  IN  Find("WARN", "appset-generators", Where(LAMBDA s : A(s).rules # B(s).rules))
      \cup Find("WARN", "appset-template", Where(LAMBDA s : <<A(s).finalizer, A(s).prune>> # <<B(s).finalizer, B(s).prune>>))
      \cup Find("WARN", "appset-syncPolicy", Where(LAMBDA s : ~A(s).preserve /\ B(s).preserve))
      \cup Find("BLOCK", "appset-syncPolicy", Where(LAMBDA s : A(s).preserve /\ ~B(s).preserve))

\* Mutant: only the Applications whose definition changes.
AffectedRedefined(old, new) ==
  {n \in Names(Settled(old)) \cup Names(Settled(new)) :
     {a \in Settled(old) : a.name = n} # {a \in Settled(new) : a.name = n}}

\* The Applications whose definition or files change; only these are rendered.
Affected(old, new) ==
  LET oo == Settled(old)
      nn == Settled(new)
      Deps(t, apps, n) == IF n \in Names(apps) THEN DependencyDirs(t, Named(apps, n).path) ELSE {}
  IN  {n \in Names(oo) \cup Names(nn) :
         \/ {a \in oo : a.name = n} # {a \in nn : a.name = n}
         \/ \E d \in Deps(old, oo, n) \cup Deps(new, nn, n), c \in Changed(old, new) : IsPrefix(d, c)}

AppFindings(old, new) ==
  LET oo == Settled(old)
      nn == Settled(new)
      both == Names(oo) \cap Names(nn)
      Moved(n) == Named(oo, n).path # Named(nn, n).path
      Prunes(n) == ~Named(oo, n).prune /\ Named(nn, n).prune
      Spares(n) == Named(oo, n).prune /\ ~Named(nn, n).prune
  IN  Find("BLOCK", "application-sync-policy", {n \in both : Prunes(n)})
      \cup Find("WARN", "application-sync-policy", {n \in both : Spares(n)})
      \cup Find("WARN", "application-path", {n \in both : Moved(n)})

\* The rendered objects of the affected Applications, with their Application.
Owned(t, names) == UNION {{[app |-> a.name, r |-> r] : r \in Rendered(t, a)} : a \in {b \in Settled(t) : b.name \in names}}

ObjectFindings(old, new) ==
  LET affected == Affected(old, new)
      after == Owned(new, affected)
      Same(x) == {y \in after : Key(y.r) = Key(x.r)}
      before == {x \in Owned(old, affected) : Guarded(x.r) \/ \E y \in Same(x) : y.r.obj.finalizer}
      Shared(all) == {Key(x.r) : x \in {z \in all : Guarded(z.r) /\ \E y \in all : y.app # z.app /\ Key(y.r) = Key(z.r)}}
  IN  Find("BLOCK", "shared-resource", Shared(Owned(old, affected)) \cup Shared(after))
      \cup Find("BLOCK", "persistent-resource-disappears", {Key(x.r) : x \in {z \in before : Same(z) = {}}})
      \cup Find("BLOCK", "resource-owner-transfer", {Key(x.r) : x \in {z \in before : \E y \in Same(z) : y.app # z.app}})
      \cup Find("BLOCK", "persistent-spec", {Key(x.r) : x \in {z \in before : \E y \in Same(z) : y.r.obj.class # z.r.obj.class}})
      \cup Find("BLOCK", "resource-finalizers", {Key(x.r) : x \in {z \in before : \E y \in Same(z) : y.r.obj.finalizer # z.r.obj.finalizer}})

\* What makes the check fail, which blocks: two Applications of one name in a state it
\* looks at, or an affected Application that does not render.
CheckFails(old, new) ==
  \/ Duplicate(Settled(old)) \/ \E s \in Transitions(old, new) : Duplicate(s.apps)
  \/ \E n \in Affected(old, new) :
       \/ n \in Names(Settled(old)) /\ ~Renders(old, Named(Settled(old), n).path)
       \/ n \in Names(Settled(new)) /\ ~Renders(new, Named(Settled(new), n).path)

Findings(old, new) ==
  TransitionFindings(old, new) \cup SetFindings(old, new) \cup AppFindings(old, new) \cup ObjectFindings(old, new)

Verdict(old, new) ==
  IF CheckFails(old, new) THEN "BLOCK"
  ELSE LET levels == {f.level : f \in Findings(old, new)}
       IN  IF "BLOCK" \in levels THEN "BLOCK" ELSE IF levels # {} THEN "WARN" ELSE "PASS"
=============================================================================
