---------------------------- MODULE AgentGitGuard ----------------------------
(***************************************************************************)
(* The hook that looks at a coding agent's shell commands before they run  *)
(* (scripts/agent-git-guard.py), between repositories whose branches and   *)
(* push configuration change, and what git then writes.  A command is a    *)
(* sequence of segments                                                    *)
(*   cd    to a directory                                                  *)
(*   git   op "commit" or "push", in (-C) a directory or "here", flags,    *)
(*         values (how many options have theirs in a word of its own),     *)
(*         remote (is one named?), and refspecs: refs, the destinations of *)
(*         those with a colon, and bare, those that name a source only     *)
(* The guard reads tokens, and says so: what a shell makes of quoting,     *)
(* variables or aliases, a switch of branches within a command and git's   *)
(* own -c are not its business and not in here.                            *)
(***************************************************************************)
EXTENDS Naturals, Sequences, FiniteSets

CONSTANTS
  Dirs, Start,  \* repositories, and the one commands start in
  Config,       \* what each may be: branch, head (origin/HEAD), mode (push.default),
                \* upstream[b] of branches that have one, push and mirror of its remote
  Commands

VARIABLES
  repo,    \* the repositories
  damage   \* the commits and pushes of the last step that wrote a default branch

vars == <<repo, damage>>

Unset == ""
AllRefs == "*"
Matching == ":"  \* the refspec of all branches that the remote has, too

TypeOK ==
  /\ \A d \in Dirs : repo[d] \in Config[d]
  /\ \A w \in damage : w.by.op \in {"commit", "push"}

Upstream(r, b) == IF b \in DOMAIN r.upstream THEN r.upstream[b] ELSE Unset
Named(g) == g.refs \cup g.bare

-----------------------------------------------------------------------------
(* The guard *)

Protected(r) == {"main", "master"} \cup ({r.head} \ {Unset})

UnsafeRef(ref, names) == ref \in names \/ ref = AllRefs

\* push.default or the upstream leads to a protected branch.
Unclear(r) ==
  \/ r.mode = "matching"
  \/ r.mode \in {Unset, "simple", "upstream"} /\ UnsafeRef(Upstream(r, r.branch), Protected(r))

\* Mutant: the remote is taken for a refspec.
ImplicitOrNamed(r, g) == Unclear(r) /\ ~g.remote

\* Mutant: refspecs do not help.
ImplicitAlways(r, g) == Unclear(r)

\* "An explicit feature refspec overrides" both: one of two arguments that are no options.
Implicit(r, g) ==
  Unclear(r) /\ (IF g.remote THEN 1 ELSE 0) + g.values + Cardinality(g.refs) + Cardinality(g.bare) < 2

Bulk == {"--all", "--mirror"}

DeniesPush(r, g) ==
  \/ g.flags \cap Bulk # {}
  \/ \E ref \in Named(g) : UnsafeRef(ref, Protected(r))
  \/ UnsafeRef(r.push, Protected(r))
  \/ Implicit(r, g)

Denies(r, g) ==
  \/ r.branch = Unset \/ r.branch \in Protected(r)
  \/ g.op = "push" /\ DeniesPush(r, g)

\* The directory each segment runs in.
Where(cmd, k) ==
  LET cds == {i \in 1 .. k - 1 : cmd[i].is = "cd"}
  IN  IF cmd[k].is = "git" /\ cmd[k].in # "here" THEN cmd[k].in
      ELSE IF cds = {} THEN Start ELSE cmd[CHOOSE i \in cds : \A j \in cds : j <= i].dir

Gits(cmd) == {k \in DOMAIN cmd : cmd[k].is = "git"}
Allowed(cmd) == \A k \in Gits(cmd) : ~Denies(repo[Where(cmd, k)], cmd[k])

-----------------------------------------------------------------------------
(* git *)

Everything(r) == {r.branch, "main"} \cup ({r.head} \ {Unset})

\* An option may be cut short while it is the only one of that beginning.
GitBulk == Bulk \cup {"--al"}

Upstreams == {"upstream", "tracking"}

\* Where a push without a refspec goes: remote.<name>.mirror, then .push, before push.default.
\* "simple" wants an upstream of the branch's own name.
Default(r) ==
  CASE r.mirror \/ r.push \in {AllRefs, Matching} -> Everything(r)
    [] ~r.mirror /\ r.push \notin {Unset, AllRefs, Matching} -> {r.push}
    [] ~r.mirror /\ r.push = Unset /\ r.mode = "matching" -> Everything(r)
    [] ~r.mirror /\ r.push = Unset /\ r.mode = "current" -> {r.branch}
    [] ~r.mirror /\ r.push = Unset /\ r.mode \in Upstreams -> {Upstream(r, r.branch)} \ {Unset}
    [] OTHER -> {Upstream(r, r.branch)} \cap {r.branch}

Dst(r, ref) == IF ref \in {AllRefs, Matching} THEN Everything(r) ELSE {ref}

\* A branch named without a destination goes to its upstream where pushes go to upstreams,
\* but HEAD to the branch of its own name.
BareDst(r, ref) ==
  IF ref = "HEAD" THEN {r.branch}
  ELSE IF r.mode \in Upstreams /\ Upstream(r, ref) # Unset THEN {Upstream(r, ref)}
  ELSE Dst(r, ref)

\* Refspecs do not go with mirroring.
Pushed(r, g) ==
  IF Named(g) = {} THEN IF g.flags \cap GitBulk # {} THEN Everything(r) ELSE Default(r)
  ELSE IF r.mirror \/ g.flags \cap GitBulk # {} THEN {}
  ELSE (UNION {Dst(r, ref) : ref \in g.refs}) \cup (UNION {BareDst(r, ref) : ref \in g.bare})

Wrote(r, g) == IF g.op = "push" THEN Pushed(r, g) ELSE {r.branch}

-----------------------------------------------------------------------------
Init ==
  /\ repo = [d \in Dirs |-> CHOOSE c \in Config[d] : c.branch = "topic" /\ c.push = Unset]
  /\ damage = {}

\* The agent or its user changes a branch or the configuration of a repository.
Change(d) == \E c \in Config[d] : repo' = [repo EXCEPT ![d] = c] /\ damage' = {}

Run(cmd) ==
  /\ Allowed(cmd)
  /\ damage' = {[at |-> repo[Where(cmd, k)], by |-> cmd[k]] :
                  k \in {j \in Gits(cmd) : Wrote(repo[Where(cmd, j)], cmd[j]) \cap Protected(repo[Where(cmd, j)]) # {}}}
  /\ UNCHANGED repo

Next == (\E d \in Dirs : Change(d)) \/ (\E cmd \in Commands : Run(cmd))
Spec == Init /\ [][Next]_vars

-----------------------------------------------------------------------------
(* Properties *)

\* What the guard does not see: the refspec ":", typed or configured for the remote; a
\* mirror; an option cut short; that "tracking" means upstream; that the second argument is
\* an option's value; and that a feature branch named without a destination goes to its
\* upstream.
Overlooked(r, g) ==
  /\ g.op = "push"
  /\ \/ Matching \in Named(g)
     \/ \E ref \in g.bare : r.mode \in Upstreams /\ Upstream(r, ref) \in Protected(r)
     \/ /\ Named(g) = {}
        /\ \/ r.push = Matching \/ r.mirror \/ g.flags \cap (GitBulk \ Bulk) # {}
           \/ r.mode = "tracking" /\ Upstream(r, r.branch) \in Protected(r)
           \/ Unclear(r) /\ g.values > 0

\* "Deny obvious default-branch git writes": a commit or push that is let through writes no
\* default branch, local or remote, in whatever directory of whatever configuration it
\* works, but for what the guard does not see.
NoDefaultWritten == \A w \in damage : Overlooked(w.at, w.by)

\* "use a feature branch and PR": on a feature branch, without a configured refspec for
\* the default branch, pushing it by name always gets through.  (Git has no branch "*".)
FeaturePushPasses ==
  \A cmd \in Commands : \A k \in Gits(cmd) :
    LET r == repo[Where(cmd, k)]  g == cmd[k] IN
    /\ Gits(cmd) = {k} /\ g.op = "push" /\ g.remote /\ Named(g) = {r.branch} /\ g.flags = {}
    /\ r.branch \notin Protected(r) \cup {Unset, AllRefs} /\ ~UnsafeRef(r.push, Protected(r))
    => Allowed(cmd)
=============================================================================
