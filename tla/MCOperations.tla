----------------------------- MODULE MCOperations -----------------------------
(* A small instance of Operations: what the programs work on, and what the        *)
(* validators and guards of the repository are asked about.                       *)
EXTENDS Operations, TLC

\* LonghornSelinux: options of others.
Foreign == [others : {"none", "noatime", "override"}, ctx : {"absent"}]

\* VpaPolicies
VD == INSTANCE MCVpaPolicies WITH repo <- vpas
VpaObjects == VD!Objs

-----------------------------------------------------------------------------
\* GitOpsRollout: trees of the repository.  An ApplicationSet over monitoring, with a
\* product p that keeps a claim, and an Application x of its own with another.
ClaimOf(n, c) == [kind |-> "claim", name |-> n, class |-> c, finalizer |-> FALSE]
Plainly(n) == [kind |-> "other", name |-> n, class |-> "none", finalizer |-> FALSE]
Kustom(objs) == [objs |-> objs, uses |-> {}]
Glob(g) == [glob |-> g, exclude |-> FALSE]
Except(g) == [glob |-> g, exclude |-> TRUE]
SetSpec(rules) == [rules |-> rules, finalizer |-> FALSE, prune |-> TRUE, preserve |-> FALSE]
AtMon == <<"mon">>
AtP == <<"mon", "p">>
AtLP == <<"mon", "l", "p">>
AtMP == <<"mon", "m", "p">>
AtX == <<"x">>
AtY == <<"y">>
Alone0(path) == [name |-> <<"root", "x">>, owner |-> "root", path |-> path, ns |-> "x", finalizer |-> FALSE, prune |-> TRUE]
Tree(dirs, files, rules, alone) == [dirs |-> dirs, files |-> files, sets |-> ("mon" :> SetSpec(rules)), alone |-> {alone}]
pObjs == Kustom({ClaimOf("data", "l"), Plainly("d")})
xObjs == Kustom({ClaimOf("db", "l"), Plainly("s")})
shallow == {Glob(<<"mon", "*">>)}
deep == {Glob(<<"mon", "*", "*">>)}
both == {Glob(AtP), Glob(<<"mon", "*", "*">>)}
T0 == Tree({AtMon, AtP, AtX, AtY}, AtP :> pObjs @@ AtX :> xObjs, shallow, Alone0(AtX))
\* the September regrouping in one step, and in three
TMoved(rules) == Tree({AtMon, <<"mon","m">>, AtMP, AtX,AtY}, AtMP :> pObjs @@ AtX :> xObjs, rules, Alone0(AtX))
TBroad == [T0 EXCEPT !.sets["mon"].rules = both]
TPres == [TBroad EXCEPT !.sets["mon"].preserve = TRUE]
TMovedPres == [TMoved(both) EXCEPT !.sets["mon"].preserve = TRUE]
\* category move
TCat == Tree({AtMon, <<"mon","l">>, AtLP, AtX,AtY}, AtLP :> pObjs @@ AtX :> xObjs, deep, Alone0(AtX))
\* a claim dropped
TDrop == [T0 EXCEPT !.files[AtP].objs = {Plainly("d")}]
\* alone app moved with leftover
TLeft == [T0 EXCEPT !.files = AtP :> pObjs @@ AtY :> xObjs @@ AtX :> Kustom({Plainly("s")}), !.alone = {Alone0(AtY)}]
TMoveX == Tree({AtMon,AtP,AtY}, AtP :> pObjs @@ AtY :> xObjs, shallow, Alone0(AtY))
TUses == [T0 EXCEPT !.files[AtX].uses = {AtY}, !.files = @ @@ (AtY :> Kustom({ClaimOf("logs", "l")}))]
TUsesDrop == [TUses EXCEPT !.files[AtY].objs = {Plainly("l")}]
\* p copied before the rule changes: harmless to review, not to a set that reads T0 still
TCopy == [TMoved({Glob(AtP)}) EXCEPT !.dirs = @ \cup {AtP}, !.files = @ @@ (AtP :> pObjs)]
TSwitch == [TCopy EXCEPT !.sets["mon"].rules = deep]
AllTrees == <<T0, TMoved(deep), TBroad, TMoved(both), TPres, TMovedPres, TCat, TDrop, TLeft, TMoveX, TUses, TUsesDrop, TCopy, TSwitch>>

-----------------------------------------------------------------------------
\* OmniContract: a control plane and two sets of workers, in versions.
Cls == [cp |-> [provider |-> "sff", wellFormed |-> TRUE], sff |-> [provider |-> "sff", wellFormed |-> TRUE],
        shed |-> [provider |-> "shed", wellFormed |-> TRUE], torn |-> [provider |-> "shed", wellFormed |-> FALSE]]

Disk(n, path, takes) == [name |-> n, path |-> path, takes |-> takes]
MSet(id, class, size, zone) ==
  [id |-> id, kind |-> "Workers", from |-> "class", class |-> class, size |-> size, zone |-> zone,
   link |-> "wired", tainted |-> FALSE, disks |-> {Disk("d", "/var/lib", TRUE)}, tags |-> {"wired-storage"}]
Control == [MSet("cp", "cp", 1, "z1") EXCEPT !.kind = "ControlPlane"]
Metal(zone) == [MSet("metal", "none", 2, zone) EXCEPT !.from = "machines"]

Shed == MSet("shed", "shed", 2, "z2")
Sets ==
  {MSet("w", "sff", 2, z) : z \in {"z1", "z2", "none"}} \cup {Metal("z2"), Metal("z3"), [Metal("z3") EXCEPT !.from = "both"]}
  \cup {Shed, [Shed EXCEPT !.class = "torn"], [Shed EXCEPT !.size = 0], [Shed EXCEPT !.link = "wifi"],
        [Shed EXCEPT !.link = "wifi", !.tainted = TRUE, !.tags = {}],
        [Shed EXCEPT !.link = "wifi", !.tainted = TRUE, !.tags = {}, !.disks = {Disk("d", "/var/lib", FALSE)}]}
Tmpl == {[clusters |-> n, sets |-> s] : n \in {1, 2}, s \in {{Control, v, w} : v, w \in Sets}}
-----------------------------------------------------------------------------
\* AgentGitGuard: two checkouts in every configuration, and commands of one or two segments.
Checkout(branches, heads, modes, ups, pushes, mirrors) ==
  [branch : branches, head : heads, mode : modes, upstream : ups, push : pushes, mirror : mirrors]
ToMain == "topic" :> "main"
Configs ==
  Checkout({"main", "trunk", "topic", ""}, {"trunk"}, {"", "matching", "current", "upstream", "tracking"},
           {<<>>, ToMain, "topic" :> "topic", "fix" :> "trunk"}, {""}, {FALSE})
  \cup Checkout({"topic"}, {"", "trunk"}, {""}, {<<>>}, {"main", "topic", "*", ":"}, {FALSE})
  \cup Checkout({"topic"}, {"trunk"}, {"upstream"}, {<<>>, ToMain}, {"", ":"}, {TRUE})
Checkouts ==
  [a |-> Configs, b |-> {c \in Configs : c.mode = "" /\ c.upstream = <<>> /\ c.push = "" /\ ~c.mirror}]

Git(op, in, flags, remote, refs) ==
  [is |-> "git", op |-> op, in |-> in, flags |-> flags, values |-> 0, remote |-> remote, refs |-> refs, bare |-> {}]
Bare(branches) == [Git("push", "here", {}, TRUE, {}) EXCEPT !.bare = branches]
Cd(d) == [is |-> "cd", dir |-> d]
One == {Git("commit", in, {}, FALSE, {}) : in \in {"here", "b"}}
  \cup {Git("push", in, f, FALSE, {}) : in \in {"here", "b"}, f \in {{}, {"--all"}, {"--al"}}}
  \cup {Git("push", "here", {}, TRUE, refs) : refs \in {{}, {"topic"}, {"main"}, {"*"}, {":"}, {"topic", "trunk"}}}
  \cup {Bare(branches) : branches \in {{"topic"}, {"fix"}, {"HEAD"}, {"main"}}}
  \cup {[Git("push", "here", {}, TRUE, {}) EXCEPT !.values = 1]}
Lines == {<<g>> : g \in One} \cup {<<Cd("b"), g>> : g \in One}
  \cup {<<g, Cd("b"), h>> : g, h \in {x \in One : x.refs \cup x.bare = {} /\ x.flags = {} /\ x.values = 0}}

-----------------------------------------------------------------------------
\* KopiurCoverage: a claim a in every form, beside b, which is backed up as it should be.
Only(x, v) == IF v = "absent" THEN <<>> ELSE x :> v
\* Restores: of the claim's policy or another, in its namespace or another.
Restore(p, t, f) == [policy |-> p, target |-> t, foreign |-> f]
Repos ==
  {[pvcs |-> Only("a", pa) @@ ("b" :> "s"), policies |-> pp @@ ("q" :> [claim |-> "b", manual |-> FALSE]),
    restores |-> r @@ ("s" :> Restore("q", "populator", FALSE)), labelled |-> l] :
     pa \in {"absent", "none", "r", "s"},
     pp \in {<<>>} \cup {"p" :> [claim |-> "a", manual |-> m] : m \in BOOLEAN},
     r \in {<<>>, "r" :> Restore("q", "populator", FALSE)} \cup {"r" :> Restore("p", t, f) : t \in {"populator", "a"}, f \in BOOLEAN},
     l \in BOOLEAN}

-----------------------------------------------------------------------------
\* StorageEvidence: a claim on a Longhorn volume, or on a share of the same handle.
Pvs == [p |-> [driver |-> "driver.longhorn.io", handle |-> "v"], q |-> [driver |-> "nfs.csi.k8s.io", handle |-> "v"]]
ZoneOf == [n1 |-> "z1", n2 |-> "z2"]

-----------------------------------------------------------------------------
\* CrdSchemas: a spec of every form, three levels deep.
Simple(t) == [type |-> t, props |-> <<>>, extra |-> {}, branches |-> {}, preserve |-> FALSE, nullable |-> FALSE, embedded |-> FALSE]
Leaf == {Simple("string"), Simple("intOrString"), [Simple("integer") EXCEPT !.nullable = TRUE]}
Branches == {{}, {[Simple("any") EXCEPT !.props = "a" :> Simple("string")], [Simple("any") EXCEPT !.props = "b" :> Simple("integer")]}}
Middle == {[Simple("object") EXCEPT !.props = p, !.extra = e, !.branches = b, !.preserve = k, !.nullable = n, !.embedded = m] :
             p \in {<<>>} \cup {"a" :> l : l \in Leaf} \cup {("a" :> Simple("string")) @@ ("b" :> Simple("integer"))}, e \in {{}, {Simple("string")}},
             b \in Branches, k \in BOOLEAN, n \in BOOLEAN, m \in BOOLEAN}
Tops == {[Simple("object") EXCEPT !.props = "spec" :> s] : s \in Middle}
        \cup {[Simple("object") EXCEPT !.props = "spec" :> s, !.preserve = TRUE] : s \in Leaf \cup {Simple("object")}}

Null == [is |-> "null"]
S == [is |-> "string"]
I == [is |-> "integer"]
Object(f) == [is |-> "object", fields |-> f]
Specs == {Null, S} \cup {Object(f) : f \in {<<>>} \cup {x :> v : x \in {"a", "b", "typo", "kind", "metadata"}, v \in {Null, S, I, Object("c" :> S)}}
                                        \cup {("a" :> v) @@ ("b" :> w) : v, w \in {S, I}}}
Vals == {Object("spec" :> s) : s \in Specs} \cup {Object(("kind" :> S) @@ ("metadata" :> Object("labels" :> S))), Object("typo" :> S)}

PartsOf(n) == n.extra \cup n.branches \cup {n.props[f] : f \in DOMAIN n.props}
Below(nodesOf) == UNION {PartsOf(n) : n \in nodesOf}
Resources == {[s EXCEPT !.embedded = TRUE] : s \in Tops}
AllNodes ==
  Resources \cup Below(Resources) \cup Below(Below(Resources)) \cup Below(Below(Below(Resources)))
  \cup {Simple("string"), [Simple("object") EXCEPT !.preserve = TRUE]}
\* One more than its deepest part, and than a resource's own fields.
DepthOf[n \in AllNodes] ==
  LET parts == {DepthOf[p] : p \in PartsOf(n)} \cup IF n.embedded THEN {0} ELSE {} IN
  IF parts = {} THEN 0 ELSE 1 + (CHOOSE d \in parts : \A e \in parts : e <= d)
FieldsOf(vals) == UNION {{v.fields[f] : f \in DOMAIN v.fields} : v \in {w \in vals : w.is = "object"}}
AllTerms == Vals \cup FieldsOf(Vals) \cup FieldsOf(FieldsOf(Vals)) \cup FieldsOf(FieldsOf(FieldsOf(Vals)))
=============================================================================
