----------------------------- MODULE OmniContract -----------------------------
(***************************************************************************)
(* The machine sets of the cluster template, as far as                     *)
(* scripts/validate-omni-contract.py checks them, and where Longhorn then  *)
(* puts replicas.  A machine set is a record                               *)
(*   id, kind   its name, "ControlPlane" or "Workers"                      *)
(*   from       "class", "machines" (bare metal) or "both"                 *)
(*   class      its machine class, size the number of machines             *)
(*   zone       the zone label of its nodes, or "none"                     *)
(*   link       "wired" or "wifi", tainted whether wifi keeps pods away    *)
(*   disks      Longhorn disks: name, path and whether they take replicas  *)
(*   tags       Longhorn node tags                                         *)
(* and a class has a provider, the host it creates machines on, and is     *)
(* wellFormed when its numbers are positive and its disks declared.        *)
(***************************************************************************)
EXTENDS Naturals, FiniteSets

CONSTANTS
  Templates,  \* templates git may hold: clusters, sets
  Classes,    \* machine classes by name
  MaxNodes    \* bound: machines that join

VARIABLES
  template,  \* the one that is applied, or NoTemplate
  nodes,     \* the machines that have joined: their set and host
  replicas   \* the nodes that hold a replica of the volume

vars == <<template, nodes, replicas>>

NoTemplate == [clusters |-> 0, sets |-> {}]

TypeOK ==
  /\ template \in Templates \cup {NoTemplate}
  /\ \A n \in nodes : n.set \in template.sets /\ n.number \in 1 .. n.set.size
  /\ replicas \subseteq nodes

-----------------------------------------------------------------------------
(* validate() *)

\* A set of bare-metal machines names them, no class, and its zone.
MetalOk(s) == s.from = "machines" /\ s.zone # "none"

UniqueIn(disks) == \A d, e \in disks : d # e => d.name # e.name /\ d.path # e.path

\* A node behind Wi-Fi takes no ordinary pods and no replicas.
WifiOk(s) ==
  s.link = "wifi" =>
    s.tainted /\ (\A d \in s.disks : ~d.takes) /\ "wired-storage" \notin s.tags

ClassOk(s) ==
  /\ s.class \in DOMAIN Classes /\ s.size > 0
  /\ Classes[s.class].wellFormed
  /\ s.zone # "none"
  /\ UniqueIn(s.disks) /\ WifiOk(s)

\* Mutant: a set at a time.
OneZonePerSet(t) == \A s \in t.sets : s.zone # "none"

\* A provider's machines are on one physical host, so they have one zone.
OneZone(t) ==
  \A s, u \in {x \in t.sets : x.from = "class"} :
    Classes[s.class].provider = Classes[u.class].provider => s.zone = u.zone

\* Mutant: Wi-Fi is the taint's business.
AcceptedUntainted(t) ==
  /\ t.clusters = 1 /\ (\E s \in t.sets : s.kind = "ControlPlane")
  /\ \A s, u \in t.sets : s.id = u.id => s = u
  /\ \A s \in t.sets : IF s.from = "class" THEN ClassOk([s EXCEPT !.link = "wired"]) ELSE MetalOk(s)
  /\ OneZone(t)

Accepted(t) ==
  /\ t.clusters = 1 /\ (\E s \in t.sets : s.kind = "ControlPlane")
  /\ \A s, u \in t.sets : s.id = u.id => s = u
  /\ \A s \in t.sets : IF s.from = "class" THEN ClassOk(s) ELSE MetalOk(s)
  /\ OneZone(t)

-----------------------------------------------------------------------------
(* Omni and Longhorn *)

Init == template = NoTemplate /\ nodes = {} /\ replicas = {}

Apply ==
  /\ template = NoTemplate
  /\ template' \in {t \in Templates : Accepted(t)}
  /\ UNCHANGED <<nodes, replicas>>

\* A bare-metal machine is a host of its own.
Host(s, i) == IF s.from = "class" THEN <<Classes[s.class].provider, 0>> ELSE <<s.id, i>>

Join ==
  /\ Cardinality(nodes) < MaxNodes
  /\ \E s \in template.sets : \E i \in 1 .. s.size :
       nodes' = nodes \cup {[set |-> s, number |-> i, host |-> Host(s, i)]}
  /\ UNCHANGED <<template, replicas>>

\* Machines are replaced; their replicas go with them.
Leave ==
  /\ \E n \in nodes : nodes' = nodes \ {n} /\ replicas' = replicas \ {n}
  /\ UNCHANGED template

\* Two replicas: a tagged node, a disk that takes them, hard anti-affinity between zones.
Place ==
  /\ Cardinality(replicas) < 2
  /\ \E n \in nodes \ replicas :
       /\ "wired-storage" \in n.set.tags /\ \E d \in n.set.disks : d.takes
       /\ \A r \in replicas : r.set.zone # n.set.zone
       /\ replicas' = replicas \cup {n}
  /\ UNCHANGED <<template, nodes>>

Next == Apply \/ Join \/ Leave \/ Place
Spec == Init /\ [][Next]_vars

-----------------------------------------------------------------------------
(* Properties *)

\* "physical-host placement": Longhorn only knows zones, yet whatever joins in whatever
\* order no host ever holds both replicas of a volume.
HostsApart == \A r, q \in replicas : r # q => r.host # q.host

\* No replica behind the Wi-Fi of a provider's host.  (A bare-metal set's link is not
\* looked at.)
ReplicasWired == \A r \in replicas : r.set.from = "class" => r.set.link # "wifi"
=============================================================================
