--------------------------- MODULE StorageEvidence ---------------------------
(***************************************************************************)
(* collect-storage-evidence.py in cluster mode: one kubectl query after    *)
(* the other while the cluster goes on, any of which may fail, and the     *)
(* report of which zones hold a claim's replicas.  Two people may write to *)
(* one file.  The disks that are listed beside it are left out.            *)
(***************************************************************************)
EXTENDS Naturals, Sequences, FiniteSets, Functions

CONSTANTS
  Claims, Nodes,
  PVs,          \* persistent volumes, by name: driver and handle, that claims may be bound to
  Zone,         \* a node's zone
  MaxChanges,   \* bound: changes of the cluster during a collection
  MaxFailures   \* bound: queries of a collection that fail

VARIABLES
  bound,     \* each claim's volumeName, or "none"
  nodes,     \* the nodes of the cluster
  replicas,  \* Longhorn's replicas by volume; its volumes are those with an entry
  raw,       \* the results so far: "collected" with data, or "unavailable"
  report,    \* what is about to be written: a record by claim, and partial; or <<>>
  since,     \* the states of the cluster since the collection began
  changes

cluster == <<bound, nodes, replicas>>
vars == <<cluster, raw, report, since, changes>>

Handles == {PVs[p].handle : p \in DOMAIN PVs}
Now == [bound |-> bound, nodes |-> nodes, replicas |-> replicas]

TypeOK ==
  /\ bound \in [Claims -> DOMAIN PVs \cup {"none"}] /\ nodes \subseteq Nodes
  /\ DOMAIN replicas \subseteq Handles /\ \A v \in DOMAIN replicas : replicas[v] \subseteq Nodes
  /\ Len(raw) <= 5 /\ changes \in 0 .. MaxChanges

Init ==
  /\ bound = [c \in Claims |-> "none"] /\ nodes = Nodes /\ replicas = <<>>
  /\ raw = <<>> /\ report = <<>> /\ since = {Now} /\ changes = 0

-----------------------------------------------------------------------------
(* run() and items() *)

\* What each query sees.
Queries == <<"nodes", "claims", "persistentvolumes", "longhorn_volumes", "longhorn_replicas">>
Seen(q) ==
  CASE q = "nodes" -> nodes
    [] q = "claims" -> bound
    [] q = "persistentvolumes" -> DOMAIN PVs
    [] q = "longhorn_volumes" -> DOMAIN replicas
    [] q = "longhorn_replicas" -> replicas

Failed == Cardinality({k \in DOMAIN raw : raw[k].status # "collected"})

Query ==
  /\ Len(raw) < 5
  /\ \/ raw' = Append(raw, [status |-> "collected", data |-> Seen(Queries[Len(raw) + 1])])
     \/ Failed < MaxFailures /\ raw' = Append(raw, [status |-> "unavailable"])
  /\ UNCHANGED <<cluster, report, since, changes>>

Items(k) == IF raw[k].status = "collected" THEN raw[k].data ELSE <<>>
SetItems(k) == IF raw[k].status = "collected" THEN raw[k].data ELSE {}

-----------------------------------------------------------------------------
(* summarize_cluster() *)

\* Mutant: whoever's handle it is.
HandleOf(c) == LET pv == Items(2)[c] IN IF pv \in SetItems(3) THEN PVs[pv].handle ELSE "none"

\* A claim's Longhorn volume: that of its persistent volume, if Longhorn made it.
Handle(c) ==
  LET pv == Items(2)[c] IN
  IF pv \in SetItems(3) /\ PVs[pv].driver = "driver.longhorn.io" THEN PVs[pv].handle ELSE "none"

Placement(v) == IF v \in DOMAIN Items(5) THEN Items(5)[v] ELSE {}

\* Mutant: replicas on nodes that are not known are not counted.
RecordKnown(c) ==
  LET v == Handle(c) IN
  IF v \notin SetItems(4) THEN [volume |-> "none"]
  ELSE [volume |-> v, zones |-> {Zone[n] : n \in Placement(v) \cap SetItems(1)}, unknown |-> 0]

Record(c) ==
  LET v == Handle(c) IN
  IF v \notin SetItems(4) THEN [volume |-> "none"]
  ELSE [volume |-> v, zones |-> {Zone[n] : n \in Placement(v) \cap SetItems(1)},
        unknown |-> Cardinality(Placement(v) \ SetItems(1))]

\* Mutant: a claim without a volume needs no volumes.
PartialHere == \E k \in 1 .. 3 : raw[k].status # "collected"

\* Exit code 2.
Partial == \E k \in 1 .. 5 : raw[k].status # "collected"

Summarize ==
  /\ Len(raw) = 5 /\ report = <<>>
  /\ report' = [claims |-> [c \in DOMAIN Items(2) |-> Record(c)], partial |-> Partial, saw |-> raw[5]]
  /\ UNCHANGED <<cluster, raw, since, changes>>

-----------------------------------------------------------------------------
(* The cluster; between collections its changes are free *)

Change ==
  /\ raw = <<>> \/ (changes < MaxChanges /\ Len(raw) < 5)
  /\ \/ \E c \in Claims : bound' \in {[bound EXCEPT ![c] = p] : p \in DOMAIN PVs \cup {"none"}} /\ UNCHANGED <<nodes, replicas>>
     \/ nodes' \in {nodes \cup {n} : n \in Nodes} \cup {nodes \ {n} : n \in Nodes} /\ UNCHANGED <<bound, replicas>>
     \/ \E v \in Handles :
          /\ IF v \in DOMAIN replicas
               THEN replicas' \in {[replicas EXCEPT ![v] = @ \cup {n}] : n \in nodes} \cup {[replicas EXCEPT ![v] = @ \ {n}] : n \in Nodes}
                                  \cup {Restrict(replicas, DOMAIN replicas \ {v})}
               ELSE replicas' = [w \in DOMAIN replicas \cup {v} |-> IF w = v THEN {} ELSE replicas[w]]
          /\ UNCHANGED <<bound, nodes>>
  /\ since' = IF raw = <<>> THEN {Now'} ELSE since \cup {Now'}
  /\ changes' = IF raw = <<>> THEN 0 ELSE changes + 1
  /\ UNCHANGED <<raw, report>>

Next == Query \/ Summarize \/ Change
Spec == Init /\ [][Next]_vars

-----------------------------------------------------------------------------
(* Properties *)

Volume(s, c) ==
  LET p == s.bound[c] IN IF p \in DOMAIN PVs /\ PVs[p].driver = "driver.longhorn.io" THEN PVs[p].handle ELSE "none"

True(s, c) ==
  LET v == Volume(s, c) IN
  IF v \notin DOMAIN s.replicas THEN [volume |-> "none"]
  ELSE [volume |-> v, zones |-> {Zone[n] : n \in s.replicas[v] \cap s.nodes},
        unknown |-> Cardinality(s.replicas[v] \ s.nodes)]

\* What a claim's record is made of: its volume, the replicas and which of them are on nodes.
\* (The record itself may stay as it is while a replica moves between nodes of a zone.)
Placed(s, c) ==
  LET v == Volume(s, c) IN
  IF v \notin DOMAIN s.replicas THEN <<v>> ELSE <<v, s.replicas[v], s.replicas[v] \cap s.nodes>>

\* "deliberately distinguish": a report that is not PARTIAL says of a claim what was true
\* of it, if that did not change while the queries ran; above all "longhorn: null" means
\* there is no such volume.
ExactWhereQuiet ==
  report # <<>> /\ ~report.partial =>
    \A c \in Claims : (\A s, t \in since : Placed(s, c) = Placed(t, c) /\ s.bound[c] = t.bound[c])
      => \A s \in since : report.claims[c] = True(s, c)

\* Whatever changes or fails, no zone is reported that did not hold a replica of a volume
\* the claim was bound to, and no replica is passed over.
NoFalseSpread ==
  report # <<>> => \A c \in DOMAIN report.claims : LET r == report.claims[c] IN r.volume # "none" =>
    /\ \E s \in since : s.bound[c] \in DOMAIN PVs /\ PVs[s.bound[c]] = [driver |-> "driver.longhorn.io", handle |-> r.volume]
    /\ \A z \in r.zones : \E s \in since : r.volume \in DOMAIN s.replicas /\ \E n \in s.replicas[r.volume] : Zone[n] = z
    /\ report.saw.status = "collected" /\ r.volume \in DOMAIN report.saw.data =>
         Cardinality(report.saw.data[r.volume]) = Cardinality({n \in report.saw.data[r.volume] : Zone[n] \in r.zones}) + r.unknown
       \/ r.unknown > 0
=============================================================================
