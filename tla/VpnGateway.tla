------------------------------ MODULE VpnGateway ------------------------------
(***************************************************************************)
(* One VPN gateway (vpn-egress/scripts/gateway.sh): a shell script in the  *)
(* host network of a node builds a WireGuard link in the kernel, probes    *)
(* through it and reports.  The kernel state outlives the script, the      *)
(* script restarts at any line (set -e, SIGTERM, eviction), the mounted    *)
(* config changes under it, and the node reboots.                          *)
(***************************************************************************)
EXTENDS Naturals

CONSTANTS
  Confs,            \* versions of this node's Proton config
  Addrs,            \* tunnel addresses
  AddrOf(_),        \* the Address line of a config
  NoConf, NoAddr,   \* "not set yet"
  FailsBeforeDown   \* FAILS_BEFORE_DOWN

ASSUME GatewayAssumption ==
  /\ \A c \in Confs : AddrOf(c) \in Addrs
  /\ NoConf \notin Confs
  /\ NoAddr \notin Addrs
  /\ FailsBeforeDown \in Nat \ {0}

VARIABLES
  \* the node
  conf,       \* the config file as mounted now
  rules,      \* addresses with "ip rule from <addr> lookup 51820"
  blackhole,  \* does the tunnel table end in the blackhole?
  route,      \* does the tunnel table have the default route into the link?
  link,       \* the kernel link: exists, the config it runs, its addresses, is it UP
  peers,      \* configs whose Proton peer answers
  calm,       \* no more restarts, reboots, link or config changes, failing calls
  \* the script
  pc,         \* the next command
  addr,       \* ADDR
  sum,        \* conf_sum
  newSum,     \* new_sum
  healthy, fails,
  \* outside
  status      \* ConfigMap vpn-gateway-<node>: what it last said

kernel == <<rules, blackhole, route, link>>
world  == <<conf, peers>>
script == <<addr, sum, newSum, healthy, fails>>
vars == <<kernel, world, calm, pc, script, status>>

NoLink == [exists |-> FALSE, conf |-> NoConf, addrs |-> {}, up |-> FALSE]

\* setup() is a prefix of every start and of every rebuild; the loop follows.
SetupPcs == {"rule", "blackhole", "link", "setconf", "address", "up", "route"}
Pcs == {"start"} \cup SetupPcs \cup {"sum", "check", "readAddr", "probe", "report", "sleep"}

TypeOK ==
  /\ conf \in Confs
  /\ rules \in SUBSET Addrs
  /\ blackhole \in BOOLEAN
  /\ route \in BOOLEAN
  /\ link \in [exists : BOOLEAN, conf : Confs \cup {NoConf}, addrs : SUBSET Addrs,
               up : BOOLEAN]
  /\ peers \in SUBSET Confs
  /\ calm \in BOOLEAN
  /\ pc \in Pcs
  /\ addr \in Addrs \cup {NoAddr}
  /\ sum \in Confs \cup {NoConf}
  /\ newSum \in Confs \cup {NoConf}
  /\ healthy \in BOOLEAN
  /\ fails \in 0 .. FailsBeforeDown
  /\ status \in {"none", "up", "down"}

Init ==
  /\ conf \in Confs
  /\ rules = {}
  /\ blackhole = FALSE
  /\ route = FALSE
  /\ link = NoLink
  /\ peers \in SUBSET Confs
  /\ calm = FALSE
  /\ pc = "start"
  /\ addr = NoAddr
  /\ sum = NoConf
  /\ newSum = NoConf
  /\ healthy = FALSE
  /\ fails = 0
  /\ status = "none"

-----------------------------------------------------------------------------
(* setup "$ADDR" *)

Goto(from, to) == pc = from /\ pc' = to

ReadFirstAddr ==
  /\ Goto("start", "rule")
  /\ addr' = AddrOf(conf)
  /\ UNCHANGED <<kernel, world, calm, sum, newSum, healthy, fails, status>>

AddRule ==
  /\ Goto("rule", "blackhole")
  /\ rules' = rules \cup {addr}
  /\ UNCHANGED <<blackhole, route, link, world, calm, script, status>>

AddBlackhole ==
  /\ Goto("blackhole", "link")
  /\ blackhole' = TRUE
  /\ UNCHANGED <<rules, route, link, world, calm, script, status>>

\* A link that is already there is reused as it is.
AddLink ==
  /\ Goto("link", "setconf")
  /\ link' = IF link.exists THEN link ELSE [NoLink EXCEPT !.exists = TRUE]
  /\ UNCHANGED <<rules, blackhole, route, world, calm, script, status>>

\* wg setconf reads the file anew; every later command needs the link.
SetConf ==
  /\ Goto("setconf", "address")
  /\ link.exists
  /\ link' = [link EXCEPT !.conf = conf]
  /\ UNCHANGED <<rules, blackhole, route, world, calm, script, status>>

\* "ip address replace" adds; an address of an earlier config stays.
AddAddress ==
  /\ Goto("address", "up")
  /\ link.exists
  /\ link' = [link EXCEPT !.addrs = @ \cup {addr}]
  /\ UNCHANGED <<rules, blackhole, route, world, calm, script, status>>

\* Link up, MTU and keepalive.
BringUp ==
  /\ Goto("up", "route")
  /\ link.exists
  /\ link' = [link EXCEPT !.up = TRUE]
  /\ UNCHANGED <<rules, blackhole, route, world, calm, script, status>>

\* The last command of setup(); the first start takes conf_sum after it, a rebuild
\* takes the sum that caused it.
AddRoute ==
  /\ pc = "route"
  /\ link.up
  /\ route' = TRUE
  /\ IF sum = NoConf
       THEN pc' = "sum" /\ UNCHANGED sum
       ELSE pc' = "probe" /\ sum' = newSum
  /\ UNCHANGED <<rules, blackhole, link, world, calm, addr, newSum, healthy, fails, status>>

TakeSum ==
  /\ Goto("sum", "check")
  /\ sum' = conf
  /\ UNCHANGED <<kernel, world, calm, addr, newSum, healthy, fails, status>>

-----------------------------------------------------------------------------
(* The loop. *)

\* Mutant: only a changed config causes a rebuild, not a link that is down.
CheckConfigOnly ==
  /\ pc = "check"
  /\ newSum' = conf
  /\ pc' = IF newSum' # sum THEN "readAddr" ELSE "probe"
  /\ UNCHANGED <<kernel, world, calm, addr, sum, healthy, fails, status>>

\* Rebuild when the config changed or the link is missing or down.
Check ==
  /\ pc = "check"
  /\ newSum' = conf
  /\ pc' = IF newSum' # sum \/ ~link.up THEN "readAddr" ELSE "probe"
  /\ UNCHANGED <<kernel, world, calm, addr, sum, healthy, fails, status>>

\* Mutant: a rebuild trusts the rule of the first start.
ReadAddrKeepRule ==
  /\ Goto("readAddr", "blackhole")
  /\ addr' = AddrOf(conf)
  /\ UNCHANGED <<kernel, world, calm, sum, newSum, healthy, fails, status>>

ReadAddr ==
  /\ Goto("readAddr", "rule")
  /\ addr' = AddrOf(conf)
  /\ UNCHANGED <<kernel, world, calm, sum, newSum, healthy, fails, status>>

\* curl bound to ADDR gets an answer: the address is on the link, its rule leads to
\* the tunnel table and the route there into a link whose peer knows this address.
TunnelWorks ==
  /\ link.up /\ route
  /\ addr \in link.addrs /\ addr \in rules
  /\ link.conf \in peers /\ AddrOf(link.conf) = addr

\* Mutant: the count is not saturated.
ProbeFailsUncapped ==
  /\ fails' = fails + 1
  /\ healthy' = (healthy /\ fails' < FailsBeforeDown)

\* The count saturates where it is compared.
ProbeFails ==
  /\ fails' = IF fails < FailsBeforeDown THEN fails + 1 ELSE fails
  /\ healthy' = (healthy /\ fails' < FailsBeforeDown)

ProbeOk == fails' = 0 /\ healthy' = TRUE

\* A probe through a working tunnel may still time out.
Probe ==
  /\ Goto("probe", "report")
  /\ \/ TunnelWorks /\ ProbeOk
     \/ ~(calm /\ TunnelWorks) /\ ProbeFails
  /\ UNCHANGED <<kernel, world, calm, addr, sum, newSum, status>>

\* A failed PATCH is only logged.
Report ==
  /\ Goto("report", "sleep")
  /\ \/ status' = IF healthy THEN "up" ELSE "down"
     \/ ~calm /\ UNCHANGED status
  /\ UNCHANGED <<kernel, world, calm, script>>

Sleep ==
  /\ Goto("sleep", "check")
  /\ UNCHANGED <<kernel, world, calm, script, status>>

\* set -e: a command on a missing or downed link ends the script.
CommandFails ==
  /\ \/ pc \in {"setconf", "address", "up"} /\ ~link.exists
     \/ pc = "route" /\ ~link.up
  /\ pc' = "start"
  /\ addr' = NoAddr /\ sum' = NoConf /\ newSum' = NoConf
  /\ healthy' = FALSE /\ fails' = 0
  /\ UNCHANGED <<kernel, world, calm, status>>

Script ==
  \/ ReadFirstAddr \/ AddRule \/ AddBlackhole \/ AddLink \/ SetConf \/ AddAddress
  \/ BringUp \/ AddRoute \/ TakeSum \/ Check \/ ReadAddr \/ Probe \/ Report \/ Sleep
  \/ CommandFails

-----------------------------------------------------------------------------
(* The environment. *)

\* The pod dies anywhere; kernel state and status stay.
Restart ==
  /\ ~calm
  /\ pc' = "start"
  /\ addr' = NoAddr /\ sum' = NoConf /\ newSum' = NoConf
  /\ healthy' = FALSE /\ fails' = 0
  /\ UNCHANGED <<kernel, world, calm, status>>

Reboot ==
  /\ ~calm
  /\ rules' = {} /\ blackhole' = FALSE /\ route' = FALSE /\ link' = NoLink
  /\ pc' = "start"
  /\ addr' = NoAddr /\ sum' = NoConf /\ newSum' = NoConf
  /\ healthy' = FALSE /\ fails' = 0
  /\ UNCHANGED <<world, calm, status>>

\* A link that goes down or away takes its routes with it.
LinkLost ==
  /\ ~calm
  /\ link.exists
  /\ link' \in {NoLink, [link EXCEPT !.up = FALSE]}
  /\ route' = FALSE
  /\ UNCHANGED <<rules, blackhole, world, calm, pc, script, status>>

ConfigChanges(c) ==
  /\ ~calm
  /\ conf' = c
  /\ UNCHANGED <<kernel, peers, calm, pc, script, status>>

PeersChange(p) ==
  /\ ~calm
  /\ peers' = p
  /\ UNCHANGED <<kernel, conf, calm, pc, script, status>>

Settle ==
  /\ ~calm
  /\ calm' = TRUE
  /\ UNCHANGED <<kernel, world, pc, script, status>>

Environment ==
  \/ Restart \/ Reboot \/ LinkLost \/ Settle
  \/ \E c \in Confs : ConfigChanges(c)
  \/ \E p \in SUBSET Confs : PeersChange(p)

Next == Script \/ Environment

Spec == Init /\ [][Next]_vars

\* The script runs until it is stopped.
FairSpec == Spec /\ WF_vars(Script)
-----------------------------------------------------------------------------
(* Properties. *)

\* A packet SNATed to a tunnel address never leaves on the LAN NIC: at every step of
\* setup, across config changes, restarts and reboots, an address is on the link only
\* when its rule and the blackhole behind it exist.
NoLeak == \A a \in link.addrs : a \in rules /\ blackhole

\* Once the world is calm the link is up and routed, and the report tells whether
\* traffic passes: a dead tunnel does not stay reported up, a live one not down.
Truthful ==
  /\ link.up /\ route
  /\ status = IF TunnelWorks THEN "up" ELSE "down"

ReportsTruth == <>calm => <>[]Truthful

\* Why NoLeak holds: setup() creates the rule and the blackhole before it needs them,
\* and nothing in the script removes them.
ArmedInv ==
  /\ NoLeak
  /\ pc \in {"blackhole", "link", "setconf", "address"} => addr \in rules
  /\ pc \in {"link", "setconf", "address"} => blackhole
  /\ pc # "start" => addr # NoAddr

\* The script is there to run this node's Proton config: a changed config is applied
\* in the end.
ConfigApplied == <>calm => <>[](link.conf = conf)
=============================================================================
