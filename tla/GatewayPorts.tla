---------------------------- MODULE GatewayPorts ----------------------------
(***************************************************************************)
(* The gateway ports one node keeps for a domain, agent/dataplane.py and   *)
(* the port handlers of agent/agent_extension.py: an OVS internal port per *)
(* local network, named for the network's VLAN, enslaved to the domain's   *)
(* VRF, with the firewall and ARP/ND flows that go with it.                *)
(*                                                                         *)
(* The OVS agent gives networks their VLANs and takes them back on its own *)
(* thread, without the extension's lock; the extension's handlers and the  *)
(* RPC handlers hold the lock and are the steps read, clean, ensure.  The  *)
(* bridge outlives both processes' memory.  One domain; which networks it  *)
(* has comes from the server and is never late here (DomainSync).          *)
(***************************************************************************)
EXTENDS Naturals, FiniteSets

CONSTANTS
    Networks, Vlans, Vms,
    NetOf,              \* [Vms -> network]
    GatewayIps,         \* [Networks -> the addresses its gateway may have]
    Attached,           \* [some Networks -> gateway address]: the domain at first
    MaxOfport,          \* OVS port numbers
    None,
    FaultKinds,         \* which faults may happen, a subset of Faults
    MaxOps, MaxFaults   \* bounds

(* "ovsdb"  br-int's ports unreadable      "device"  no device for a port      *)
(* "flow"   flows are neither set nor      "enslave" it is not enslaved        *)
(*          removed                        "delete"  a port is not deleted     *)
(* "list"   the bridge's names unreadable  "ofport"  a port is made anew by OVS *)
(* "rpc"    a sync fails                   "crash"   the OVS agent restarts    *)
Faults == {"ovsdb", "flow", "list", "rpc", "device", "enslave", "delete", "ofport", "crash"}

\* There are port numbers for all VMs and gateways, and one for a port made anew.
ASSUME GatewayPortsAssumption ==
    /\ NetOf \in [Vms -> Networks]
    /\ DOMAIN Attached \subseteq Networks /\ Attached = [n \in DOMAIN Attached |-> Attached[n]]
    /\ \A n \in DOMAIN Attached : Attached[n] \in GatewayIps[n]
    /\ None \notin Vlans /\ Vlans \subseteq Nat /\ IsFiniteSet(Vlans) /\ IsFiniteSet(Vms)
    /\ MaxOfport \in Nat /\ Cardinality(Vms) + Cardinality(Vlans) < MaxOfport
    /\ None \notin Vms \cup (1..MaxOfport)
    /\ FaultKinds \subseteq Faults /\ MaxOps \in Nat /\ MaxFaults \in Nat

VARIABLES
    wish,       \* the server: [attached networks -> gateway address]
    (* br-int *)
    tap,        \* [Vms -> its port, [of, vlan], or None]
    gw,         \* [Vlans -> the domain's gateway port on it, or None]
    fw,         \* firewall flows of gateway ports
    nd,         \* ARP/ND flows of gateway ports
    (* the OVS agent *)
    lvm,        \* [Networks -> local VLAN or None], its LocalVlanManager
    hint,       \* [Networks -> the VLAN it had before a restart, or None]
    stage,      \* [Vms -> what the agent has done about its port]
    (* the extension's memory *)
    dom,        \* "unknown", "dormant" or "programmed"
    payload,    \* the domain as last applied
    ports,      \* gateway_ports: [Networks -> VLAN of its gateway port, or None]
    flows,      \* gateway_flows: [Vlans -> ofport or None]
    nds,        \* gateway_nd_flows: [Vlans -> the addresses its flows name]
    job,        \* the handler that holds the lock
    scars,      \* history: the faults there were
    ops, faults

bridge == <<gw, fw, nd, ports, flows, nds>>
ovs == <<tap, lvm, hint, stage>>
vars == <<wish, bridge, ovs, dom, payload, job, scars, ops, faults>>

Port == [of : 1..MaxOfport, vlan : Vlans \cup {None}]
Ips == UNION {GatewayIps[n] : n \in Networks}
Gateway == [of : 1..MaxOfport, vrf : BOOLEAN, ips : SUBSET Ips]
ASSUME NoneAssumption == None \notin Port \cup Gateway \cup [Networks -> SUBSET Vlans]

Idle == [kind |-> "idle", step |-> "idle", vm |-> None, present |-> None, vlans |-> None,
         to |-> {}, flaw |-> FALSE]

\* Types; that no two ports have one number, no two networks one VLAN, and no
\* domain without networks is kept.
TypeOK ==
    /\ DOMAIN wish \subseteq Networks /\ \A n \in DOMAIN wish : wish[n] \in GatewayIps[n]
    /\ \A vm \in Vms : tap[vm] = None \/ tap[vm] \in Port
    /\ \A v \in Vlans : gw[v] = None \/ gw[v] \in Gateway
    /\ \A vm \in Vms, v \in Vlans : tap[vm] # None /\ gw[v] # None => tap[vm].of # gw[v].of
    /\ \A f \in fw : f \in [of : 1..MaxOfport, vlan : Vlans, mine : BOOLEAN]
    /\ \A f \in nd : f \in [vlan : Vlans, ip : Ips, mine : BOOLEAN]
    /\ lvm \in [Networks -> Vlans \cup {None}] /\ hint \in [Networks -> Vlans \cup {None}]
    /\ \A m, n \in Networks : lvm[m] = lvm[n] /\ m # n => lvm[m] = None
    /\ stage \in [Vms -> {"none", "bound", "handled", "unbinding"}]
    /\ dom \in {"unknown", "dormant", "programmed"} /\ (dom = "unknown" <=> DOMAIN payload = {})
    /\ ports \in [Networks -> Vlans \cup {None}]
    /\ \A v \in Vlans : flows[v] \in (1..MaxOfport) \cup {None} /\ nds[v] \subseteq Ips
    /\ ops \in 0..MaxOps /\ faults \in 0..MaxFaults

Nothing == [n \in {} |-> None]

\* The agents start on a node without VMs.
Init ==
    /\ wish = Attached
    /\ tap = [vm \in Vms |-> None]
    /\ gw = [v \in Vlans |-> None] /\ fw = {} /\ nd = {}
    /\ lvm = [n \in Networks |-> None] /\ hint = [n \in Networks |-> None]
    /\ stage = [vm \in Vms |-> "none"]
    /\ dom = "unknown" /\ payload = Nothing
    /\ ports = [n \in Networks |-> None]
    /\ flows = [v \in Vlans |-> None] /\ nds = [v \in Vlans |-> {}]
    /\ job = Idle /\ scars = {}
    /\ ops = 0 /\ faults = 0

Op == ops < MaxOps /\ ops' = ops + 1
Fault(k) ==
    \/ k = "ok" /\ UNCHANGED <<faults, scars>>
    \/ /\ k \in FaultKinds /\ faults < MaxFaults /\ faults' = faults + 1
       /\ scars' = scars \cup {k}

-----------------------------------------------------------------------------
(* br-int, with the extension's records of it, as one value s.              *)

Now == [gw |-> gw, fw |-> fw, nd |-> nd, ports |-> ports, flows |-> flows, nds |-> nds]
Becomes(s) ==
    /\ gw' = s.gw /\ fw' = s.fw /\ nd' = s.nd
    /\ ports' = s.ports /\ flows' = s.flows /\ nds' = s.nds

\* OVS gives a new port a number no port has.
Ofport(s) ==
    CHOOSE o \in 1..MaxOfport : /\ \A vm \in Vms : tap[vm] # None => tap[vm].of # o
                               /\ \A v \in Vlans : s.gw[v] # None => s.gw[v].of # o

\* Only flows of this process: delete_flows matches its cookie.
DeleteFlows(s, v, k) ==
    [s EXCEPT !.fw = IF k = "flow" THEN @ ELSE {f \in @ : ~f.mine \/ f.of # s.flows[v]},
              !.flows[v] = None]
DeleteNdFlows(s, v, ips, k) ==
    [s EXCEPT !.nd = IF k = "flow" THEN @ ELSE {f \in @ : ~(f.mine /\ f.vlan = v /\ f.ip \in ips)}]

\* The names of ports that are deleted are forgotten.
Without(f, S, none) == [v \in Vlans |-> IF v \in S THEN none ELSE f[v]]

\* Mutant: the flows are left for whoever gets the number.
DeleteGatewayPortsOnly(s, S, k) ==
    [s EXCEPT !.flows = Without(@, S, None), !.nds = Without(@, S, {}),
              !.gw = IF k = "delete" THEN @ ELSE Without(@, S, None)]

\* One after the other, the flows first: the number and the VLAN may go to
\* somebody else's port.
DeleteGatewayPorts(s, S, k) ==
    [s EXCEPT
        !.fw = IF k = "flow" THEN @ ELSE {f \in @ : ~f.mine \/ \A v \in S : f.of # s.flows[v]},
        !.nd = IF k = "flow" THEN @ ELSE {f \in @ : ~(f.mine /\ f.vlan \in S /\ f.ip \in s.nds[f.vlan])},
        !.flows = Without(@, S, None), !.nds = Without(@, S, {}),
        !.gw = IF k = "delete" THEN @ ELSE Without(@, S, None)]

\* Mutant: those this process remembers.
RememberedGatewayPorts(s, k) == {s.ports[n] : n \in Networks} \ {None}

\* What the bridge has of the domain, whatever this process remembers.
BridgeGatewayPorts(s, k) == IF k = "list" THEN {} ELSE {v \in Vlans : s.gw[v] # None}

\* Every gateway port on a VLAN that no live port of the domain's networks has.
Reconcile(s, wanted, k) ==
    LET leftover == BridgeGatewayPorts(s, k) \ wanted
    IN  [DeleteGatewayPorts(s, leftover, k) EXCEPT
            !.ports = [n \in Networks |-> IF @[n] \in leftover THEN None ELSE @[n]]]

DeleteDomain(s, k) ==
    [DeleteGatewayPorts(s, BridgeGatewayPorts(s, k) \cup ({s.ports[n] : n \in Networks} \ {None}), k)
        EXCEPT !.ports = [n \in Networks |-> None]]

\* A flow with the same match is replaced.
AddFlow(s, v, k) ==
    LET of == s.gw[v].of
    IN  IF k = "flow" THEN s
        ELSE [s EXCEPT !.fw = {f \in @ : f.of # of} \cup {[of |-> of, vlan |-> v, mine |-> TRUE]},
                       !.flows[v] = of]

\* Those of a number it no longer has go first.
EnsureFlows(s, v, k) ==
    AddFlow(IF s.flows[v] \in {None, s.gw[v].of} THEN s ELSE DeleteFlows(s, v, k), v, k)

\* Named by the gateway address; those of an address it no longer has go.
EnsureNdFlows(s, v, ip, k) ==
    LET t == DeleteNdFlows(s, v, s.nds[v] \ {ip}, k)
    IN  [t EXCEPT !.nd = IF k = "flow" THEN @ ELSE @ \cup {[vlan |-> v, ip |-> ip, mine |-> TRUE]},
                  !.nds[v] = IF k = "flow" THEN {} ELSE {ip}]

\* Network n has VLAN v here.  Addresses are added, never removed; a gateway
\* port the network has under another VLAN's name goes.
EnsureGatewayPort(s, n, v, ip, k) ==
    LET made == IF s.gw[v] # None THEN s
                ELSE [s EXCEPT !.gw[v] = [of |-> Ofport(s), vrf |-> FALSE, ips |-> {}]]
        shown == EnsureNdFlows(EnsureFlows(made, v, k), v, ip, k)
        up == [shown EXCEPT !.gw[v].vrf = TRUE, !.gw[v].ips = @ \cup {ip}]
        previous == s.ports[n]
        moved == IF previous \in {None, v} THEN up ELSE DeleteGatewayPorts(up, {previous}, k)
    IN  CASE k = "device"  -> made
          [] k = "enslave" -> shown
          [] OTHER         -> [moved EXCEPT !.ports[n] = v]

-----------------------------------------------------------------------------
(* The VMs and the OVS agent.                                               *)

extension == <<wish, bridge, dom, payload, job>>

\* nova plugs a VM's port into the bridge, and takes it out.
Plug(vm) ==
    /\ Op
    /\ tap[vm] = None /\ stage[vm] = "none"
    /\ tap' = [tap EXCEPT ![vm] = [of |-> Ofport(Now), vlan |-> None]]
    /\ UNCHANGED <<lvm, hint, stage, extension, scars, faults>>
Unplug(vm) ==
    /\ Op
    /\ tap[vm] # None
    /\ tap' = [tap EXCEPT ![vm] = None]
    /\ UNCHANGED <<lvm, hint, stage, extension, scars, faults>>

\* One thread: it is at work on at most one port.
Free == job.kind # "gone" /\ \A vm \in Vms : stage[vm] \notin {"bound", "unbinding"}
Taken == {lvm[n] : n \in Networks} \cup {hint[n] : n \in Networks}

\* port_bound: the network gets a VLAN, its old one after a restart, and the
\* port its tag, before any extension hears of it.
PortBound(vm) ==
    LET n == NetOf[vm]
    IN  /\ Free /\ tap[vm] # None /\ stage[vm] = "none"
        /\ \E v \in IF lvm[n] # None THEN {lvm[n]} ELSE IF hint[n] # None THEN {hint[n]}
                    ELSE Vlans \ Taken :
              /\ lvm' = [lvm EXCEPT ![n] = v]
              /\ tap' = [tap EXCEPT ![vm].vlan = v]
        /\ hint' = [hint EXCEPT ![n] = None]
        /\ stage' = [stage EXCEPT ![vm] = "bound"]
        /\ UNCHANGED <<extension, scars, ops, faults>>

\* port_unbound, after the extension's delete_port: the last port of a network
\* gives its VLAN back.
PortUnbound(vm) ==
    LET n == NetOf[vm]
        others == {o \in Vms \ {vm} : NetOf[o] = n /\ stage[o] # "none"}
    IN  /\ stage[vm] = "unbinding"
        /\ stage' = [stage EXCEPT ![vm] = "none"]
        /\ lvm' = [lvm EXCEPT ![n] = IF others = {} THEN None ELSE @]
        /\ UNCHANGED <<tap, hint, extension, scars, ops, faults>>

\* cleanup_stale_flows, once the first iteration after a start is over.
CleanupStaleFlows ==
    /\ Free /\ \A vm \in Vms : tap[vm] # None => stage[vm] = "handled"
    /\ \E f \in fw \cup nd : ~f.mine
    /\ fw' = {f \in fw : f.mine} /\ nd' = {f \in nd : f.mine}
    /\ UNCHANGED <<wish, gw, ports, flows, nds, ovs, dom, payload, job, scars, ops, faults>>

-----------------------------------------------------------------------------
(* The handlers: each takes the lock and reads br-int's ports,              *)

Present ==
    [n \in Networks |-> {tap[vm].vlan : vm \in {vm \in Vms : tap[vm] # None /\ NetOf[vm] = n}} \ {None}]

Begin(kind, vm) ==
    /\ job = Idle
    /\ \E k \in {"ok", "ovsdb"} :
          /\ Fault(k)
          /\ job' = [Idle EXCEPT !.kind = kind, !.step = "clean", !.vm = vm, !.flaw = k # "ok",
                                 !.present = IF k = "ovsdb" THEN None ELSE Present]
    /\ UNCHANGED <<wish, bridge, ovs, dom, payload, ops>>

HandlePort(vm) == stage[vm] = "bound" /\ Begin("port", vm)

\* The port has left the bridge.  The agent treats what has gone after it has
\* bound what it found, at a start the ports that already have a VLAN.
DeletePort(vm) ==
    /\ Free /\ tap[vm] = None /\ stage[vm] = "handled"
    /\ \A o \in Vms : tap[o] # None /\ tap[o].vlan # None => stage[o] # "none"
    /\ Begin("gone", vm)

\* domain_updated; a sync at the start and on the resync interval.
DomainUpdated == Begin("update", None)
Sync == Begin("sync", None)

(* removes what no live port backs,                                         *)

WantedVlans(p) == UNION {job.present[n] : n \in DOMAIN p}
IsLocal(p) == job.present = None \/ WantedVlans(p) # {}

\* Mutant: no VLAN at all passes for a map not filled yet, and nothing is removed.
CleanedUnlessEmpty(p, k) ==
    IF job.present = None \/ WantedVlans(p) = {} THEN Now ELSE Reconcile(Now, WantedVlans(p), k)

Cleaned(p, k) == IF job.present = None THEN Now ELSE Reconcile(Now, WantedVlans(p), k)

\* The networks of a payload that the OVS agent has bound here.
Bound(p) == {n \in DOMAIN p : lvm[n] # None}
Ensuring(nets, k) ==
    job' = [job EXCEPT !.step = "ensure", !.vlans = lvm, !.to = nets, !.flaw = @ \/ k # "ok"]

CleanKinds == {"ok", "flow", "delete", "list"}

\* handle_port, delete_port: first the gateways of every domain it knows and
\* programs.  A port of a dormant domain means a sync, one of an unknown
\* network may.
CleanForPort ==
    /\ job.step = "clean" /\ job.kind \in {"port", "gone"}
    /\ \E k \in CleanKinds :
          /\ Fault(k)
          /\ Becomes(IF dom = "programmed" THEN Cleaned(payload, k) ELSE Now)
          /\ LET n == NetOf[job.vm]
             IN  \/ /\ job.kind = "gone" \/ dom = "programmed" \/ n \notin DOMAIN payload
                    /\ Ensuring(IF job.kind = "gone" THEN {} ELSE {n} \cap Bound(payload), k)
                 \/ /\ job.kind = "port" /\ (n \notin DOMAIN payload \/ dom = "dormant")
                    /\ job' = [job EXCEPT !.kind = "activate", !.present = Present, !.flaw = @ \/ k # "ok"]
    /\ UNCHANGED <<wish, ovs, dom, payload, ops>>

\* Mutant: a domain that lost its last network is kept.
StatusUnretired(w, sync) == IF ~IsLocal(w) /\ (sync \/ dom # "programmed") THEN "dormant" ELSE "programmed"

\* Retired without networks, dormant without ports here if this is a sync or
\* nothing is programmed, else programmed.
Status(w, sync) ==
    IF w = Nothing THEN "unknown"
    ELSE IF ~IsLocal(w) /\ (sync \/ dom # "programmed") THEN "dormant"
    ELSE "programmed"

\* _apply_domain.  What a dormant domain already left is not removed again.
CleanForDomain ==
    /\ job.step = "clean" /\ job.kind \in {"update", "sync", "activate"}
    /\ payload' = wish
    /\ dom' = Status(wish, job.kind # "update")
    /\ \E k \in CleanKinds :
          /\ Fault(k)
          /\ Becomes(CASE dom' = "unknown"    -> DeleteDomain(Now, k)
                       [] dom' = "dormant"    -> IF dom = "dormant" THEN Now ELSE DeleteDomain(Now, k)
                       [] dom' = "programmed" -> Cleaned(wish, k))
          /\ Ensuring(IF dom' = "programmed" THEN Bound(wish) ELSE {}, k)
    /\ UNCHANGED <<wish, ovs, ops>>

SyncFails ==
    /\ Fault("rpc")
    /\ job.step = "clean" /\ job.kind \in {"sync", "activate"}
    /\ job' = [job EXCEPT !.step = "ensure", !.to = {}, !.flaw = TRUE]
    /\ UNCHANGED <<wish, bridge, ovs, dom, payload, ops>>

(* and makes the gateway ports that are wanted, on the VLANs it read.        *)

Ensure(n) ==
    /\ job.step = "ensure" /\ n \in job.to
    /\ \E k \in {"ok", "device", "flow", "enslave", "delete"} :
          /\ Fault(k)
          /\ Becomes(EnsureGatewayPort(Now, n, job.vlans[n], payload[n], k))
          /\ job' = [job EXCEPT !.to = @ \ {n}, !.flaw = @ \/ k # "ok"]
    /\ UNCHANGED <<wish, ovs, dom, payload, ops>>

Done ==
    /\ job.step = "ensure" /\ job.to = {}
    /\ job' = Idle
    /\ stage' = IF job.vm = None THEN stage
                ELSE [stage EXCEPT ![job.vm] = IF job.kind = "gone" THEN "unbinding" ELSE "handled"]
    /\ UNCHANGED <<wish, bridge, tap, lvm, hint, dom, payload, scars, ops, faults>>

-----------------------------------------------------------------------------
(* The server, OVS, and restarts.                                           *)

SetNetworks(w) ==
    /\ Op
    /\ w # wish
    /\ wish' = w
    /\ UNCHANGED <<bridge, ovs, dom, payload, job, scars, faults>>
Attach(n) == n \notin DOMAIN wish /\ \E ip \in GatewayIps[n] :
                 SetNetworks([m \in DOMAIN wish \cup {n} |-> IF m = n THEN ip ELSE wish[m]])
Detach(n) == SetNetworks([m \in DOMAIN wish \ {n} |-> wish[m]])
MoveGateway(n) == n \in DOMAIN wish /\ \E ip \in GatewayIps[n] : SetNetworks([wish EXCEPT ![n] = ip])

\* Same name, new number.
Recreated(v) ==
    /\ Fault("ofport")
    /\ gw[v] # None
    /\ gw' = [gw EXCEPT ![v].of = Ofport(Now)]
    /\ UNCHANGED <<wish, fw, nd, ports, flows, nds, ovs, dom, payload, job, ops>>

\* The process of both: its memory goes, its flows are of an old cookie; the
\* VLANs are restored from the tags.
Crash ==
    /\ Fault("crash")
    /\ fw' = {[f EXCEPT !.mine = FALSE] : f \in fw}
    /\ nd' = {[f EXCEPT !.mine = FALSE] : f \in nd}
    /\ lvm' = [n \in Networks |-> None]
    /\ hint' = [n \in Networks |->
                    IF Present[n] = {} THEN None ELSE CHOOSE v \in Present[n] : TRUE]
    /\ stage' = [vm \in Vms |-> "none"]
    /\ dom' = "unknown" /\ payload' = Nothing
    /\ ports' = [n \in Networks |-> None]
    /\ flows' = [v \in Vlans |-> None] /\ nds' = [v \in Vlans |-> {}]
    /\ job' = Idle
    /\ UNCHANGED <<wish, gw, tap, ops>>

OvsAgent ==
    \/ \E vm \in Vms : PortBound(vm) \/ PortUnbound(vm) \/ HandlePort(vm) \/ DeletePort(vm)
    \/ CleanupStaleFlows
Work == CleanForPort \/ CleanForDomain \/ SyncFails \/ Done \/ \E n \in Networks : Ensure(n)

Next ==
    \/ \E vm \in Vms : Plug(vm) \/ Unplug(vm)
    \/ \E n \in Networks : Attach(n) \/ Detach(n) \/ MoveGateway(n)
    \/ OvsAgent
    \/ DomainUpdated \/ Sync
    \/ Work
    \/ \E v \in Vlans : Recreated(v)
    \/ Crash

Spec == Init /\ [][Next]_vars

\* The OVS agent's loop and the resync loop run for good, and a handler ends.
FairSpec ==
    /\ Spec
    /\ WF_vars(\E vm \in Vms : PortBound(vm) \/ PortUnbound(vm))
    /\ SF_vars((\E vm \in Vms : HandlePort(vm) \/ DeletePort(vm)) \/ CleanupStaleFlows)
    /\ SF_vars(Sync) /\ WF_vars(Work)
-----------------------------------------------------------------------------
\* A live port of network n on VLAN v.
Live(n, v) == \E vm \in Vms : tap[vm] # None /\ NetOf[vm] = n /\ tap[vm].vlan = v
LiveHandled(n, v) == \E vm \in Vms : tap[vm] # None /\ NetOf[vm] = n /\ tap[vm].vlan = v
                                     /\ stage[vm] = "handled"

\* The domain's gateway is on a VLAN of a network that is not the domain's.
Leaks(n, v) == gw[v] # None /\ Live(n, v) /\ n \notin DOMAIN payload

\* A leftover gateway shares a VLAN with a stranger's network at most until the
\* stranger's first port there has been handled, as long as br-int can be read
\* and written and a sync got through since the start (handle_port: F8).
StrangersHandled ==
    job = Idle /\ dom = "programmed" /\ scars \cap {"ovsdb", "delete", "list"} = {} =>
        \A n \in Networks, v \in Vlans : Leaks(n, v) => ~LiveHandled(n, v)

\* Every flow of this process is in its records, whatever number OVS gives a
\* port that is made anew: nothing else would ever remove it.  And no firewall
\* flow is for the number of somebody else's port, which it would open
\* (_ensure_gateway_flows, _delete_gateway_port).
FlowsHitGateways ==
    "flow" \notin scars =>
        /\ \A f \in fw : f.mine => flows[f.vlan] = f.of
        /\ {f \in nd : f.mine} = UNION {[vlan : {v}, ip : nds[v], mine : {TRUE}] : v \in Vlans}
        /\ "ofport" \notin scars =>
               \A f \in fw, vm \in Vms : f.mine /\ tap[vm] # None => tap[vm].of # f.of

\* A network of the domain with a live port here has its gateway: on its VLAN,
\* in the VRF, with its address and its flows; and nothing else is left.
Served(n) ==
    LET v == lvm[n]
    IN  /\ v # None /\ gw[v] # None /\ gw[v].vrf /\ wish[n] \in gw[v].ips
        /\ [of |-> gw[v].of, vlan |-> v, mine |-> TRUE] \in fw
        /\ [vlan |-> v, ip |-> wish[n], mine |-> TRUE] \in nd
Right ==
    /\ \A n \in DOMAIN wish : (\E v \in Vlans : Live(n, v)) => Served(n)
    /\ \A v \in Vlans : gw[v] # None => \E n \in DOMAIN wish : Live(n, v)

\* Whatever moved, failed or restarted: the resync loop ends with exactly the
\* gateways of the networks that have a VM here; unless a removal failed, which
\* is not tried again for a domain that is dormant or gone (_make_dormant).
GatewaysConverge == <>[](scars \cap {"delete", "list"} = {} => Right)
=============================================================================
