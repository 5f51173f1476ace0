----------------------------- MODULE PortRoutes -----------------------------
(***************************************************************************)
(* How the addresses of a domain's VMs reach the nodes as ports come, go   *)
(* and move: services/plugin.py's port callbacks, the routes_updated and   *)
(* domain_updated casts, and what an agent makes of them.                  *)
(*                                                                         *)
(* Neutron commits a port change and then calls the plugin, which casts    *)
(* only the difference.  Casts reach a node in the order they were sent,   *)
(* unless a fault intervenes; a sync holds the agent's lock, so they wait  *)
(* until its reply is applied.  One domain, on every node of which it has  *)
(* a port, so that no agent is dormant.  Which waypoints a route carries   *)
(* is the subject of TePaths, what the kernel goes through of NodeRoutes;  *)
(* a route here is the node its outer header is for.                       *)
(***************************************************************************)
EXTENDS Naturals, Sequences, FiniteSets

CONSTANTS
    Nodes, Vms, Addresses,
    Running,        \* ports the VMs may have at first, [Vms -> Port]
    IpSets,         \* the sets of addresses a port may have
    Settled,        \* nodes whose agents have synced before the first step
    Sourced,        \* VMs a source-VM path of the domain names
    None,
    FaultKinds,     \* which faults may happen, a subset of Faults
    MaxOps, MaxFaults, MaxQueue     \* bounds

(* "late"  a worker sends the casts of its event after those of later ones *)
(* "lose"  a cast does not reach a node       "swap"  two casts are applied *)
(*                                                    in the other order    *)
(* "rpc"   sync_state fails or times out      "crash" the agent restarts    *)
Faults == {"late", "lose", "swap", "rpc", "crash"}

\* An address is of one port in a domain (Neutron's IPAM, and the overlap check
\* of attach), and a port that is up or migrates is bound.
ASSUME PortRoutesAssumption ==
    /\ None \notin Nodes
    /\ Sourced \subseteq Vms /\ Settled \subseteq Nodes /\ IpSets \subseteq SUBSET Addresses
    /\ Running \subseteq [Vms -> [host : Nodes \cup {None}, active : BOOLEAN,
                                 ips : SUBSET Addresses, migrating : BOOLEAN]]
    /\ \A p \in Running, u, v \in Vms : u # v => p[u].ips \cap p[v].ips = {}
    /\ \A p \in Running, v \in Vms : p[v].active \/ p[v].migrating => p[v].host # None
    /\ FaultKinds \subseteq Faults
    /\ MaxOps \in Nat /\ MaxFaults \in Nat /\ MaxQueue \in Nat

VARIABLES
    (* Neutron's database and the server's *)
    port,       \* [Vms -> Port]
    registered, \* nodes with a row in srv6_host_locators
    late,       \* casts a slow worker has yet to send
    (* the bus *)
    queue,      \* [Nodes -> casts on their way, oldest first]
    (* an agent *)
    known,      \* nodes whose agent has the domain in self.domains
    locs,       \* [Nodes -> nodes whose locators the agent knows]
    sync,       \* [Nodes -> the payload a sync got and has yet to apply, or None]
    (* a node's kernel *)
    routes,     \* [Nodes -> [Addresses -> the node its encap route leads to, or None]]
    ops, faults

server == <<port, registered>>
vars == <<server, late, queue, known, locs, sync, routes, ops, faults>>

Port == [host : Nodes \cup {None}, active : BOOLEAN, ips : SUBSET Addresses, migrating : BOOLEAN]
Unplugged == [host |-> None, active |-> FALSE, ips |-> {}, migrating |-> FALSE]
Routes == [Addresses -> Nodes \cup {None}]
NoRoutes == [x \in Addresses |-> None]

Cast == [type : {"add", "full"}, to : Routes, locs : SUBSET Nodes]
        \cup [type : {"remove"}, from : (SUBSET Addresses) \ {{}}]

\* No payload is mistaken for the lack of one.
ASSUME NoneAssumption == None \notin Cast

TypeOK ==
    /\ port \in [Vms -> Port]
    /\ registered \subseteq Nodes
    /\ late \in Seq(Cast)
    /\ queue \in [Nodes -> Seq(Cast)]
    /\ known \subseteq Nodes
    /\ locs \in [Nodes -> SUBSET Nodes]
    /\ sync \in [Nodes -> Cast \cup {None}]
    /\ routes \in [Nodes -> Routes]
    /\ ops \in 0..MaxOps /\ faults \in 0..MaxFaults

\* A port the domain advertises: up, and on a node with a known locator.
Relevant(p, nodes) == p.active /\ p.host \in nodes

\* The route to an address in the full payload.
RouteTo(ports, nodes, x) ==
    LET holders == {v \in Vms : x \in ports[v].ips /\ Relevant(ports[v], nodes)}
    IN  IF holders = {} THEN None ELSE ports[CHOOSE v \in holders : TRUE].host

Payload(ports, nodes) ==
    [type |-> "full", to |-> [x \in Addresses |-> RouteTo(ports, nodes, x)], locs |-> nodes]

\* Mutant: what is local is not told apart.
InstalledEverywhere(n, nodes, m) ==
    [x \in Addresses |-> IF m.to[x] \in nodes THEN m.to[x] ELSE None]

\* What node n installs of a full payload: what it does not name goes.
Installed(n, nodes, m) ==
    [x \in Addresses |-> IF m.to[x] \in nodes \ {n} THEN m.to[x] ELSE None]

\* The other agents have just started.
Init ==
    /\ port \in Running
    /\ registered = Settled
    /\ late = <<>>
    /\ queue = [n \in Nodes |-> <<>>]
    /\ known = Settled
    /\ locs = [n \in Nodes |-> IF n \in Settled THEN Settled ELSE {}]
    /\ sync = [n \in Nodes |-> None]
    /\ routes = [n \in Nodes |-> IF n \in Settled
                                THEN Installed(n, Settled, Payload(port, Settled)) ELSE NoRoutes]
    /\ ops = 0 /\ faults = 0

Op == ops < MaxOps /\ ops' = ops + 1
Fault(kind) == kind \in FaultKinds /\ faults < MaxFaults /\ faults' = faults + 1

-----------------------------------------------------------------------------
(* What the server tells the agents.                                        *)

AddOf(p, ips) ==
    IF ~Relevant(p, registered) \/ ips = {} THEN <<>>
    ELSE << [type |-> "add", locs |-> {},
             to |-> [x \in Addresses |-> IF x \in ips THEN p.host ELSE None]] >>

\* Mutant: an update that took no address away removes nothing, at length.
RemoveOfNothing(p, ips) == IF p.host = None THEN <<>> ELSE << [type |-> "remove", from |-> ips] >>

\* A removal is sent whatever the state of the port.
RemoveOf(p, ips) ==
    IF p.host = None \/ ips = {} THEN <<>> ELSE << [type |-> "remove", from |-> ips] >>

\* Mutant: an address that left is not withdrawn.
FixedIpChangeAddsOnly(old, new) == AddOf(new, new.ips \ old.ips)

\* Only the difference, removals first.
FixedIpChange(old, new) == RemoveOf(old, old.ips \ new.ips) \o AddOf(new, new.ips \ old.ips)

\* A VM that changed node: every domain with a source-VM path of it, in full.
SourceVmMoved(v, old, ports) ==
    IF old.host # ports[v].host /\ v \in Sourced THEN <<Payload(ports, registered)>> ELSE <<>>

\* The casts of a port's update, in the order they are sent.
PortUpdated(v, old, ports) ==
    LET new == ports[v]
    IN  SourceVmMoved(v, old, ports) \o
        IF new.active /\ ~old.active THEN AddOf(new, new.ips)
        ELSE IF old.active /\ ~new.active
        THEN IF old.migrating \/ new.migrating THEN <<>> ELSE RemoveOf(old, old.ips)
        ELSE IF ~new.active THEN <<>>
        ELSE IF old.host # new.host /\ None \notin {old.host, new.host}
        THEN RemoveOf(old, old.ips) \o AddOf(new, new.ips)
        ELSE FixedIpChange(old, new)

\* Its source-VM paths are gone with the port, but not from the nodes.
PortDeleted(v, old, ports) ==
    RemoveOf(old, old.ips) \o
    IF v \in Sourced THEN <<Payload(ports, registered)>> ELSE <<>>

Fanout(casts) ==
    /\ queue' = [n \in Nodes |-> queue[n] \o casts]
    /\ \A n \in Nodes : Len(queue'[n]) <= MaxQueue

-----------------------------------------------------------------------------
(* Neutron and nova.  Each change commits and calls back; a slow worker's   *)
(* casts wait in `late`.                                                    *)

Send(casts) ==
    \/ Fanout(casts) /\ UNCHANGED <<late, faults>>
    \/ Fault("late") /\ casts # <<>> /\ late = <<>> /\ late' = casts /\ UNCHANGED queue

agents == <<known, locs, sync, routes>>

Change(v, new, Casts(_, _, _)) ==
    /\ Op
    /\ port' = [port EXCEPT ![v] = new]
    /\ Send(Casts(v, port[v], [port EXCEPT ![v] = new]))
    /\ UNCHANGED <<registered, agents>>

Taken == UNION {port[v].ips : v \in Vms}

\* A VM boots: its port is bound and comes up.
Plug(v, h, ips) ==
    /\ port[v] = Unplugged
    /\ ips # {} /\ ips \cap Taken = {}
    /\ Change(v, [host |-> h, active |-> TRUE, ips |-> ips, migrating |-> FALSE], PortUpdated)

\* It stops, or comes back where it was.
Down(v) ==
    /\ port[v].active /\ ~port[v].migrating
    /\ Change(v, [port[v] EXCEPT !.active = FALSE], PortUpdated)
Up(v) ==
    /\ port[v].host # None /\ ~port[v].active /\ ~port[v].migrating
    /\ Change(v, [port[v] EXCEPT !.active = TRUE], PortUpdated)

\* A live port bound to another node in one update; a stopped one likewise.
Rebind(v, h) ==
    /\ port[v].host \notin {None, h} /\ ~port[v].migrating
    /\ Change(v, [port[v] EXCEPT !.host = h], PortUpdated)

\* Not while nova has the port down for a migration: registry_port_updated has
\* no branch for that, and the address that left keeps its route until a resync.
Readdress(v, ips) ==
    /\ port[v].host # None
    /\ port[v].active \/ ~port[v].migrating
    /\ ips \notin {{}, port[v].ips} /\ (ips \ port[v].ips) \cap Taken = {}
    /\ Change(v, [port[v] EXCEPT !.ips = ips], PortUpdated)

Delete(v) ==
    /\ port[v].host # None
    /\ Change(v, Unplugged, PortDeleted)

\* A live migration: nova marks the port, takes it down while the VM still
\* runs on its source, binds it to the destination and brings it up there.
Migrate(v) ==
    /\ port[v].active /\ ~port[v].migrating
    /\ Change(v, [port[v] EXCEPT !.migrating = TRUE], PortUpdated)
MigrateDown(v) ==
    /\ port[v].active /\ port[v].migrating
    /\ Change(v, [port[v] EXCEPT !.active = FALSE], PortUpdated)
MigrateBind(v, h) ==
    /\ port[v].migrating /\ ~port[v].active /\ port[v].host # h
    /\ Change(v, [port[v] EXCEPT !.host = h], PortUpdated)
MigrateUp(v) ==
    /\ port[v].migrating /\ ~port[v].active
    /\ Change(v, [port[v] EXCEPT !.active = TRUE, !.migrating = FALSE], PortUpdated)

LateCasts ==
    /\ late # <<>>
    /\ Fanout(late)
    /\ late' = <<>>
    /\ UNCHANGED <<server, agents, ops, faults>>

-----------------------------------------------------------------------------
(* The agents.                                                              *)

\* Mutant: as it once was, a full payload only adds.
ApplyFullAdds(n, m) ==
    /\ known' = known \cup {n}
    /\ locs' = [locs EXCEPT ![n] = @ \cup m.locs]
    /\ routes' = [routes EXCEPT ![n] = [x \in Addresses |->
                     LET h == Installed(n, locs[n] \cup m.locs, m)[x]
                     IN  IF h = None THEN @[x] ELSE h]]

\* A full payload is the whole domain.
ApplyFull(n, m) ==
    /\ known' = known \cup {n}
    /\ locs' = [locs EXCEPT ![n] = @ \cup m.locs]
    /\ routes' = [routes EXCEPT ![n] = Installed(n, locs[n] \cup m.locs, m)]

\* An address that is local now loses its route, one whose node is not known
\* yet is skipped.
AddRoutes(held, n, m) ==
    [x \in Addresses |-> CASE m.to[x] = n -> None
                           [] m.to[x] \in locs[n] \ {n} -> m.to[x]
                           [] OTHER -> held[x]]

\* Whichever node the route leads to.
RemoveRoutes(held, m) == [x \in Addresses |-> IF x \in m.from THEN None ELSE held[x]]

RoutesUpdated(n, m) ==
    /\ n \in known
    /\ routes' = [routes EXCEPT ![n] =
                     IF m.type = "add" THEN AddRoutes(@, n, m) ELSE RemoveRoutes(@, m)]
    /\ UNCHANGED <<known, locs>>

\* handle_sync_state: a new locator makes the server tell everyone.
Reply(n, q) ==
    LET p == Payload(port, registered \cup {n})
    IN  /\ registered' = registered \cup {n}
        /\ sync' = [sync EXCEPT ![n] = p]
        /\ queue' = IF n \in registered THEN q ELSE [m \in Nodes |-> Append(q[m], p)]

\* At a start and on the resync interval.
Sync(n) ==
    /\ sync[n] = None
    /\ Reply(n, queue)
    /\ UNCHANGED <<port, late, known, locs, routes, ops, faults>>

SyncApplies(n) ==
    /\ sync[n] # None
    /\ ApplyFull(n, sync[n])
    /\ sync' = [sync EXCEPT ![n] = None]
    /\ UNCHANGED <<server, late, queue, ops, faults>>

SyncFails(n) ==
    /\ Fault("rpc")
    /\ sync[n] # None
    /\ sync' = [sync EXCEPT ![n] = None]
    /\ UNCHANGED <<server, late, queue, known, locs, routes, ops>>

Popped(n) == [queue EXCEPT ![n] = Tail(@)]
HeadOf(n) == Head(queue[n])

Deliver(n) ==
    /\ sync[n] = None /\ queue[n] # <<>>
    /\ \/ HeadOf(n).type = "full" /\ ApplyFull(n, HeadOf(n))
       \/ HeadOf(n).type # "full" /\ RoutesUpdated(n, HeadOf(n))
    /\ queue' = Popped(n)
    /\ UNCHANGED <<server, late, sync, ops, faults>>

\* Routes of an unknown domain: a sync, unless there was one within the last
\* UNKNOWN_NETWORK_SYNC_HOLDOFF seconds.
DeliverUnknown(n) ==
    /\ sync[n] = None /\ queue[n] # <<>>
    /\ HeadOf(n).type # "full" /\ n \notin known
    /\ \/ queue' = Popped(n) /\ UNCHANGED <<registered, sync>>
       \/ Reply(n, Popped(n))
    /\ UNCHANGED <<port, late, known, locs, routes, ops, faults>>

Lose(n) ==
    /\ Fault("lose")
    /\ queue[n] # <<>>
    /\ queue' = Popped(n)
    /\ UNCHANGED <<server, late, agents, ops>>

Swap(n) ==
    /\ Fault("swap")
    /\ Len(queue[n]) >= 2
    /\ queue' = [queue EXCEPT ![n] = <<@[2], @[1]>> \o SubSeq(@, 3, Len(@))]
    /\ UNCHANGED <<server, late, agents, ops>>

\* The process restarts: its memory and its queue go, the routes stay.
Crash(n) ==
    /\ Fault("crash")
    /\ known' = known \ {n}
    /\ locs' = [locs EXCEPT ![n] = {}]
    /\ sync' = [sync EXCEPT ![n] = None]
    /\ queue' = [queue EXCEPT ![n] = <<>>]
    /\ UNCHANGED <<server, late, routes, ops>>

PortChange(v) ==
    \/ Down(v) \/ Up(v) \/ Delete(v) \/ Migrate(v) \/ MigrateDown(v) \/ MigrateUp(v)
    \/ \E h \in Nodes : Rebind(v, h) \/ MigrateBind(v, h)
    \/ \E ips \in IpSets : Readdress(v, ips)
    \/ \E h \in Nodes, ips \in IpSets : Plug(v, h, ips)

Agent(n) ==
    \/ Sync(n) \/ SyncApplies(n) \/ SyncFails(n)
    \/ Deliver(n) \/ DeliverUnknown(n) \/ Lose(n) \/ Swap(n) \/ Crash(n)

Next ==
    \/ \E v \in Vms : PortChange(v)
    \/ LateCasts
    \/ \E n \in Nodes : Agent(n)

Spec == Init /\ [][Next]_vars

\* Workers send, and the resync loop of every agent runs for good.
FairSpec ==
    /\ Spec
    /\ WF_vars(LateCasts)
    /\ \A n \in Nodes : WF_vars(Sync(n)) /\ WF_vars(SyncApplies(n))

-----------------------------------------------------------------------------
\* Where a node's route to an address ought to lead.
Due(n, x) ==
    LET h == RouteTo(port, registered, x) IN IF h = n THEN None ELSE h

\* A VM nova has taken down for a live migration still runs: its route may stay.
InFlight(x) == \E v \in Vms : x \in port[v].ips /\ port[v].migrating /\ ~port[v].active

\* A VM on a node without a locator: nothing can be sent there, and a VM that
\* came by a live migration keeps its old route until the node registers.
Stranded(x) ==
    \E v \in Vms : x \in port[v].ips /\ port[v].active /\ port[v].host \notin registered

Match(n) == \A x \in Addresses : routes[n][x] = Due(n, x) \/ InFlight(x) \/ Stranded(x)

\* Increments are enough: with casts that arrive in order and none lost, once
\* they are all applied every node that knows the domain has exactly the routes
\* it should, whatever the ports went through, without a resync in between.
IncrementsSuffice ==
    faults = 0 /\ late = <<>> /\ (\A n \in Nodes : queue[n] = <<>> /\ sync[n] = None)
        => \A n \in known : Match(n)

\* A node never sends an address it hosts, or ever hosted, out to itself, nor
\* one to a node without a locator: there is no SID to send it to.
RoutesReachable ==
    \A n \in Nodes, x \in Addresses : routes[n][x] \in {None} \cup (registered \ {n})

\* Lost and swapped casts, slow workers, failed syncs and restarts are made good
\* by the resync loop: the routes end up right and stay so.
RoutesConverge == <>[](\A n \in Nodes : Match(n))

\* A live migration keeps the VM's route until the destination's replaces it, as
\* registry_port_updated says ("route kept").
RouteKept ==
    \A v \in Vms, n \in Nodes :
        port[v].migrating /\ port'[v] = port[v]
            => \A x \in port[v].ips : routes[n][x] # None => routes'[n][x] # None \/ n = port[v].host
MigrationKeepsRoute == [][RouteKept]_vars
=============================================================================
