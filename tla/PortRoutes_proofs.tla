-------------------------- MODULE PortRoutes_proofs ---------------------------
(***************************************************************************)
(* For any number of nodes, VMs and addresses.                             *)
(*                                                                         *)
(* However casts are lost, delayed or swapped and agents restart, no node  *)
(* ever has a route to itself or to a node without a locator               *)
(* (RoutesReachable).  By itself that is not inductive: what a node        *)
(* installs comes from a payload that was built some time ago, and from    *)
(* the locators the agent has gathered.  So Inv follows the locators:      *)
(* wherever one is on its way, on the bus, in a slow worker, in a reply or *)
(* in an agent, it is of a registered node, and registrations are for good.*)
(*                                                                         *)
(* And while nothing intervenes, increments suffice (IncrementsSuffice).   *)
(* That speaks of empty queues only; Delivered says what the full ones     *)
(* will have come to when they are.                                        *)
(***************************************************************************)
EXTENDS PortRoutes, SequenceTheorems, TLAPS

\* Casts whose locators are of registered nodes.
SoundCasts == {m \in Cast : m.type = "full" => m.locs \subseteq registered}

LocatorsRegistered ==
    /\ locs \in [Nodes -> SUBSET registered]
    /\ late \in Seq(SoundCasts)
    /\ queue \in [Nodes -> Seq(SoundCasts)]
    /\ sync \in [Nodes -> SoundCasts \cup {None}]

\* A reply that waits to be applied is a full payload.
Replies == \A n \in Nodes : sync[n] # None => sync[n].type = "full"

Inv == TypeOK /\ LocatorsRegistered /\ Replies /\ RoutesReachable

-----------------------------------------------------------------------------
(* What the server sends is sound.                                          *)

LEMMA RouteToTyped ==
    ASSUME NEW ports \in [Vms -> Port], NEW nodes \in SUBSET Nodes, NEW x \in Addresses
    PROVE  RouteTo(ports, nodes, x) \in Nodes \cup {None}
  <1> DEFINE holders == {v \in Vms : x \in ports[v].ips /\ Relevant(ports[v], nodes)}
  <1>1. CASE holders = {}
    BY <1>1 DEF RouteTo
  <1>2. CASE holders # {}
    <2>1. (CHOOSE v \in holders : TRUE) \in holders
      BY <1>2
    <2>2. \A v \in holders : ports[v].host \in Nodes
      BY DEF Relevant
    <2> QED  BY <1>2, <2>1, <2>2 DEF RouteTo
  <1> QED  BY <1>1, <1>2

LEMMA PayloadTyped ==
    ASSUME NEW ports \in [Vms -> Port], NEW nodes \in SUBSET Nodes
    PROVE  /\ Payload(ports, nodes) \in Cast
           /\ Payload(ports, nodes).type = "full"
           /\ Payload(ports, nodes).locs = nodes
  <1>1. [x \in Addresses |-> RouteTo(ports, nodes, x)] \in Routes
    BY RouteToTyped DEF Routes
  <1> QED  BY <1>1 DEF Payload, Cast

LEMMA PayloadSound ==
    ASSUME TypeOK, NEW ports \in [Vms -> Port]
    PROVE  <<Payload(ports, registered)>> \in Seq(SoundCasts)
  <1>1. Payload(ports, registered) \in SoundCasts
    BY PayloadTyped DEF TypeOK, SoundCasts
  <1> QED  BY <1>1

LEMMA IncrementsSound ==
    ASSUME TypeOK, NEW p \in Port, NEW ips \in SUBSET Addresses
    PROVE  AddOf(p, ips) \in Seq(SoundCasts) /\ RemoveOf(p, ips) \in Seq(SoundCasts)
  <1>1. ASSUME Relevant(p, registered)
        PROVE  [type |-> "add", locs |-> {},
                to |-> [x \in Addresses |-> IF x \in ips THEN p.host ELSE None]] \in SoundCasts
    BY <1>1 DEF Relevant, TypeOK, SoundCasts, Cast, Routes
  <1>2. ASSUME ips # {} PROVE [type |-> "remove", from |-> ips] \in SoundCasts
    BY <1>2 DEF SoundCasts, Cast
  <1> QED  BY <1>1, <1>2 DEF AddOf, RemoveOf

LEMMA PortCastsSound ==
    ASSUME TypeOK, NEW v \in Vms, NEW old \in Port, NEW ports \in [Vms -> Port]
    PROVE  /\ PortUpdated(v, old, ports) \in Seq(SoundCasts)
           /\ PortDeleted(v, old, ports) \in Seq(SoundCasts)
  <1> DEFINE new == ports[v]
  <1> DEFINE casts == Seq(SoundCasts)
  <1>1. new \in Port /\ old.ips \in SUBSET Addresses /\ new.ips \in SUBSET Addresses
    BY DEF Port
  <1>2. SourceVmMoved(v, old, ports) \in casts
    BY PayloadSound DEF SourceVmMoved
  <1>3. RemoveOf(old, old.ips) \in casts /\ AddOf(new, new.ips) \in casts
    BY <1>1, IncrementsSound
  <1>4. RemoveOf(old, old.ips \ new.ips) \in casts /\ AddOf(new, new.ips \ old.ips) \in casts
    BY <1>1, IncrementsSound
  <1>5. FixedIpChange(old, new) \in casts
    BY <1>4, ConcatProperties DEF FixedIpChange
  <1>6. RemoveOf(old, old.ips) \o AddOf(new, new.ips) \in casts
    BY <1>3, ConcatProperties
  <1>7. PortUpdated(v, old, ports) \in casts
    <2> DEFINE diff == IF new.active /\ ~old.active THEN AddOf(new, new.ips)
                       ELSE IF old.active /\ ~new.active
                       THEN IF old.migrating \/ new.migrating THEN <<>> ELSE RemoveOf(old, old.ips)
                       ELSE IF ~new.active THEN <<>>
                       ELSE IF old.host # new.host /\ None \notin {old.host, new.host}
                       THEN RemoveOf(old, old.ips) \o AddOf(new, new.ips)
                       ELSE FixedIpChange(old, new)
    <2>1. diff \in casts
      BY <1>3, <1>5, <1>6
    <2>2. PortUpdated(v, old, ports) = SourceVmMoved(v, old, ports) \o diff
      BY DEF PortUpdated
    <2> HIDE DEF diff
    <2> QED  BY <1>2, <2>1, <2>2, ConcatProperties
  <1>8. PortDeleted(v, old, ports) \in casts
    <2>1. (IF v \in Sourced THEN <<Payload(ports, registered)>> ELSE <<>>) \in casts
      BY PayloadSound
    <2> QED  BY <1>3, <2>1, ConcatProperties DEF PortDeleted
  <1> QED  BY <1>7, <1>8

-----------------------------------------------------------------------------
(* Registrations only grow, and what was sound stays so.                    *)

LEMMA SoundGrows ==
    ASSUME registered \subseteq registered'
    PROVE  SoundCasts \subseteq SoundCasts'
  BY DEF SoundCasts, Cast

LEMMA SeqGrows ==
    ASSUME NEW S, NEW T, S \subseteq T, NEW s \in Seq(S)
    PROVE  s \in Seq(T)
  OBVIOUS

\* A step that neither forgets a registration nor makes a cast.
LEMMA ServerGrows ==
    ASSUME LocatorsRegistered, registered \subseteq registered',
           UNCHANGED <<late, queue, sync, locs>>
    PROVE  LocatorsRegistered'
  <1>1. SoundCasts \subseteq SoundCasts'
    BY SoundGrows
  <1>2. \A s \in Seq(SoundCasts) : s \in Seq(SoundCasts')
    BY <1>1, SeqGrows
  <1> QED  BY <1>1, <1>2 DEF LocatorsRegistered

-----------------------------------------------------------------------------
(* The steps of Neutron and the server.                                     *)

LEMMA FanoutSound ==
    ASSUME TypeOK, LocatorsRegistered, NEW casts \in Seq(SoundCasts), Fanout(casts)
    PROVE  queue' \in [Nodes -> Seq(SoundCasts)] /\ queue' \in [Nodes -> Seq(Cast)]
  <1>1. \A n \in Nodes : queue[n] \o casts \in Seq(SoundCasts)
    BY ConcatProperties DEF LocatorsRegistered
  <1>2. SoundCasts \subseteq Cast
    BY DEF SoundCasts
  <1>3. \A n \in Nodes : queue[n] \o casts \in Seq(Cast)
    BY <1>1, <1>2, SeqGrows
  <1> QED  BY <1>1, <1>3 DEF Fanout

LEMMA ChangeKeeps ==
    ASSUME Inv, NEW v \in Vms, NEW new \in Port, NEW casts \in Seq(SoundCasts),
           Op, port' = [port EXCEPT ![v] = new], Send(casts), UNCHANGED <<registered, agents>>
    PROVE  Inv'
  <1> USE PortRoutesAssumption
  <1>1. SoundCasts' = SoundCasts /\ SoundCasts \subseteq Cast
    BY DEF SoundCasts
  <1>2. casts \in Seq(Cast)
    BY <1>1, SeqGrows
  <1>3. /\ queue' \in [Nodes -> Seq(SoundCasts)] /\ queue' \in [Nodes -> Seq(Cast)]
        /\ late' \in Seq(SoundCasts) /\ late' \in Seq(Cast)
        /\ faults' \in 0..MaxFaults
    <2>1. CASE Fanout(casts) /\ UNCHANGED <<late, faults>>
      BY <2>1, FanoutSound DEF Inv, TypeOK, LocatorsRegistered
    <2>2. CASE Fault("late") /\ late' = casts /\ UNCHANGED queue
      BY <2>2, <1>2 DEF Inv, TypeOK, LocatorsRegistered, Fault
    <2> QED  BY <2>1, <2>2 DEF Send
  <1>4. TypeOK'
    BY <1>3 DEF Inv, TypeOK, Op, agents
  <1>5. LocatorsRegistered'
    BY <1>1, <1>3 DEF Inv, LocatorsRegistered, agents
  <1> QED  BY <1>4, <1>5 DEF Inv, Replies, RoutesReachable, agents

LEMMA PortStep ==
    ASSUME Inv, NEW v \in Vms, PortChange(v)
    PROVE  Inv'
  <1> USE PortRoutesAssumption
  <1>0. port[v] \in Port /\ TypeOK
    BY DEF Inv, TypeOK
  <1>1. ASSUME NEW new \in Port, Change(v, new, PortUpdated) PROVE Inv'
    <2>1. [port EXCEPT ![v] = new] \in [Vms -> Port]
      BY DEF Inv, TypeOK
    <2> DEFINE casts == PortUpdated(v, port[v], [port EXCEPT ![v] = new])
    <2>2. casts \in Seq(SoundCasts)
      BY <1>0, <2>1, PortCastsSound
    <2>3. Op /\ port' = [port EXCEPT ![v] = new] /\ Send(casts) /\ UNCHANGED <<registered, agents>>
      BY <1>1 DEF Change
    <2> HIDE DEF casts
    <2> QED  BY <2>2, <2>3, ChangeKeeps
  <1>2. ASSUME NEW new \in Port, Change(v, new, PortDeleted) PROVE Inv'
    <2>1. [port EXCEPT ![v] = new] \in [Vms -> Port]
      BY DEF Inv, TypeOK
    <2> DEFINE casts == PortDeleted(v, port[v], [port EXCEPT ![v] = new])
    <2>2. casts \in Seq(SoundCasts)
      BY <1>0, <2>1, PortCastsSound
    <2>3. Op /\ port' = [port EXCEPT ![v] = new] /\ Send(casts) /\ UNCHANGED <<registered, agents>>
      BY <1>2 DEF Change
    <2> HIDE DEF casts
    <2> QED  BY <2>2, <2>3, ChangeKeeps
  <1>3. CASE Down(v)
    BY <1>0, <1>1, <1>3 DEF Down, Port
  <1>4. CASE Up(v)
    BY <1>0, <1>1, <1>4 DEF Up, Port
  <1>5. CASE Delete(v)
    BY <1>0, <1>2, <1>5 DEF Delete, Unplugged, Port
  <1>6. CASE Migrate(v) \/ MigrateDown(v) \/ MigrateUp(v)
    BY <1>0, <1>1, <1>6 DEF Migrate, MigrateDown, MigrateUp, Port
  <1>7. CASE \E h \in Nodes : Rebind(v, h) \/ MigrateBind(v, h)
    BY <1>0, <1>1, <1>7 DEF Rebind, MigrateBind, Port
  <1>8. CASE \E ips \in IpSets : Readdress(v, ips)
    BY <1>0, <1>1, <1>8 DEF Readdress, Port
  <1>9. CASE \E h \in Nodes, ips \in IpSets : Plug(v, h, ips)
    BY <1>0, <1>1, <1>9 DEF Plug, Port
  <1> QED  BY <1>3, <1>4, <1>5, <1>6, <1>7, <1>8, <1>9 DEF PortChange

LEMMA LateStep ==
    ASSUME Inv, LateCasts
    PROVE  Inv'
  <1>1. SoundCasts' = SoundCasts
    BY DEF LateCasts, server, SoundCasts
  <1>2. queue' \in [Nodes -> Seq(SoundCasts)] /\ queue' \in [Nodes -> Seq(Cast)]
    BY FanoutSound DEF LateCasts, Inv, LocatorsRegistered
  <1>3. late' \in Seq(SoundCasts) /\ late' \in Seq(Cast)
    BY DEF LateCasts
  <1>4. TypeOK'
    BY <1>2, <1>3 DEF LateCasts, server, agents, Inv, TypeOK
  <1> QED
    BY <1>1, <1>2, <1>3, <1>4 DEF LateCasts, server, agents, Inv, LocatorsRegistered, Replies,
                                  RoutesReachable

-----------------------------------------------------------------------------
(* The steps of the agents.                                                 *)

\* What a node installs leads to nodes whose locators it has, never to itself.
LEMMA InstalledReachable ==
    ASSUME NEW n \in Nodes, NEW nodes \in SUBSET Nodes, NEW m, m.to \in Routes
    PROVE  /\ Installed(n, nodes, m) \in Routes
           /\ \A x \in Addresses : Installed(n, nodes, m)[x] \in {None} \cup (nodes \ {n})
  BY DEF Installed, Routes

\* A full payload is applied, whether cast or a reply.
LEMMA FullApplied ==
    ASSUME Inv, NEW n \in Nodes, NEW m \in SoundCasts, m.type = "full", ApplyFull(n, m),
           registered' = registered
    PROVE  /\ known' \subseteq Nodes
           /\ locs' \in [Nodes -> SUBSET Nodes] /\ locs' \in [Nodes -> SUBSET registered]
           /\ routes' \in [Nodes -> Routes] /\ RoutesReachable'
  <1> DEFINE nodes == locs[n] \cup m.locs
  <1>1. m.to \in Routes /\ m.locs \subseteq registered /\ registered \subseteq Nodes
    BY DEF Inv, TypeOK, SoundCasts, Cast
  <1>2. locs[n] \subseteq registered /\ nodes \in SUBSET Nodes /\ nodes \subseteq registered
    BY <1>1 DEF Inv, LocatorsRegistered
  <1>3. locs' = [locs EXCEPT ![n] = nodes]
    BY DEF ApplyFull
  <1> DEFINE new == Installed(n, nodes, m)
  <1>4. routes' = [routes EXCEPT ![n] = new]
    BY DEF ApplyFull
  <1>5. new \in Routes /\ \A x \in Addresses : new[x] \in {None} \cup (registered \ {n})
    BY <1>1, <1>2, InstalledReachable
  <1> HIDE DEF nodes, new
  <1>6. routes' \in [Nodes -> Routes] /\ RoutesReachable'
    BY <1>4, <1>5 DEF Inv, TypeOK, RoutesReachable
  <1>7. known' \subseteq Nodes
    BY DEF ApplyFull, Inv, TypeOK
  <1> QED  BY <1>2, <1>3, <1>6, <1>7 DEF Inv, TypeOK, LocatorsRegistered

\* So are increments.
LEMMA IncrementApplied ==
    ASSUME Inv, NEW n \in Nodes, NEW m \in SoundCasts, m.type # "full", RoutesUpdated(n, m),
           registered' = registered
    PROVE  routes' \in [Nodes -> Routes] /\ RoutesReachable'
  <1>0. registered \subseteq Nodes /\ locs[n] \subseteq registered /\ routes[n] \in Routes
    BY DEF Inv, TypeOK, LocatorsRegistered
  <1> DEFINE new == IF m.type = "add" THEN AddRoutes(routes[n], n, m) ELSE RemoveRoutes(routes[n], m)
  <1>1. routes' = [routes EXCEPT ![n] = new]
    BY DEF RoutesUpdated, Inv, TypeOK
  <1>2. new \in Routes /\ \A x \in Addresses : new[x] \in {None} \cup (registered \ {n})
    <2>1. CASE m.type = "add"
      <3>1. m.to \in Routes
        BY <2>1 DEF SoundCasts, Cast
      <3>2. \A x \in Addresses :
                AddRoutes(routes[n], n, m)[x] \in {None, routes[n][x]} \cup (locs[n] \ {n})
        BY <3>1 DEF AddRoutes
      <3>3. AddRoutes(routes[n], n, m) \in Routes
        BY <1>0, <3>2 DEF AddRoutes, Routes
      <3> QED  BY <1>0, <2>1, <3>2, <3>3 DEF Inv, RoutesReachable
    <2>2. CASE m.type # "add"
      BY <1>0, <2>2 DEF RemoveRoutes, Routes, Inv, RoutesReachable
    <2> QED  BY <2>1, <2>2
  <1> HIDE DEF new
  <1> QED  BY <1>1, <1>2 DEF Inv, TypeOK, RoutesReachable

LEMMA TailSound ==
    ASSUME Inv, NEW n \in Nodes, queue[n] # <<>>
    PROVE  /\ Popped(n) \in [Nodes -> Seq(SoundCasts)] /\ Popped(n) \in [Nodes -> Seq(Cast)]
           /\ HeadOf(n) \in SoundCasts
  <1>1. queue \in [Nodes -> Seq(SoundCasts)] /\ queue \in [Nodes -> Seq(Cast)]
    BY DEF Inv, TypeOK, LocatorsRegistered
  <1>2. Tail(queue[n]) \in Seq(SoundCasts) /\ Tail(queue[n]) \in Seq(Cast)
    BY <1>1, HeadTailProperties
  <1>3. HeadOf(n) \in SoundCasts
    BY <1>1, HeadTailProperties DEF HeadOf
  <1> QED  BY <1>1, <1>2, <1>3 DEF Popped

\* The server's side of a sync: the node is registered from now on.
LEMMA ReplyKeeps ==
    ASSUME Inv, NEW n \in Nodes, NEW q \in [Nodes -> Seq(SoundCasts)], Reply(n, q),
           UNCHANGED <<port, late, known, locs, routes, ops, faults>>
    PROVE  Inv'
  <1> DEFINE p == Payload(port, registered \cup {n})
  <1>1. registered' = registered \cup {n} /\ registered' \in SUBSET Nodes
    BY DEF Reply, Inv, TypeOK
  <1>2. p \in Cast /\ p.type = "full" /\ p.locs = registered'
    BY <1>1, PayloadTyped DEF Inv, TypeOK
  <1>3. sync' = [sync EXCEPT ![n] = p]
    BY DEF Reply
  <1>4. \A m \in Nodes : queue'[m] \in {q[m], Append(q[m], p)}
    BY DEF Reply
  <1>5. DOMAIN queue' = Nodes /\ queue' = [m \in Nodes |-> queue'[m]]
    BY DEF Reply
  <1> HIDE DEF p
  <1>6. p \in SoundCasts' /\ SoundCasts' \subseteq Cast
    BY <1>2 DEF SoundCasts
  <1>7. SoundCasts \subseteq SoundCasts'
    BY <1>1, SoundGrows
  <1>8. \A s \in Seq(SoundCasts) : s \in Seq(SoundCasts')
    BY <1>7, SeqGrows
  <1>9. queue' \in [Nodes -> Seq(SoundCasts')]
    <2>1. ASSUME NEW m \in Nodes PROVE queue'[m] \in Seq(SoundCasts')
      <3>1. q[m] \in Seq(SoundCasts')
        BY <1>8
      <3>2. Append(q[m], p) \in Seq(SoundCasts')
        BY <1>6, <3>1
      <3> QED  BY <1>4, <3>1, <3>2
    <2> QED  BY <1>5, <2>1
  <1>10. queue' \in [Nodes -> Seq(Cast)]
    BY <1>6, <1>9, SeqGrows
  <1>11. TypeOK'
    BY <1>1, <1>2, <1>3, <1>10 DEF Inv, TypeOK
  <1>12. LocatorsRegistered'
    BY <1>1, <1>3, <1>6, <1>7, <1>8, <1>9 DEF Inv, LocatorsRegistered
  <1>13. Replies' /\ RoutesReachable'
    BY <1>1, <1>2, <1>3 DEF Inv, TypeOK, Replies, RoutesReachable
  <1> QED  BY <1>11, <1>12, <1>13 DEF Inv

\* A step that leaves the registrations and the slow worker alone.
LEMMA AgentKeeps ==
    ASSUME Inv, UNCHANGED <<server, late>>,
           queue' \in [Nodes -> Seq(SoundCasts)], sync' \in [Nodes -> SoundCasts \cup {None}],
           Replies', known' \subseteq Nodes, locs' \in [Nodes -> SUBSET registered],
           routes' \in [Nodes -> Routes], RoutesReachable',
           ops' \in 0..MaxOps, faults' \in 0..MaxFaults
    PROVE  Inv'
  <1>1. SoundCasts' = SoundCasts /\ SoundCasts \subseteq Cast
    BY DEF server, SoundCasts
  <1>2. queue' \in [Nodes -> Seq(Cast)]
    BY <1>1, SeqGrows
  <1>3. sync' \in [Nodes -> Cast \cup {None}] /\ locs' \in [Nodes -> SUBSET Nodes]
    BY <1>1 DEF Inv, TypeOK
  <1>4. TypeOK'
    BY <1>2, <1>3 DEF server, Inv, TypeOK
  <1>5. LocatorsRegistered'
    BY <1>1 DEF server, Inv, LocatorsRegistered
  <1> QED  BY <1>4, <1>5 DEF Inv

LEMMA SyncStep ==
    ASSUME Inv, NEW n \in Nodes, Sync(n) \/ SyncApplies(n) \/ SyncFails(n)
    PROVE  Inv'
  <1> USE PortRoutesAssumption
  <1>0. /\ queue \in [Nodes -> Seq(SoundCasts)] /\ sync \in [Nodes -> SoundCasts \cup {None}]
        /\ locs \in [Nodes -> SUBSET registered] /\ TypeOK /\ Replies
    BY DEF Inv, LocatorsRegistered
  <1>1. CASE Sync(n)
    BY <1>0, <1>1, ReplyKeeps DEF Sync
  <1>2. CASE SyncApplies(n)
    <2>1. sync[n] \in SoundCasts /\ sync[n].type = "full" /\ ApplyFull(n, sync[n])
      BY <1>0, <1>2 DEF SyncApplies, Replies
    <2>2. UNCHANGED <<server, late, queue, ops, faults>> /\ sync' = [sync EXCEPT ![n] = None]
      BY <1>2 DEF SyncApplies
    <2>3. Replies' /\ sync' \in [Nodes -> SoundCasts \cup {None}]
      BY <1>0, <2>2 DEF Replies
    <2> QED  BY <1>0, <2>1, <2>2, <2>3, FullApplied, AgentKeeps DEF server, TypeOK
  <1>3. CASE SyncFails(n)
    <2>1. UNCHANGED <<server, late, queue, known, locs, routes, ops>>
          /\ sync' = [sync EXCEPT ![n] = None] /\ faults' \in 0..MaxFaults
      BY <1>0, <1>3 DEF SyncFails, Fault, TypeOK
    <2>2. Replies' /\ sync' \in [Nodes -> SoundCasts \cup {None}]
      BY <1>0, <2>1 DEF Replies
    <2> QED  BY <1>0, <2>1, <2>2, AgentKeeps DEF server, Inv, TypeOK, RoutesReachable
  <1> QED  BY <1>1, <1>2, <1>3

LEMMA BusStep ==
    ASSUME Inv, NEW n \in Nodes, Deliver(n) \/ DeliverUnknown(n) \/ Lose(n) \/ Swap(n)
    PROVE  Inv'
  <1> USE PortRoutesAssumption
  <1>0. /\ queue \in [Nodes -> Seq(SoundCasts)] /\ sync \in [Nodes -> SoundCasts \cup {None}]
        /\ locs \in [Nodes -> SUBSET registered] /\ TypeOK /\ Replies
    BY DEF Inv, LocatorsRegistered
  <1>1. CASE Deliver(n)
    <2>1. HeadOf(n) \in SoundCasts /\ queue' = Popped(n) /\ queue' \in [Nodes -> Seq(SoundCasts)]
      BY <1>1, TailSound DEF Deliver
    <2>2. UNCHANGED <<server, late, sync, ops, faults>>
      BY <1>1 DEF Deliver
    <2>3. CASE HeadOf(n).type = "full" /\ ApplyFull(n, HeadOf(n))
      BY <1>0, <2>1, <2>2, <2>3, FullApplied, AgentKeeps DEF server, TypeOK, Replies
    <2>4. CASE HeadOf(n).type # "full" /\ RoutesUpdated(n, HeadOf(n))
      <3>1. UNCHANGED <<known, locs>>
        BY <2>4 DEF RoutesUpdated
      <3> QED
        BY <1>0, <2>1, <2>2, <2>4, <3>1, IncrementApplied, AgentKeeps DEF server, TypeOK, Replies
    <2> QED  BY <1>1, <2>3, <2>4 DEF Deliver
  <1>2. CASE DeliverUnknown(n)
    <2>1. Popped(n) \in [Nodes -> Seq(SoundCasts)]
      BY <1>2, TailSound DEF DeliverUnknown
    <2>2. UNCHANGED <<port, late, known, locs, routes, ops, faults>>
      BY <1>2 DEF DeliverUnknown
    <2>3. CASE queue' = Popped(n) /\ UNCHANGED <<registered, sync>>
      BY <1>0, <2>1, <2>2, <2>3, AgentKeeps DEF server, Inv, TypeOK, Replies, RoutesReachable
    <2>4. CASE Reply(n, Popped(n))
      BY <2>1, <2>2, <2>4, ReplyKeeps
    <2> QED  BY <1>2, <2>3, <2>4 DEF DeliverUnknown
  <1>3. CASE Lose(n) \/ Swap(n)
    <2>1. UNCHANGED <<server, late, agents, ops>> /\ faults' \in 0..MaxFaults
      BY <1>0, <1>3 DEF Lose, Swap, Fault, TypeOK
    <2>2. queue' \in [Nodes -> Seq(SoundCasts)]
      <3>1. CASE Lose(n)
        BY <3>1, TailSound DEF Lose
      <3>2. CASE Swap(n)
        <4> DEFINE q == queue[n]
        <4>1. q \in Seq(SoundCasts) /\ Len(q) >= 2 /\ Len(q) \in Nat
          BY <1>0, <3>2 DEF Swap
        <4>2. <<q[2], q[1]>> \in Seq(SoundCasts)
          BY <4>1
        <4>3. SubSeq(q, 3, Len(q)) \in Seq(SoundCasts)
          BY <4>1, SubSeqProperties
        <4>4. <<q[2], q[1]>> \o SubSeq(q, 3, Len(q)) \in Seq(SoundCasts)
          BY <4>2, <4>3, ConcatProperties
        <4>5. queue' = [queue EXCEPT ![n] = <<q[2], q[1]>> \o SubSeq(q, 3, Len(q))]
          BY <3>2 DEF Swap
        <4> QED  BY <1>0, <4>4, <4>5
      <3> QED  BY <1>3, <3>1, <3>2
    <2> QED  BY <1>0, <2>1, <2>2, AgentKeeps DEF agents, server, Inv, TypeOK, Replies, RoutesReachable
  <1> QED  BY <1>1, <1>2, <1>3

LEMMA CrashStep ==
    ASSUME Inv, NEW n \in Nodes, Crash(n)
    PROVE  Inv'
  <1> USE PortRoutesAssumption
  <1>0. /\ queue \in [Nodes -> Seq(SoundCasts)] /\ sync \in [Nodes -> SoundCasts \cup {None}]
        /\ locs \in [Nodes -> SUBSET registered] /\ TypeOK /\ Replies
    BY DEF Inv, LocatorsRegistered
  <1>1. UNCHANGED <<server, late, routes, ops>> /\ faults' \in 0..MaxFaults
    BY <1>0 DEF Crash, Fault, TypeOK
  <1>2. queue' = [queue EXCEPT ![n] = <<>>] /\ sync' = [sync EXCEPT ![n] = None]
        /\ locs' = [locs EXCEPT ![n] = {}] /\ known' = known \ {n}
    BY DEF Crash
  <1>3. queue' \in [Nodes -> Seq(SoundCasts)] /\ sync' \in [Nodes -> SoundCasts \cup {None}]
        /\ locs' \in [Nodes -> SUBSET registered] /\ known' \subseteq Nodes /\ Replies'
    BY <1>0, <1>2 DEF TypeOK, Replies
  <1> QED  BY <1>0, <1>1, <1>3, AgentKeeps DEF server, Inv, TypeOK, RoutesReachable

-----------------------------------------------------------------------------
(* That increments suffice.  Once the queues are empty a node's routes are *)
(* the last thing that happened to them, so the invariant says of every    *)
(* node and address what that will be: the last cast on its way that names *)
(* the address leads where the route ought to lead now, and if there is    *)
(* none, the reply in hand, or else the route itself does.  An increment   *)
(* only takes effect if the agent knows the locator by then, so it also    *)
(* says that every increment comes after a payload that teaches it.        *)

Touches(m, a) ==
    \/ m.type = "full"
    \/ m.type = "add" /\ m.to[a] # None
    \/ m.type = "remove" /\ a \in m.from

\* The route node n has to a once m, which touches it, is applied.
Leads(m, n, a) == IF m.type = "remove" \/ m.to[a] = n THEN None ELSE m.to[a]

Quiet(q, a) == \A i \in 1..Len(q) : ~Touches(q[i], a)

\* The last cast of q that touches a leads to one of G.
EndsIn(q, n, a, G) ==
    \A i \in 1..Len(q) :
        Touches(q[i], a) /\ (\A j \in (i + 1)..Len(q) : ~Touches(q[j], a)) => Leads(q[i], n, a) \in G

(* What a port makes of the route to one of its addresses. *)
Lead(p, nodes, a) == IF a \in p.ips /\ Relevant(p, nodes) THEN p.host ELSE None
Loose(p, nodes, a) == /\ a \in p.ips
                      /\ (p.migrating /\ ~p.active) \/ (p.active /\ p.host \notin nodes)

\* The routes node n may have to a, as the ports and the registry are.
Right(ports, nodes, n, a) ==
    IF \E v \in Vms : Loose(ports[v], nodes, a) THEN Nodes \cup {None}
    ELSE {IF RouteTo(ports, nodes, a) = n THEN None ELSE RouteTo(ports, nodes, a)}

OneEach(ports) == \A u, v \in Vms : u # v => ports[u].ips \cap ports[v].ips = {}
BoundPorts(ports) == \A v \in Vms : ports[v].active \/ ports[v].migrating => ports[v].host # None

\* The locators an agent will have before the first full payload in its queue;
\* one that does not know the domain passes over increments until then.
Base(n) ==
    IF sync[n] # None THEN locs[n] \cup sync[n].locs
    ELSE IF n \in known THEN locs[n] ELSE Nodes

\* h is in the last full payload of the first k casts, or without one in base.
Heard(q, k, base, h) ==
    \A j \in 0..k :
        /\ j = 0 \/ q[j].type = "full"
        /\ \A l \in (j + 1)..k : q[l].type # "full"
        => h \in IF j = 0 THEN base ELSE q[j].locs

Taught(q, base, nodes) ==
    /\ \A i \in 1..Len(q), a \in Addresses :
           q[i].type = "add" /\ q[i].to[a] # None => Heard(q, i - 1, base, q[i].to[a])
    /\ \A h \in nodes : Heard(q, Len(q), base, h)

\* Casts name nodes whose locators the server has.
Names(m, nodes) ==
    /\ m.type = "full" => \A a \in Addresses : m.to[a] \in m.locs \cup {None}
    /\ m.type = "add" => \A a \in Addresses : m.to[a] \in nodes \cup {None}

(* Node n is in step if q is what is on its way to it. *)
Named(n, q) ==
    /\ \A i \in 1..Len(q) : Names(q[i], registered)
    /\ sync[n] # None => Names(sync[n], registered)

Arrives(n, q, a) ==
    LET right == Right(port, registered, n, a)
    IN  /\ EndsIn(q, n, a, right)
        /\ Quiet(q, a) /\ sync[n] # None => Leads(sync[n], n, a) \in right
        /\ Quiet(q, a) /\ sync[n] = None /\ n \in known => routes[n][a] \in right

InStepWith(n, q) ==
    /\ Named(n, q)
    /\ Taught(q, Base(n), registered)
    /\ \A a \in Addresses : Arrives(n, q, a)
InStep(n) == InStepWith(n, queue[n])

Delivered ==
    /\ OneEach(port) /\ BoundPorts(port)
    /\ faults = 0 => late = <<>> /\ \A n \in Nodes : InStep(n)

-----------------------------------------------------------------------------
(* Casts in a row.                                                          *)

LEMMA ConcatAt ==
    ASSUME NEW q \in Seq(Cast), NEW c \in Seq(Cast)
    PROVE  /\ q \o c \in Seq(Cast)
           /\ Len(q) \in Nat /\ Len(c) \in Nat /\ Len(q \o c) = Len(q) + Len(c)
           /\ \A i \in 1..Len(q) : (q \o c)[i] = q[i]
           /\ \A i \in 1..Len(c) : (q \o c)[Len(q) + i] = c[i]
           /\ \A i \in 1..Len(q \o c) : i \in 1..Len(q) \/ i - Len(q) \in 1..Len(c)
           /\ \A i \in 1..Len(q \o c) : i > Len(q) => (q \o c)[i] = c[i - Len(q)]
  <1>1. Len(q) \in Nat /\ Len(c) \in Nat /\ q \o c \in Seq(Cast) /\ Len(q \o c) = Len(q) + Len(c)
    BY ConcatProperties, LenProperties
  <1>2. \A i \in 1..Len(q) : (q \o c)[i] = q[i]
    OBVIOUS
  <1>3. \A i \in 1..Len(q \o c) : i > Len(q) => (q \o c)[i] = c[i - Len(q)]
    BY <1>1
  <1>4. \A i \in 1..Len(c) : (q \o c)[Len(q) + i] = c[i]
    BY <1>1, <1>3
  <1> QED  BY <1>1, <1>2, <1>3, <1>4

LEMMA TailAt ==
    ASSUME NEW q \in Seq(Cast), q # <<>>
    PROVE  /\ Tail(q) \in Seq(Cast) /\ Len(q) \in Nat \ {0} /\ Len(Tail(q)) = Len(q) - 1
           /\ \A i \in 1..(Len(q) - 1) : Tail(q)[i] = q[i + 1]
           /\ Head(q) = q[1]
  BY HeadTailProperties, LenProperties

LEMMA QuietConcat ==
    ASSUME NEW q \in Seq(Cast), NEW c \in Seq(Cast), NEW a
    PROVE  Quiet(q \o c, a) <=> Quiet(q, a) /\ Quiet(c, a)
  <1>1. ASSUME Quiet(q \o c, a) PROVE Quiet(q, a) /\ Quiet(c, a)
    <2>1. ASSUME NEW i \in 1..Len(q) PROVE ~Touches(q[i], a)
      BY <1>1, ConcatAt DEF Quiet
    <2>2. ASSUME NEW i \in 1..Len(c) PROVE ~Touches(c[i], a)
      <3>1. Len(q) + i \in 1..Len(q \o c) /\ (q \o c)[Len(q) + i] = c[i]
        BY ConcatAt
      <3> QED  BY <1>1, <3>1 DEF Quiet
    <2> QED  BY <2>1, <2>2 DEF Quiet
  <1>2. ASSUME Quiet(q, a), Quiet(c, a), NEW i \in 1..Len(q \o c)
        PROVE  ~Touches((q \o c)[i], a)
    <2>1. CASE i \in 1..Len(q)
      BY <1>2, <2>1, ConcatAt DEF Quiet
    <2>2. CASE i \notin 1..Len(q)
      <3>1. i - Len(q) \in 1..Len(c) /\ (q \o c)[i] = c[i - Len(q)]
        BY <2>2, ConcatAt
      <3> QED  BY <1>2, <3>1 DEF Quiet
    <2> QED  BY <2>1, <2>2
  <1> QED  BY <1>1, <1>2 DEF Quiet

\* What comes last decides.
LEMMA EndsConcat ==
    ASSUME NEW q \in Seq(Cast), NEW c \in Seq(Cast), NEW n, NEW a, NEW G,
           EndsIn(c, n, a, G), Quiet(c, a) => EndsIn(q, n, a, G)
    PROVE  EndsIn(q \o c, n, a, G)
  <1> DEFINE r == q \o c
  <1> SUFFICES ASSUME NEW i \in 1..Len(r), Touches(r[i], a),
                      \A j \in (i + 1)..Len(r) : ~Touches(r[j], a)
               PROVE  Leads(r[i], n, a) \in G
    BY DEF EndsIn
  <1>1. /\ Len(q) \in Nat /\ Len(c) \in Nat /\ Len(r) = Len(q) + Len(c)
        /\ \A k \in 1..Len(c) : r[Len(q) + k] = c[k]
        /\ \A k \in 1..Len(q) : r[k] = q[k]
        /\ i \in 1..Len(q) \/ i - Len(q) \in 1..Len(c)
    BY ConcatAt
  <1> HIDE DEF r
  <1>2. CASE i \notin 1..Len(q)
    <2> DEFINE k == i - Len(q)
    <2>1. k \in 1..Len(c) /\ r[i] = c[k]
      <3>1. k \in 1..Len(c) /\ i = Len(q) + k
        BY <1>1, <1>2
      <3> QED  BY <1>1, <3>1
    <2>2. ASSUME NEW j \in (k + 1)..Len(c) PROVE ~Touches(c[j], a)
      <3>1. j \in 1..Len(c) /\ Len(q) + j \in (i + 1)..Len(r)
        BY <1>1, <2>1
      <3> QED  BY <1>1, <3>1
    <2> QED  BY <2>1, <2>2 DEF EndsIn
  <1>3. CASE i \in 1..Len(q)
    <2>1. Quiet(c, a)
      <3>1. ASSUME NEW j \in 1..Len(c) PROVE ~Touches(c[j], a)
        <4>1. Len(q) + j \in (i + 1)..Len(r)
          BY <1>1, <1>3
        <4> QED  BY <1>1, <4>1
      <3> QED  BY <3>1 DEF Quiet
    <2>2. ASSUME NEW j \in (i + 1)..Len(q) PROVE ~Touches(q[j], a)
      <3>1. j \in (i + 1)..Len(r) /\ j \in 1..Len(q)
        BY <1>1, <1>3
      <3> QED  BY <1>1, <3>1
    <2> QED  BY <1>1, <1>3, <2>1, <2>2 DEF EndsIn
  <1> QED  BY <1>2, <1>3

LEMMA EndsTail ==
    ASSUME NEW q \in Seq(Cast), q # <<>>, NEW n, NEW a, NEW G, EndsIn(q, n, a, G)
    PROVE  EndsIn(Tail(q), n, a, G)
  <1> SUFFICES ASSUME NEW i \in 1..Len(Tail(q)), Touches(Tail(q)[i], a),
                      \A j \in (i + 1)..Len(Tail(q)) : ~Touches(Tail(q)[j], a)
               PROVE  Leads(Tail(q)[i], n, a) \in G
    BY DEF EndsIn
  <1>1. Len(q) \in Nat /\ Len(Tail(q)) = Len(q) - 1 /\ \A k \in 1..(Len(q) - 1) : Tail(q)[k] = q[k + 1]
    BY TailAt
  <1>2. i + 1 \in 1..Len(q) /\ Tail(q)[i] = q[i + 1]
    BY <1>1
  <1>3. ASSUME NEW j \in (i + 2)..Len(q) PROVE ~Touches(q[j], a)
    <2>1. j - 1 \in (i + 1)..Len(Tail(q)) /\ j - 1 \in 1..(Len(q) - 1)
      BY <1>1
    <2>2. Tail(q)[j - 1] = q[(j - 1) + 1] /\ (j - 1) + 1 = j
      BY <1>1, <2>1
    <2> QED  BY <2>1, <2>2
  <1>4. (i + 1) + 1 = i + 2
    BY <1>1
  <1> QED  BY <1>2, <1>3, <1>4 DEF EndsIn

\* If only the first cast touches a, it is the last that does.
LEMMA QuietTail ==
    ASSUME NEW q \in Seq(Cast), q # <<>>, NEW n, NEW a, NEW G, EndsIn(q, n, a, G), Quiet(Tail(q), a)
    PROVE  IF Touches(Head(q), a) THEN Leads(Head(q), n, a) \in G ELSE Quiet(q, a)
  <1>1. /\ Len(q) \in Nat \ {0} /\ Len(Tail(q)) = Len(q) - 1 /\ Head(q) = q[1]
        /\ \A k \in 1..(Len(q) - 1) : Tail(q)[k] = q[k + 1]
    BY TailAt
  <1>2. ASSUME NEW j \in 2..Len(q) PROVE ~Touches(q[j], a)
    <2>1. j - 1 \in 1..(Len(q) - 1) /\ (j - 1) + 1 = j
      BY <1>1
    <2> QED  BY <1>1, <2>1 DEF Quiet
  <1>3. 1 \in 1..Len(q) /\ \A j \in 1..Len(q) : j = 1 \/ j \in 2..Len(q)
    BY <1>1
  <1>4. \A j \in (1 + 1)..Len(q) : ~Touches(q[j], a)
    BY <1>2
  <1> QED  BY <1>1, <1>2, <1>3, <1>4 DEF EndsIn, Quiet

(* What a row of casts teaches.                                             *)

Fresh(c, nodes) ==
    \A i \in 1..Len(c) : Names(c[i], nodes) /\ (c[i].type = "full" => c[i].locs = nodes)

LEMMA TaughtConcat ==
    ASSUME NEW q \in Seq(Cast), NEW c \in Seq(Cast), NEW base, NEW nodes,
           Taught(q, base, nodes), Fresh(c, nodes), None \notin nodes
    PROVE  Taught(q \o c, base, nodes)
  <1> DEFINE r == q \o c
  <1>1. /\ Len(q) \in Nat /\ Len(c) \in Nat /\ Len(r) = Len(q) + Len(c)
        /\ \A k \in 1..Len(q) : r[k] = q[k]
        /\ \A i \in 1..Len(r) : i \in 1..Len(q) \/ i - Len(q) \in 1..Len(c)
        /\ \A i \in 1..Len(r) : i > Len(q) => r[i] = c[i - Len(q)]
    BY ConcatAt
  <1> HIDE DEF r
  <1>2. ASSUME NEW k \in 0..Len(q), NEW h, Heard(q, k, base, h) PROVE Heard(r, k, base, h)
    <2>1. \A j \in 1..k : r[j] = q[j]
      BY <1>1
    <2>2. \A j \in 0..k : \A l \in (j + 1)..k : l \in 1..k
      OBVIOUS
    <2>3. \A j \in 0..k : j = 0 \/ j \in 1..k
      OBVIOUS
    <2> QED  BY <1>2, <2>1, <2>2, <2>3 DEF Heard
  <1>3. ASSUME NEW k \in Len(q)..Len(r), NEW h \in nodes PROVE Heard(r, k, base, h)
    <2> SUFFICES ASSUME NEW j \in 0..k, j = 0 \/ r[j].type = "full",
                        \A l \in (j + 1)..k : r[l].type # "full"
                 PROVE  h \in IF j = 0 THEN base ELSE r[j].locs
      BY DEF Heard
    <2>1. CASE j > Len(q)
      <3>1. j \in 1..Len(r) /\ j - Len(q) \in 1..Len(c) /\ r[j] = c[j - Len(q)]
        BY <1>1, <2>1
      <3> QED  BY <2>1, <3>1, <1>1 DEF Fresh
    <2>2. CASE j <= Len(q)
      <3>1. j \in 0..Len(q) /\ (j = 0 \/ (j \in 1..Len(q) /\ r[j] = q[j]))
        BY <1>1, <2>2
      <3>2. ASSUME NEW l \in (j + 1)..Len(q) PROVE q[l].type # "full"
        <4>1. l \in (j + 1)..k /\ l \in 1..Len(q)
          BY <1>1, <3>1
        <4> QED  BY <1>1, <4>1
      <3>3. Heard(q, Len(q), base, h)
        BY DEF Taught
      <3> QED  BY <3>1, <3>2, <3>3 DEF Heard
    <2> QED  BY <2>1, <2>2, <1>1
  <1>4. ASSUME NEW i \in 1..Len(r), NEW a \in Addresses, r[i].type = "add", r[i].to[a] # None
        PROVE  Heard(r, i - 1, base, r[i].to[a])
    <2>1. CASE i \in 1..Len(q)
      <3>1. i - 1 \in 0..Len(q) /\ r[i] = q[i]
        BY <1>1, <2>1
      <3>2. Heard(q, i - 1, base, q[i].to[a])
        BY <1>4, <2>1, <3>1 DEF Taught
      <3> QED  BY <1>2, <3>1, <3>2
    <2>2. CASE i \notin 1..Len(q)
      <3>1. i - 1 \in Len(q)..Len(r) /\ i - Len(q) \in 1..Len(c) /\ r[i] = c[i - Len(q)]
        BY <1>1, <2>2
      <3>2. r[i].to[a] \in nodes
        BY <1>4, <3>1 DEF Fresh, Names
      <3> QED  BY <1>3, <3>1, <3>2
    <2> QED  BY <2>1, <2>2
  <1>5. \A h \in nodes : Heard(r, Len(r), base, h)
    BY <1>1, <1>3
  <1> QED  BY <1>4, <1>5 DEF Taught, r

\* A full payload teaches everything at once, also of nodes just registered.
LEMMA TaughtFull ==
    ASSUME NEW q \in Seq(Cast), NEW m \in Cast, NEW base, NEW old, NEW nodes,
           Taught(q, base, old), m.type = "full", m.locs = nodes
    PROVE  Taught(Append(q, m), base, nodes)
  <1> DEFINE r == Append(q, m)
  <1>1. /\ Len(q) \in Nat /\ Len(r) = Len(q) + 1 /\ r[Len(q) + 1] = m
        /\ \A k \in 1..Len(q) : r[k] = q[k]
    BY AppendProperties, LenProperties
  <1> HIDE DEF r
  <1>2. ASSUME NEW k \in 0..Len(q), NEW h, Heard(q, k, base, h) PROVE Heard(r, k, base, h)
    <2>1. \A j \in 1..k : r[j] = q[j]
      BY <1>1
    <2>2. \A j \in 0..k : \A l \in (j + 1)..k : l \in 1..k
      OBVIOUS
    <2>3. \A j \in 0..k : j = 0 \/ j \in 1..k
      OBVIOUS
    <2> QED  BY <1>2, <2>1, <2>2, <2>3 DEF Heard
  <1>3. ASSUME NEW i \in 1..Len(r), NEW a \in Addresses, r[i].type = "add", r[i].to[a] # None
        PROVE  Heard(r, i - 1, base, r[i].to[a])
    <2>1. i \in 1..Len(q)
      <3>1. i = Len(q) + 1 => r[i].type = "full"
        BY <1>1
      <3>2. i # Len(q) + 1
        BY <1>3, <3>1
      <3> QED  BY <1>1, <3>2
    <2>2. i - 1 \in 0..Len(q) /\ r[i] = q[i]
      BY <1>1, <2>1
    <2> QED  BY <1>2, <1>3, <2>1, <2>2 DEF Taught
  <1>4. ASSUME NEW h \in nodes PROVE Heard(r, Len(r), base, h)
    <2> SUFFICES ASSUME NEW j \in 0..Len(r), \A l \in (j + 1)..Len(r) : r[l].type # "full"
                 PROVE  h \in IF j = 0 THEN base ELSE r[j].locs
      BY DEF Heard
    <2>1. j = Len(r)
      <3>1. j # Len(r) => Len(r) \in (j + 1)..Len(r)
        BY <1>1
      <3> QED  BY <1>1, <3>1
    <2> QED  BY <1>1, <2>1
  <1> QED  BY <1>3, <1>4 DEF Taught, r

\* The first cast is applied, or passed over.
LEMMA TaughtTail ==
    ASSUME NEW q \in Seq(Cast), q # <<>>, NEW base, NEW new, NEW nodes, Taught(q, base, nodes),
           IF Head(q).type = "full" THEN Head(q).locs \subseteq new ELSE base \subseteq new
    PROVE  Taught(Tail(q), new, nodes)
  <1> DEFINE r == Tail(q)
  <1>1. /\ Len(q) \in Nat \ {0} /\ Len(r) = Len(q) - 1 /\ Head(q) = q[1]
        /\ \A k \in 1..(Len(q) - 1) : r[k] = q[k + 1]
    BY TailAt
  <1> HIDE DEF r
  <1>2. ASSUME NEW k \in 0..Len(r), NEW h, Heard(q, k + 1, base, h) PROVE Heard(r, k, new, h)
    <2> SUFFICES ASSUME NEW j \in 0..k, j = 0 \/ r[j].type = "full",
                        \A l \in (j + 1)..k : r[l].type # "full"
                 PROVE  h \in IF j = 0 THEN new ELSE r[j].locs
      BY DEF Heard
    <2>1. ASSUME NEW l \in (j + 2)..(k + 1) PROVE q[l].type # "full"
      <3>1. l - 1 \in (j + 1)..k /\ l - 1 \in 1..(Len(q) - 1) /\ (l - 1) + 1 = l
        BY <1>1
      <3>2. r[l - 1] = q[(l - 1) + 1]
        BY <1>1, <3>1
      <3> QED  BY <3>1, <3>2
    <2>2. CASE j # 0
      <3>1. j \in 1..(Len(q) - 1) /\ r[j] = q[j + 1] /\ j + 1 \in 0..(k + 1)
            /\ (j + 1) + 1 = j + 2 /\ j + 1 # 0
        BY <1>1, <2>2
      <3> QED  BY <1>2, <2>1, <2>2, <3>1 DEF Heard
    <2>3. CASE j = 0 /\ q[1].type = "full"
      <3>1. 1 \in 0..(k + 1) /\ \A l \in (1 + 1)..(k + 1) : q[l].type # "full"
        BY <2>1, <2>3
      <3>2. h \in q[1].locs
        BY <1>2, <2>3, <3>1 DEF Heard
      <3> QED  BY <1>1, <2>3, <3>2
    <2>4. CASE j = 0 /\ q[1].type # "full"
      <3>1. 0 \in 0..(k + 1) /\ \A l \in (0 + 1)..(k + 1) : l = 1 \/ l \in (j + 2)..(k + 1)
        BY <2>4
      <3>2. h \in base
        BY <1>2, <2>1, <2>4, <3>1 DEF Heard
      <3> QED  BY <1>1, <2>4, <3>2
    <2> QED  BY <2>2, <2>3, <2>4
  <1>3. ASSUME NEW i \in 1..Len(r), NEW a \in Addresses, r[i].type = "add", r[i].to[a] # None
        PROVE  Heard(r, i - 1, new, r[i].to[a])
    <2>1. i + 1 \in 1..Len(q) /\ r[i] = q[i + 1] /\ (i + 1) - 1 = (i - 1) + 1 /\ i - 1 \in 0..Len(r)
      BY <1>1
    <2>2. Heard(q, (i - 1) + 1, base, q[i + 1].to[a])
      BY <1>3, <2>1 DEF Taught
    <2> QED  BY <1>2, <2>1, <2>2
  <1>4. ASSUME NEW h \in nodes PROVE Heard(r, Len(r), new, h)
    <2>1. Len(r) + 1 = Len(q) /\ Len(r) \in 0..Len(r)
      BY <1>1
    <2> QED  BY <1>2, <2>1 DEF Taught
  <1> QED  BY <1>3, <1>4 DEF Taught, r

\* An agent that gets all the locators the server has lacks none.
LEMMA TaughtAnew ==
    ASSUME NEW q \in Seq(Cast), NEW base, NEW new, NEW nodes, Taught(q, base, nodes),
           \/ base \subseteq new
           \/ (nodes \subseteq new /\ None \notin nodes /\ \A i \in 1..Len(q) : Names(q[i], nodes))
    PROVE  Taught(q, new, nodes)
  <1>1. ASSUME NEW k, NEW h, Heard(q, k, base, h), base \subseteq new \/ h \in new
        PROVE  Heard(q, k, new, h)
    BY <1>1 DEF Heard
  <1>2. ASSUME NEW i \in 1..Len(q), NEW a \in Addresses, q[i].type = "add", q[i].to[a] # None
        PROVE  Heard(q, i - 1, new, q[i].to[a])
    <2>1. base \subseteq new \/ q[i].to[a] \in new
      BY <1>2 DEF Names
    <2>2. Heard(q, i - 1, base, q[i].to[a])
      BY <1>2 DEF Taught
    <2> QED  BY <1>1, <2>1, <2>2
  <1>3. ASSUME NEW h \in nodes PROVE Heard(q, Len(q), new, h)
    <2>1. Heard(q, Len(q), base, h)
      BY DEF Taught
    <2> QED  BY <1>1, <2>1
  <1> QED  BY <1>2, <1>3 DEF Taught

-----------------------------------------------------------------------------
(* What the ports make of a route.                                          *)

\* An address has one holder at most, whose port alone says where it leads.
LEMMA HolderLeads ==
    ASSUME NEW ports \in [Vms -> Port], OneEach(ports), NEW nodes \in SUBSET Nodes,
           NEW v \in Vms, NEW a \in ports[v].ips
    PROVE  /\ RouteTo(ports, nodes, a) = Lead(ports[v], nodes, a)
           /\ (\E u \in Vms : Loose(ports[u], nodes, a)) <=> Loose(ports[v], nodes, a)
  <1>1. \A u \in Vms : a \in ports[u].ips => u = v
    BY DEF OneEach
  <1> DEFINE holders == {u \in Vms : a \in ports[u].ips /\ Relevant(ports[u], nodes)}
  <1>2. holders = IF Relevant(ports[v], nodes) THEN {v} ELSE {}
    BY <1>1
  <1>3. RouteTo(ports, nodes, a) = IF holders = {} THEN None ELSE ports[CHOOSE u \in holders : TRUE].host
    BY DEF RouteTo
  <1> HIDE DEF holders
  <1>4. RouteTo(ports, nodes, a) = Lead(ports[v], nodes, a)
    <2>1. CASE Relevant(ports[v], nodes)
      <3>1. (CHOOSE u \in holders : TRUE) = v /\ holders # {}
        BY <1>2, <2>1
      <3> QED  BY <1>3, <2>1, <3>1 DEF Lead
    <2>2. CASE ~Relevant(ports[v], nodes)
      BY <1>2, <1>3, <2>2 DEF Lead
    <2> QED  BY <2>1, <2>2
  <1>5. (\E u \in Vms : Loose(ports[u], nodes, a)) <=> Loose(ports[v], nodes, a)
    BY <1>1 DEF Loose
  <1> QED  BY <1>4, <1>5

\* A port does not concern the addresses it does not have.
LEMMA OthersLead ==
    ASSUME NEW ports \in [Vms -> Port], NEW after \in [Vms -> Port], NEW v \in Vms,
           NEW nodes, NEW a, NEW n, \A u \in Vms \ {v} : after[u] = ports[u],
           a \notin ports[v].ips, a \notin after[v].ips
    PROVE  Right(after, nodes, n, a) = Right(ports, nodes, n, a)
  <1> DEFINE holders == {u \in Vms : a \in ports[u].ips /\ Relevant(ports[u], nodes)}
  <1> DEFINE others == {u \in Vms : a \in after[u].ips /\ Relevant(after[u], nodes)}
  <1>1. others = holders
    OBVIOUS
  <1>2. \A u \in holders : after[u] = ports[u]
    OBVIOUS
  <1>3. RouteTo(after, nodes, a) = RouteTo(ports, nodes, a)
    <2>1. /\ RouteTo(ports, nodes, a)
               = IF holders = {} THEN None ELSE ports[CHOOSE u \in holders : TRUE].host
          /\ RouteTo(after, nodes, a)
               = IF others = {} THEN None ELSE after[CHOOSE u \in others : TRUE].host
      BY DEF RouteTo
    <2> HIDE DEF holders, others
    <2>2. CASE holders = {}
      BY <1>1, <2>1, <2>2
    <2>3. CASE holders # {}
      <3>1. (CHOOSE u \in holders : TRUE) \in holders
        BY <2>3
      <3> QED  BY <1>1, <1>2, <2>1, <2>3, <3>1
    <2> QED  BY <2>2, <2>3
  <1>4. (\E u \in Vms : Loose(after[u], nodes, a)) <=> (\E u \in Vms : Loose(ports[u], nodes, a))
    BY DEF Loose
  <1> QED  BY <1>3, <1>4 DEF Right

\* What every full payload says is right.
LEMMA PayloadRight ==
    ASSUME NEW ports \in [Vms -> Port], NEW nodes \in SUBSET Nodes, NEW n, NEW a \in Addresses
    PROVE  Leads(Payload(ports, nodes), n, a) \in Right(ports, nodes, n, a)
  <1>1. Leads(Payload(ports, nodes), n, a)
        = IF RouteTo(ports, nodes, a) = n THEN None ELSE RouteTo(ports, nodes, a)
    BY DEF Leads, Payload
  <1>2. RouteTo(ports, nodes, a) \in Nodes \cup {None}
    BY RouteToTyped
  <1> QED  BY <1>1, <1>2 DEF Right

-----------------------------------------------------------------------------
(* What the casts of a port change say.                                     *)

\* Casts d tell every node of the change: they end as they ought to, and what
\* they do not name was right and remains so.
Tells(d, ports, after) ==
    \A n \in Nodes, a \in Addresses :
        /\ EndsIn(d, n, a, Right(after, registered, n, a))
        /\ Quiet(d, a) => Right(ports, registered, n, a) \subseteq Right(after, registered, n, a)

LEMMA RemoveTells ==
    ASSUME NEW p \in Port, NEW R \in SUBSET Addresses, NEW n, NEW a \in Addresses, NEW G,
           a \in R /\ p.host # None => None \in G
    PROVE  /\ EndsIn(RemoveOf(p, R), n, a, G)
           /\ Quiet(RemoveOf(p, R), a) <=> ~(a \in R /\ p.host # None)
  <1>1. CASE p.host = None \/ R = {}
    BY <1>1 DEF RemoveOf, EndsIn, Quiet
  <1>2. CASE ~(p.host = None \/ R = {})
    <2> DEFINE m == [type |-> "remove", from |-> R]
    <2>1. RemoveOf(p, R) = <<m>> /\ Len(<<m>>) = 1 /\ <<m>>[1] = m
      BY <1>2 DEF RemoveOf
    <2>2. (Touches(m, a) <=> a \in R) /\ Leads(m, n, a) = None
      BY DEF Touches, Leads
    <2> HIDE DEF m
    <2>3. \A i \in 1..1 : i = 1
      OBVIOUS
    <2> QED  BY <1>2, <2>1, <2>2, <2>3 DEF EndsIn, Quiet
  <1> QED  BY <1>1, <1>2

LEMMA AddTells ==
    ASSUME NEW p \in Port, NEW A \in SUBSET Addresses, NEW n, NEW a \in Addresses, NEW G,
           registered \subseteq Nodes,
           a \in A /\ Relevant(p, registered) => (IF p.host = n THEN None ELSE p.host) \in G
    PROVE  /\ EndsIn(AddOf(p, A), n, a, G)
           /\ Quiet(AddOf(p, A), a) <=> ~(a \in A /\ Relevant(p, registered))
  <1> USE PortRoutesAssumption
  <1>1. CASE ~Relevant(p, registered) \/ A = {}
    BY <1>1 DEF AddOf, EndsIn, Quiet
  <1>2. CASE ~(~Relevant(p, registered) \/ A = {})
    <2> DEFINE m == [type |-> "add", locs |-> {},
                     to |-> [x \in Addresses |-> IF x \in A THEN p.host ELSE None]]
    <2>1. AddOf(p, A) = <<m>> /\ Len(<<m>>) = 1 /\ <<m>>[1] = m
      BY <1>2 DEF AddOf
    <2>2. p.host \in Nodes /\ p.host # None
      BY <1>2 DEF Relevant
    <2>3. (Touches(m, a) <=> a \in A)
          /\ (a \in A => Leads(m, n, a) = IF p.host = n THEN None ELSE p.host)
      BY <2>2 DEF Touches, Leads
    <2> HIDE DEF m
    <2>4. \A i \in 1..1 : i = 1
      OBVIOUS
    <2> QED  BY <1>2, <2>1, <2>3, <2>4 DEF EndsIn, Quiet
  <1> QED  BY <1>1, <1>2

\* Withdrawing R of the old port and then announcing A of the new one tells
\* enough, if an address that stays and is reachable is announced again, and
\* an address in neither leads where it did or is one on its way.
LEMMA DifferenceTells ==
    ASSUME TypeOK, OneEach(port), NEW v \in Vms, NEW new \in Port,
           OneEach([port EXCEPT ![v] = new]),
           NEW R \in SUBSET port[v].ips, NEW A \in SUBSET new.ips,
           \A a \in R \cap new.ips : a \in A \/ ~Relevant(new, registered),
           \A a \in port[v].ips \cup new.ips :
               /\ a \in R => port[v].host = None
               /\ a \in A => ~Relevant(new, registered)
               => Loose(new, registered, a)
                  \/ /\ ~Loose(port[v], registered, a)
                     /\ Lead(port[v], registered, a) = Lead(new, registered, a)
    PROVE  /\ RemoveOf(port[v], R) \o AddOf(new, A) \in Seq(Cast)
           /\ Tells(RemoveOf(port[v], R) \o AddOf(new, A), port, [port EXCEPT ![v] = new])
  <1> DEFINE old == port[v]
  <1> DEFINE after == [port EXCEPT ![v] = new]
  <1>1. /\ old \in Port /\ registered \in SUBSET Nodes /\ port \in [Vms -> Port]
        /\ after \in [Vms -> Port] /\ after[v] = new
        /\ old.ips \in SUBSET Addresses /\ new.ips \in SUBSET Addresses
        /\ R \in SUBSET Addresses /\ A \in SUBSET Addresses
    BY DEF TypeOK, Port
  <1>2. \A m \in SoundCasts : m \in Cast
    BY DEF SoundCasts
  <1>3. RemoveOf(old, R) \in Seq(Cast) /\ AddOf(new, A) \in Seq(Cast)
    <2>1. RemoveOf(old, R) \in Seq(SoundCasts) /\ AddOf(new, A) \in Seq(SoundCasts)
      BY <1>1, IncrementsSound
    <2> QED  BY <1>2, <2>1, SeqGrows
  <1>4. ASSUME NEW n \in Nodes, NEW a \in Addresses
        PROVE  /\ EndsIn(RemoveOf(old, R) \o AddOf(new, A), n, a, Right(after, registered, n, a))
               /\ Quiet(RemoveOf(old, R) \o AddOf(new, A), a)
                    => Right(port, registered, n, a) \subseteq Right(after, registered, n, a)
    <2> DEFINE G == Right(after, registered, n, a)
    <2>1. /\ a \in new.ips => /\ RouteTo(after, registered, a) = Lead(new, registered, a)
                              /\ (\E u \in Vms : Loose(after[u], registered, a))
                                   <=> Loose(new, registered, a)
          /\ a \in old.ips => /\ RouteTo(port, registered, a) = Lead(old, registered, a)
                              /\ (\E u \in Vms : Loose(port[u], registered, a))
                                   <=> Loose(old, registered, a)
      BY <1>1, HolderLeads
    <2>2. ASSUME a \in old.ips, a \notin new.ips
          PROVE  RouteTo(after, registered, a) = None /\ \A u \in Vms : ~Loose(after[u], registered, a)
      <3>1. \A u \in Vms : a \notin after[u].ips
        BY <2>2 DEF OneEach, TypeOK
      <3> QED  BY <3>1 DEF RouteTo, Loose
    <2>3. ASSUME a \in new.ips, a \notin old.ips
          PROVE  RouteTo(port, registered, a) = None /\ \A u \in Vms : ~Loose(port[u], registered, a)
      <3>1. \A u \in Vms : a \notin port[u].ips
        BY <2>3 DEF OneEach, TypeOK
      <3> QED  BY <3>1 DEF RouteTo, Loose
    <2>4. ASSUME a \in A, Relevant(new, registered)
          PROVE  (IF new.host = n THEN None ELSE new.host) \in G
      <3>1. RouteTo(after, registered, a) = new.host /\ new.host \in Nodes
        BY <1>1, <2>1, <2>4 DEF Lead, Relevant
      <3> QED  BY <3>1 DEF Right
    <2>5. ASSUME a \in R, ~(a \in A /\ Relevant(new, registered)) PROVE None \in G
      <3>1. RouteTo(after, registered, a) = None
        BY <1>1, <2>1, <2>2, <2>5 DEF Lead
      <3> QED  BY <3>1 DEF Right
    <2>6. ASSUME ~(a \in R /\ old.host # None), ~(a \in A /\ Relevant(new, registered))
          PROVE  Right(port, registered, n, a) \subseteq G
      <3>1. CASE a \notin old.ips /\ a \notin new.ips
        <4>1. a \notin port[v].ips /\ a \notin after[v].ips
              /\ \A u \in Vms \ {v} : after[u] = port[u]
          BY <1>1, <3>1
        <4> HIDE DEF after, old
        <4>2. Right(after, registered, n, a) = Right(port, registered, n, a)
          BY <1>1, <4>1, OthersLead
        <4> QED  BY <4>2
      <3>2. CASE a \in old.ips \cup new.ips
        <4>1. \/ Loose(new, registered, a)
              \/ ~Loose(old, registered, a) /\ Lead(old, registered, a) = Lead(new, registered, a)
          BY <2>6, <3>2
        <4>2. CASE Loose(new, registered, a)
          <5>1. G = Nodes \cup {None}
            BY <1>1, <4>2 DEF Right
          <5>2. RouteTo(port, registered, a) \in Nodes \cup {None}
            BY <1>1, RouteToTyped
          <5> QED  BY <5>1, <5>2 DEF Right
        <4>3. CASE ~Loose(new, registered, a) /\ ~Loose(old, registered, a)
                   /\ Lead(old, registered, a) = Lead(new, registered, a)
          <5>1. Lead(old, registered, a) = RouteTo(port, registered, a)
                /\ ~(\E u \in Vms : Loose(port[u], registered, a))
            BY <2>1, <2>3, <3>2, <4>3 DEF Lead
          <5>2. Lead(new, registered, a) = RouteTo(after, registered, a)
                /\ ~(\E u \in Vms : Loose(after[u], registered, a))
            BY <2>1, <2>2, <3>2, <4>3 DEF Lead
          <5> HIDE DEF old, after
          <5> QED  BY <4>3, <5>1, <5>2 DEF Right
        <4> QED  BY <4>1, <4>2, <4>3
      <3> QED  BY <3>1, <3>2
    <2> HIDE DEF G, old, after
    <2>7. /\ EndsIn(AddOf(new, A), n, a, G)
          /\ Quiet(AddOf(new, A), a) <=> ~(a \in A /\ Relevant(new, registered))
      BY <1>1, <2>4, AddTells
    <2>8. Quiet(AddOf(new, A), a) => /\ EndsIn(RemoveOf(old, R), n, a, G)
                                     /\ Quiet(RemoveOf(old, R), a) <=> ~(a \in R /\ old.host # None)
      BY <1>1, <2>5, <2>7, RemoveTells
    <2>9. EndsIn(RemoveOf(old, R) \o AddOf(new, A), n, a, G)
      BY <1>3, <2>7, <2>8, EndsConcat
    <2>10. Quiet(RemoveOf(old, R) \o AddOf(new, A), a) => Right(port, registered, n, a) \subseteq G
      <3>1. Quiet(RemoveOf(old, R) \o AddOf(new, A), a)
              <=> Quiet(RemoveOf(old, R), a) /\ Quiet(AddOf(new, A), a)
        BY <1>3, QuietConcat
      <3> QED  BY <2>6, <2>7, <2>8, <3>1
    <2> QED  BY <2>9, <2>10 DEF G
  <1> QED  BY <1>3, <1>4, ConcatProperties DEF Tells

\* A full payload before or after an increment does no harm.
LEMMA PayloadTells ==
    ASSUME TypeOK, NEW d \in Seq(Cast), NEW after \in [Vms -> Port], Tells(d, port, after),
           NEW f, f = <<>> \/ f = <<Payload(after, registered)>>
    PROVE  /\ f \o d \in Seq(Cast) /\ Tells(f \o d, port, after)
           /\ d \o f \in Seq(Cast) /\ Tells(d \o f, port, after)
  <1> DEFINE m == Payload(after, registered)
  <1>1. m \in Cast /\ f \in Seq(Cast)
    <2>1. registered \in SUBSET Nodes
      BY DEF TypeOK
    <2>2. m \in Cast
      BY <2>1, PayloadTyped
    <2> HIDE DEF m
    <2>3. <<m>> \in Seq(Cast) /\ <<>> \in Seq(Cast)
      BY <2>2
    <2> QED  BY <2>2, <2>3 DEF m
  <1>2. ASSUME NEW n \in Nodes, NEW a \in Addresses
        PROVE  /\ EndsIn(f \o d, n, a, Right(after, registered, n, a))
               /\ EndsIn(d \o f, n, a, Right(after, registered, n, a))
               /\ Quiet(f \o d, a) \/ Quiet(d \o f, a)
                    => Right(port, registered, n, a) \subseteq Right(after, registered, n, a)
    <2> DEFINE G == Right(after, registered, n, a)
    <2>1. Leads(m, n, a) \in G
      BY PayloadRight DEF TypeOK
    <2>2. EndsIn(d, n, a, G) /\ (Quiet(d, a) => Right(port, registered, n, a) \subseteq G)
      BY DEF Tells
    <2> HIDE DEF G, m
    <2>3. EndsIn(f, n, a, G)
      <3>1. CASE f = <<>>
        BY <3>1 DEF EndsIn
      <3>2. CASE f = <<m>>
        <4>1. Len(f) = 1 /\ f[1] = m /\ \A i \in 1..1 : i = 1
          BY <3>2
        <4> QED  BY <2>1, <4>1 DEF EndsIn
      <3> QED  BY <3>1, <3>2 DEF m
    <2>4. (Quiet(f \o d, a) \/ Quiet(d \o f, a)) => Quiet(d, a)
      BY <1>1, QuietConcat
    <2>5. EndsIn(f \o d, n, a, G) /\ EndsIn(d \o f, n, a, G)
      BY <1>1, <2>2, <2>3, EndsConcat
    <2> QED  BY <2>2, <2>4, <2>5 DEF G
  <1>3. f \o d \in Seq(Cast) /\ d \o f \in Seq(Cast)
    BY <1>1, ConcatProperties
  <1> QED  BY <1>2, <1>3 DEF Tells

LEMMA FreshConcat ==
    ASSUME NEW q \in Seq(Cast), NEW c \in Seq(Cast), NEW nodes, Fresh(q, nodes), Fresh(c, nodes)
    PROVE  Fresh(q \o c, nodes)
  <1> SUFFICES ASSUME NEW i \in 1..Len(q \o c)
               PROVE  Names((q \o c)[i], nodes)
                      /\ ((q \o c)[i].type = "full" => (q \o c)[i].locs = nodes)
    BY DEF Fresh
  <1>1. CASE i \in 1..Len(q)
    BY <1>1, ConcatAt DEF Fresh
  <1>2. CASE i \notin 1..Len(q)
    <2>1. i - Len(q) \in 1..Len(c) /\ (q \o c)[i] = c[i - Len(q)]
      BY <1>2, ConcatAt
    <2> QED  BY <2>1 DEF Fresh
  <1> QED  BY <1>1, <1>2

LEMMA PayloadFresh ==
    ASSUME NEW ports \in [Vms -> Port], NEW nodes \in SUBSET Nodes
    PROVE  Names(Payload(ports, nodes), nodes) /\ Fresh(<<Payload(ports, nodes)>>, nodes)
  <1> DEFINE m == Payload(ports, nodes)
  <1>1. m.type = "full" /\ m.locs = nodes
    BY PayloadTyped
  <1>2. \A a \in Addresses : m.to[a] \in nodes \cup {None}
    <2> SUFFICES ASSUME NEW a \in Addresses PROVE RouteTo(ports, nodes, a) \in nodes \cup {None}
      BY DEF Payload
    <2> DEFINE holders == {v \in Vms : a \in ports[v].ips /\ Relevant(ports[v], nodes)}
    <2>1. CASE holders = {}
      BY <2>1 DEF RouteTo
    <2>2. CASE holders # {}
      <3>1. (CHOOSE v \in holders : TRUE) \in holders
        BY <2>2
      <3>2. \A v \in holders : ports[v].host \in nodes
        BY DEF Relevant
      <3> QED  BY <2>2, <3>1, <3>2 DEF RouteTo
    <2> QED  BY <2>1, <2>2
  <1> HIDE DEF m
  <1>3. Names(m, nodes)
    BY <1>1, <1>2 DEF Names
  <1>4. Len(<<m>>) = 1 /\ <<m>>[1] = m /\ \A i \in 1..1 : i = 1
    OBVIOUS
  <1>5. Fresh(<<m>>, nodes)
    BY <1>1, <1>3, <1>4 DEF Fresh
  <1> QED  BY <1>3, <1>5 DEF m

LEMMA DifferenceFresh ==
    ASSUME TypeOK, NEW old \in Port, NEW new \in Port,
           NEW R \in SUBSET Addresses, NEW A \in SUBSET Addresses
    PROVE  Fresh(RemoveOf(old, R) \o AddOf(new, A), registered)
  <1>1. RemoveOf(old, R) \in Seq(Cast) /\ AddOf(new, A) \in Seq(Cast)
    <2>1. RemoveOf(old, R) \in Seq(SoundCasts) /\ AddOf(new, A) \in Seq(SoundCasts)
      BY IncrementsSound
    <2>2. \A m \in SoundCasts : m \in Cast
      BY DEF SoundCasts
    <2> QED  BY <2>1, <2>2, SeqGrows
  <1>2. Fresh(RemoveOf(old, R), registered)
    BY DEF RemoveOf, Fresh, Names
  <1>3. Fresh(AddOf(new, A), registered)
    <2>1. CASE ~Relevant(new, registered) \/ A = {}
      BY <2>1 DEF AddOf, Fresh
    <2>2. CASE ~(~Relevant(new, registered) \/ A = {})
      <3> DEFINE m == [type |-> "add", locs |-> {},
                       to |-> [x \in Addresses |-> IF x \in A THEN new.host ELSE None]]
      <3>1. AddOf(new, A) = <<m>> /\ Len(<<m>>) = 1 /\ <<m>>[1] = m /\ \A i \in 1..1 : i = 1
        BY <2>2 DEF AddOf
      <3>2. Names(m, registered) /\ m.type # "full"
        BY <2>2 DEF Names, Relevant
      <3> HIDE DEF m
      <3> QED  BY <3>1, <3>2 DEF Fresh
    <2> QED  BY <2>1, <2>2
  <1> QED  BY <1>1, <1>2, <1>3, FreshConcat

\* What PortUpdated sends of the port itself.
Difference(old, new) ==
    IF new.active /\ ~old.active THEN AddOf(new, new.ips)
    ELSE IF old.active /\ ~new.active
    THEN IF old.migrating \/ new.migrating THEN <<>> ELSE RemoveOf(old, old.ips)
    ELSE IF ~new.active THEN <<>>
    ELSE IF old.host # new.host /\ None \notin {old.host, new.host}
    THEN RemoveOf(old, old.ips) \o AddOf(new, new.ips)
    ELSE FixedIpChange(old, new)

\* What a change leaves alone: a port keeps its addresses while it moves or
\* comes up, and starts and ends a migration only up; and while nova has it
\* down for one, nothing but its host changes.
Regular(old, new) ==
    /\ old.active \/ old.migrating => old.host # None
    /\ new.active \/ new.migrating => new.host # None
    /\ old.active # new.active => old.ips \subseteq new.ips
    /\ old.active /\ new.active /\ old.host # new.host => new.ips = old.ips
    /\ ~new.active /\ (old.active \/ old.migrating \/ new.migrating) =>
           old.migrating = new.migrating /\ (old.migrating => new.ips = old.ips)

LEMMA DifferenceIs ==
    ASSUME NEW old \in Port, NEW new \in Port, Regular(old, new)
    PROVE  \E R \in SUBSET old.ips, A \in SUBSET new.ips :
               /\ Difference(old, new) = RemoveOf(old, R) \o AddOf(new, A)
               /\ \A a \in R \cap new.ips : a \in A \/ ~Relevant(new, registered)
               /\ \A a \in old.ips \cup new.ips :
                      /\ a \in R => old.host = None
                      /\ a \in A => ~Relevant(new, registered)
                      => Loose(new, registered, a)
                         \/ /\ ~Loose(old, registered, a)
                            /\ Lead(old, registered, a) = Lead(new, registered, a)
  <1> DEFINE Fits(R, A) ==
         /\ Difference(old, new) = RemoveOf(old, R) \o AddOf(new, A)
         /\ \A a \in R \cap new.ips : a \in A \/ ~Relevant(new, registered)
         /\ \A a \in old.ips \cup new.ips :
                /\ a \in R => old.host = None
                /\ a \in A => ~Relevant(new, registered)
                => Loose(new, registered, a)
                   \/ /\ ~Loose(old, registered, a)
                      /\ Lead(old, registered, a) = Lead(new, registered, a)
  <1> SUFFICES \E R \in SUBSET old.ips, A \in SUBSET new.ips : Fits(R, A)
    OBVIOUS
  <1>0. /\ RemoveOf(old, {}) = <<>> /\ AddOf(new, {}) = <<>>
        /\ <<>> \o <<>> = <<>>
        /\ <<>> \o AddOf(new, new.ips) = AddOf(new, new.ips)
        /\ RemoveOf(old, old.ips) \o <<>> = RemoveOf(old, old.ips)
    BY DEF RemoveOf, AddOf
  <1> HIDE DEF Fits
  <1>1. CASE new.active /\ ~old.active
    <2>1. Difference(old, new) = RemoveOf(old, {}) \o AddOf(new, new.ips)
      BY <1>0, <1>1 DEF Difference
    <2>2. Fits({}, new.ips)
      BY <1>1, <2>1 DEF Fits, Regular, Relevant, Loose, Lead
    <2> QED  BY <2>2
  <1>2. CASE old.active /\ ~new.active /\ (old.migrating \/ new.migrating)
    <2>1. Difference(old, new) = RemoveOf(old, {}) \o AddOf(new, {})
      BY <1>0, <1>2 DEF Difference
    <2>2. Fits({}, {})
      BY <1>2, <2>1 DEF Fits, Regular, Relevant, Loose, Lead
    <2> QED  BY <2>2
  <1>3. CASE old.active /\ ~new.active /\ ~(old.migrating \/ new.migrating)
    <2>1. Difference(old, new) = RemoveOf(old, old.ips) \o AddOf(new, {})
      BY <1>0, <1>3 DEF Difference
    <2>2. Fits(old.ips, {})
      BY <1>3, <2>1 DEF Fits, Regular, Relevant, Loose, Lead
    <2> QED  BY <2>2
  <1>4. CASE ~old.active /\ ~new.active
    <2>1. Difference(old, new) = RemoveOf(old, {}) \o AddOf(new, {})
      BY <1>0, <1>4 DEF Difference
    <2>2. Fits({}, {})
      BY <1>4, <2>1 DEF Fits, Regular, Relevant, Loose, Lead
    <2> QED  BY <2>2
  <1>5. CASE old.active /\ new.active /\ old.host # new.host
    <2>1. Difference(old, new) = RemoveOf(old, old.ips) \o AddOf(new, new.ips)
      BY <1>5 DEF Difference, Regular
    <2>2. Fits(old.ips, new.ips)
      BY <1>5, <2>1 DEF Fits, Regular, Relevant, Loose, Lead
    <2> QED  BY <2>2
  <1>6. CASE old.active /\ new.active /\ old.host = new.host
    <2>1. Difference(old, new) = RemoveOf(old, old.ips \ new.ips) \o AddOf(new, new.ips \ old.ips)
      BY <1>6 DEF Difference, FixedIpChange
    <2>2. Fits(old.ips \ new.ips, new.ips \ old.ips)
      BY <1>6, <2>1 DEF Fits, Regular, Relevant, Loose, Lead
    <2> QED  BY <2>2
  <1>7. old.active \in BOOLEAN /\ new.active \in BOOLEAN
    BY DEF Port
  <1> QED  BY <1>1, <1>2, <1>3, <1>4, <1>5, <1>6, <1>7

Announces(casts, after) == casts \in Seq(Cast) /\ Fresh(casts, registered) /\ Tells(casts, port, after)

LEMMA UpdateAnnounced ==
    ASSUME TypeOK, OneEach(port), NEW v \in Vms, NEW new \in Port, Regular(port[v], new),
           OneEach([port EXCEPT ![v] = new])
    PROVE  Announces(PortUpdated(v, port[v], [port EXCEPT ![v] = new]), [port EXCEPT ![v] = new])
  <1> DEFINE old == port[v]
  <1> DEFINE after == [port EXCEPT ![v] = new]
  <1> DEFINE d == Difference(old, new)
  <1>1. old \in Port /\ after \in [Vms -> Port] /\ after[v] = new /\ registered \in SUBSET Nodes
        /\ old.ips \in SUBSET Addresses /\ new.ips \in SUBSET Addresses
    BY DEF TypeOK, Port
  <1>2. PICK R \in SUBSET old.ips, A \in SUBSET new.ips :
               /\ d = RemoveOf(old, R) \o AddOf(new, A)
               /\ \A a \in R \cap new.ips : a \in A \/ ~Relevant(new, registered)
               /\ \A a \in old.ips \cup new.ips :
                      /\ a \in R => old.host = None
                      /\ a \in A => ~Relevant(new, registered)
                      => Loose(new, registered, a)
                         \/ /\ ~Loose(old, registered, a)
                            /\ Lead(old, registered, a) = Lead(new, registered, a)
    BY <1>1, DifferenceIs
  <1>3. d \in Seq(Cast) /\ Tells(d, port, after)
    BY <1>2, DifferenceTells
  <1>4. Fresh(d, registered)
    BY <1>1, <1>2, DifferenceFresh
  <1> DEFINE f == SourceVmMoved(v, old, after)
  <1>5. f = <<>> \/ f = <<Payload(after, registered)>>
    BY DEF SourceVmMoved
  <1>6. PortUpdated(v, old, after) = f \o d
    BY <1>1 DEF PortUpdated, Difference
  <1>7. Fresh(f, registered) /\ f \in Seq(Cast)
    <2>1. Fresh(<<>>, registered) /\ <<>> \in Seq(Cast)
      BY DEF Fresh
    <2>2. Fresh(<<Payload(after, registered)>>, registered)
      BY <1>1, PayloadFresh
    <2>3. Payload(after, registered) \in Cast
      BY <1>1, PayloadTyped
    <2>4. <<Payload(after, registered)>> \in Seq(Cast)
      BY <2>3
    <2> QED  BY <1>5, <2>1, <2>2, <2>4
  <1> HIDE DEF f, d, after, old
  <1>8. f \o d \in Seq(Cast) /\ Tells(f \o d, port, after)
    BY <1>1, <1>3, <1>5, PayloadTells
  <1>9. Fresh(f \o d, registered)
    BY <1>3, <1>4, <1>7, FreshConcat
  <1> QED  BY <1>6, <1>8, <1>9 DEF Announces, old, after

LEMMA DeleteAnnounced ==
    ASSUME TypeOK, OneEach(port), NEW v \in Vms, port[v].host # None,
           OneEach([port EXCEPT ![v] = Unplugged])
    PROVE  Announces(PortDeleted(v, port[v], [port EXCEPT ![v] = Unplugged]),
                     [port EXCEPT ![v] = Unplugged])
  <1> DEFINE old == port[v]
  <1> DEFINE after == [port EXCEPT ![v] = Unplugged]
  <1> DEFINE d == RemoveOf(old, old.ips)
  <1>1. old \in Port /\ Unplugged \in Port /\ after \in [Vms -> Port]
        /\ registered \in SUBSET Nodes /\ old.ips \in SUBSET Addresses /\ Unplugged.ips = {}
    BY DEF TypeOK, Port, Unplugged
  <1>2. d \o AddOf(Unplugged, {}) = d
    BY DEF AddOf, RemoveOf
  <1>3. d \in Seq(Cast) /\ Tells(d, port, after)
    <2>1. \A a \in old.ips \cup Unplugged.ips : (a \in old.ips => old.host = None) => FALSE
      BY <1>1
    <2>2. /\ \A a \in old.ips \cap Unplugged.ips : a \in {} \/ ~Relevant(Unplugged, registered)
          /\ {} \in SUBSET Unplugged.ips /\ old.ips \in SUBSET old.ips
      BY <1>1
    <2>3. d \o AddOf(Unplugged, {}) \in Seq(Cast) /\ Tells(d \o AddOf(Unplugged, {}), port, after)
      BY <1>1, <2>1, <2>2, DifferenceTells
    <2> QED  BY <1>2, <2>3
  <1>4. Fresh(d, registered)
    <2>1. Fresh(d \o AddOf(Unplugged, {}), registered)
      BY <1>1, DifferenceFresh
    <2> QED  BY <1>2, <2>1
  <1> DEFINE f == IF v \in Sourced THEN <<Payload(after, registered)>> ELSE <<>>
  <1>5. f = <<>> \/ f = <<Payload(after, registered)>>
    OBVIOUS
  <1>6. PortDeleted(v, old, after) = d \o f
    BY DEF PortDeleted
  <1>7. Fresh(f, registered) /\ f \in Seq(Cast)
    <2>1. Fresh(<<>>, registered) /\ <<>> \in Seq(Cast)
      BY DEF Fresh
    <2>2. Fresh(<<Payload(after, registered)>>, registered)
      BY <1>1, PayloadFresh
    <2>3. Payload(after, registered) \in Cast
      BY <1>1, PayloadTyped
    <2>4. <<Payload(after, registered)>> \in Seq(Cast)
      BY <2>3
    <2> QED  BY <1>5, <2>1, <2>2, <2>4
  <1> HIDE DEF f, d, after, old
  <1>8. d \o f \in Seq(Cast) /\ Tells(d \o f, port, after)
    BY <1>1, <1>3, <1>5, PayloadTells
  <1>9. Fresh(d \o f, registered)
    BY <1>3, <1>4, <1>7, FreshConcat
  <1> QED  BY <1>6, <1>8, <1>9 DEF Announces, old, after


-----------------------------------------------------------------------------
(* Every step keeps a node in step.                                         *)

\* A node the step does not concern.
LEMMA InStepFrame ==
    ASSUME NEW n \in Nodes, NEW q, InStepWith(n, q), UNCHANGED <<port, registered>>,
           queue'[n] = q, sync'[n] = sync[n], locs'[n] = locs[n], routes'[n] = routes[n],
           n \in known' <=> n \in known
    PROVE  InStep(n)'
  <1>1. Named(n, queue[n])'
    BY DEF InStepWith, Named
  <1>2. Base(n)' = Base(n)
    BY DEF Base
  <1>3. Taught(queue[n], Base(n), registered)'
    BY <1>2 DEF InStepWith
  <1>4. ASSUME NEW a \in Addresses PROVE Arrives(n, queue[n], a)'
    BY DEF InStepWith, Arrives
  <1> QED  BY <1>1, <1>3, <1>4 DEF InStep, InStepWith

LEMMA NamesConcat ==
    ASSUME NEW q \in Seq(Cast), NEW c \in Seq(Cast), NEW nodes,
           \A i \in 1..Len(q) : Names(q[i], nodes), \A i \in 1..Len(c) : Names(c[i], nodes)
    PROVE  \A i \in 1..Len(q \o c) : Names((q \o c)[i], nodes)
  <1> SUFFICES ASSUME NEW i \in 1..Len(q \o c) PROVE Names((q \o c)[i], nodes)
    OBVIOUS
  <1>1. CASE i \in 1..Len(q)
    BY <1>1, ConcatAt
  <1>2. CASE i \notin 1..Len(q)
    <2>1. i - Len(q) \in 1..Len(c) /\ (q \o c)[i] = c[i - Len(q)]
      BY <1>2, ConcatAt
    <2> QED  BY <2>1
  <1> QED  BY <1>1, <1>2

\* The casts of a port change join the queue.
LEMMA ChangeInStep ==
    ASSUME Inv, NEW n \in Nodes, InStep(n), NEW casts, Announces(casts, port'),
           queue'[n] = queue[n] \o casts, UNCHANGED <<registered, agents>>
    PROVE  InStep(n)'
  <1>1. queue[n] \in Seq(Cast) /\ casts \in Seq(Cast) /\ Fresh(casts, registered)
    BY DEF Inv, TypeOK, Announces
  <1>2. Named(n, queue[n])'
    <2>1. \A i \in 1..Len(queue[n]) : Names(queue[n][i], registered)
      BY DEF InStep, InStepWith, Named
    <2>2. \A i \in 1..Len(casts) : Names(casts[i], registered)
      BY <1>1 DEF Fresh
    <2>3. \A i \in 1..Len(queue'[n]) : Names(queue'[n][i], registered)
      BY <1>1, <2>1, <2>2, NamesConcat
    <2> QED  BY <2>3 DEF InStep, InStepWith, Named, agents
  <1>3. Base(n)' = Base(n)
    BY DEF Base, agents
  <1>4. Taught(queue[n], Base(n), registered)'
    <2>1. None \notin registered
      BY PortRoutesAssumption DEF Inv, TypeOK
    <2>2. Taught(queue[n] \o casts, Base(n), registered)
      BY <1>1, <2>1, TaughtConcat DEF InStep, InStepWith
    <2> QED  BY <1>3, <2>2
  <1>5. ASSUME NEW a \in Addresses PROVE Arrives(n, queue[n], a)'
    <2> DEFINE old == Right(port, registered, n, a)
    <2> DEFINE new == Right(port', registered, n, a)
    <2>1. EndsIn(casts, n, a, new) /\ (Quiet(casts, a) => old \subseteq new)
      BY DEF Announces, Tells
    <2>2. /\ EndsIn(queue[n], n, a, old)
          /\ Quiet(queue[n], a) /\ sync[n] # None => Leads(sync[n], n, a) \in old
          /\ Quiet(queue[n], a) /\ sync[n] = None /\ n \in known => routes[n][a] \in old
      BY DEF InStep, InStepWith, Arrives
    <2>3. Quiet(queue'[n], a) <=> Quiet(queue[n], a) /\ Quiet(casts, a)
      BY <1>1, QuietConcat
    <2> HIDE DEF old, new
    <2>4. Quiet(casts, a) => EndsIn(queue[n], n, a, new)
      BY <2>1, <2>2 DEF EndsIn
    <2>5. EndsIn(queue'[n], n, a, new)
      BY <1>1, <2>1, <2>4, EndsConcat
    <2>6. /\ Quiet(queue'[n], a) /\ sync[n] # None => Leads(sync[n], n, a) \in new
          /\ Quiet(queue'[n], a) /\ sync[n] = None /\ n \in known => routes[n][a] \in new
      BY <2>1, <2>2, <2>3
    <2> QED  BY <2>5, <2>6 DEF Arrives, new, agents
  <1> QED  BY <1>2, <1>4, <1>5 DEF InStep, InStepWith

LEMMA ChangeDelivers ==
    ASSUME Inv, Delivered, NEW v \in Vms, NEW new \in Port, NEW casts,
           Announces(casts, [port EXCEPT ![v] = new]),
           OneEach([port EXCEPT ![v] = new]), BoundPorts([port EXCEPT ![v] = new]),
           port' = [port EXCEPT ![v] = new], Send(casts), UNCHANGED <<registered, agents>>
    PROVE  Delivered'
  <1>1. OneEach(port') /\ BoundPorts(port') /\ Announces(casts, port')
    OBVIOUS
  <1>2. CASE Fanout(casts) /\ UNCHANGED <<late, faults>>
    <2>1. \A n \in Nodes : queue'[n] = queue[n] \o casts
      BY <1>2 DEF Fanout
    <2>2. faults = 0 => \A n \in Nodes : InStep(n)'
      BY <1>1, <2>1, ChangeInStep DEF Delivered
    <2> QED  BY <1>1, <1>2, <2>2 DEF Delivered
  <1>3. CASE Fault("late")
    <2>1. faults' # 0
      BY <1>3 DEF Fault, Inv, TypeOK
    <2> QED  BY <1>1, <2>1 DEF Delivered
  <1> QED  BY <1>2, <1>3 DEF Send

\* What a port may become.
LEMMA UpdateDelivers ==
    ASSUME Inv, Delivered, NEW v \in Vms, NEW new \in Port, Change(v, new, PortUpdated),
           Regular(port[v], new), \A u \in Vms \ {v} : new.ips \cap port[u].ips = {}
    PROVE  Delivered'
  <1> DEFINE after == [port EXCEPT ![v] = new]
  <1>1. TypeOK /\ OneEach(port) /\ BoundPorts(port) /\ DOMAIN port = Vms
    BY DEF Inv, TypeOK, Delivered
  <1>2. after[v] = new /\ \A u \in Vms \ {v} : after[u] = port[u]
    BY <1>1
  <1>3. OneEach(after)
    BY <1>1, <1>2 DEF OneEach
  <1>4. BoundPorts(after)
    BY <1>1, <1>2 DEF BoundPorts, Regular
  <1> DEFINE casts == PortUpdated(v, port[v], after)
  <1>5. Announces(casts, after)
    BY <1>1, <1>3, UpdateAnnounced
  <1>6. port' = after /\ Send(casts) /\ UNCHANGED <<registered, agents>>
    BY DEF Change
  <1> HIDE DEF casts
  <1> QED  BY <1>3, <1>4, <1>5, <1>6, ChangeDelivers

LEMMA DeleteDelivers ==
    ASSUME Inv, Delivered, NEW v \in Vms, Delete(v)
    PROVE  Delivered'
  <1> DEFINE after == [port EXCEPT ![v] = Unplugged]
  <1>1. TypeOK /\ OneEach(port) /\ BoundPorts(port) /\ DOMAIN port = Vms /\ port[v].host # None
    BY DEF Inv, TypeOK, Delivered, Delete
  <1>2. /\ after[v] = Unplugged /\ \A u \in Vms \ {v} : after[u] = port[u]
        /\ Unplugged.ips = {} /\ ~Unplugged.active /\ ~Unplugged.migrating /\ Unplugged \in Port
    BY <1>1 DEF Unplugged, Port
  <1>3. OneEach(after) /\ BoundPorts(after)
    BY <1>1, <1>2 DEF OneEach, BoundPorts
  <1> DEFINE casts == PortDeleted(v, port[v], after)
  <1>4. Announces(casts, after)
    BY <1>1, <1>3, DeleteAnnounced
  <1>5. port' = after /\ Send(casts) /\ UNCHANGED <<registered, agents>>
    BY DEF Delete, Change
  <1> HIDE DEF casts
  <1> QED  BY <1>2, <1>3, <1>4, <1>5, ChangeDelivers

LEMMA PortDelivers ==
    ASSUME Inv, Delivered, NEW v \in Vms, PortChange(v)
    PROVE  Delivered'
  <1> USE PortRoutesAssumption
  <1>0. /\ port[v] \in Port /\ IpSets \subseteq SUBSET Addresses
        /\ (port[v].active \/ port[v].migrating => port[v].host # None)
        /\ \A u \in Vms \ {v} : port[v].ips \cap port[u].ips = {}
    BY DEF Inv, TypeOK, Delivered, OneEach, BoundPorts
  <1>1. ASSUME NEW new \in Port, Change(v, new, PortUpdated), Regular(port[v], new),
               new.ips = port[v].ips
        PROVE  Delivered'
    BY <1>0, <1>1, UpdateDelivers
  <1>2. CASE Down(v) \/ Up(v)
    BY <1>0, <1>1, <1>2 DEF Down, Up, Port, Regular
  <1>3. CASE Migrate(v) \/ MigrateDown(v) \/ MigrateUp(v)
    BY <1>0, <1>1, <1>3 DEF Migrate, MigrateDown, MigrateUp, Port, Regular
  <1>4. CASE \E h \in Nodes : Rebind(v, h) \/ MigrateBind(v, h)
    BY <1>0, <1>1, <1>4 DEF Rebind, MigrateBind, Port, Regular
  <1>5. ASSUME NEW ips \in IpSets, Readdress(v, ips) PROVE Delivered'
    <2> DEFINE new == [port[v] EXCEPT !.ips = ips]
    <2>1. new \in Port /\ Regular(port[v], new) /\ Change(v, new, PortUpdated) /\ new.ips = ips
      BY <1>0, <1>5 DEF Readdress, Port, Regular
    <2>2. \A u \in Vms \ {v} : ips \cap port[u].ips = {}
      BY <1>0, <1>5 DEF Readdress, Taken
    <2> QED  BY <2>1, <2>2, UpdateDelivers
  <1>6. ASSUME NEW h \in Nodes, NEW ips \in IpSets, Plug(v, h, ips) PROVE Delivered'
    <2> DEFINE new == [host |-> h, active |-> TRUE, ips |-> ips, migrating |-> FALSE]
    <2>1. new \in Port /\ Regular(port[v], new) /\ Change(v, new, PortUpdated) /\ new.ips = ips
      BY <1>0, <1>6 DEF Plug, Port, Regular, Unplugged
    <2>2. \A u \in Vms \ {v} : ips \cap port[u].ips = {}
      BY <1>6 DEF Plug, Taken
    <2> QED  BY <2>1, <2>2, UpdateDelivers
  <1> QED  BY <1>2, <1>3, <1>4, <1>5, <1>6, DeleteDelivers DEF PortChange

\* A reply is right, and so is what it makes the server tell everyone.
LEMMA ReplyInStep ==
    ASSUME Inv, NEW n \in Nodes, sync[n] = None, NEW m \in Nodes, NEW q \in Seq(Cast),
           InStepWith(m, q),
           NEW p, p = Payload(port, registered \cup {n}),
           registered' = registered \cup {n}, sync' = [sync EXCEPT ![n] = p],
           queue'[m] = IF n \in registered THEN q ELSE Append(q, p),
           UNCHANGED <<port, known, locs, routes>>
    PROVE  InStep(m)'
  <1>1. /\ registered' \in SUBSET Nodes /\ registered \subseteq registered' /\ None \notin registered'
        /\ None \notin registered /\ port \in [Vms -> Port] /\ sync \in [Nodes -> Cast \cup {None}]
    BY PortRoutesAssumption DEF Inv, TypeOK
  <1>2. p \in Cast /\ p.type = "full" /\ p.locs = registered' /\ Names(p, registered')
    BY <1>1, PayloadTyped, PayloadFresh
  <1>3. p # None
    BY <1>2, NoneAssumption
  <1>4. sync'[n] = p /\ (m # n => sync'[m] = sync[m])
    BY <1>1
  <1>5. \A a \in Addresses : Leads(p, m, a) \in Right(port, registered', m, a)
    BY <1>1, PayloadRight
  <1>6. ASSUME NEW x, Names(x, registered) PROVE Names(x, registered')
    BY <1>1, <1>6 DEF Names
  <1>7. Taught(q, Base(m)', registered)
    <2>1. CASE m # n
      <3>1. Base(m)' = Base(m)
        BY <1>4, <2>1 DEF Base
      <3> QED  BY <3>1 DEF InStepWith
    <2>2. CASE m = n
      <3>1. registered \subseteq Base(m)'
        BY <1>1, <1>2, <1>3, <1>4, <2>2 DEF Base
      <3>2. Taught(q, Base(m), registered) /\ \A i \in 1..Len(q) : Names(q[i], registered)
        BY DEF InStepWith, Named
      <3> QED  BY <1>1, <3>1, <3>2, TaughtAnew
    <2> QED  BY <2>1, <2>2
  <1>8. CASE n \in registered
    <2>1. registered' = registered /\ queue'[m] = q
      BY <1>8
    <2>2. Named(m, queue[m])'
      BY <1>2, <1>4, <2>1 DEF InStepWith, Named
    <2>3. Taught(queue[m], Base(m), registered)'
      BY <1>7, <2>1
    <2>4. ASSUME NEW a \in Addresses PROVE Arrives(m, queue[m], a)'
      BY <1>3, <1>4, <1>5, <2>1 DEF InStepWith, Arrives
    <2> QED  BY <2>2, <2>3, <2>4 DEF InStep, InStepWith
  <1>9. CASE n \notin registered
    <2> DEFINE r == Append(q, p)
    <2>1. queue'[m] = r
      BY <1>9
    <2>2. <<p>> \in Seq(Cast) /\ Len(<<p>>) = 1 /\ <<p>>[1] = p /\ \A i \in 1..1 : i = 1
      BY <1>2
    <2>3. r = q \o <<p>>
      BY <1>2, AppendIsConcat
    <2>4. Named(m, queue[m])'
      <3>1. \A i \in 1..Len(q) : Names(q[i], registered')
        BY <1>6 DEF InStepWith, Named
      <3>2. \A i \in 1..Len(<<p>>) : Names(<<p>>[i], registered')
        BY <1>2, <2>2
      <3>3. \A i \in 1..Len(r) : Names(r[i], registered')
        BY <2>2, <2>3, <3>1, <3>2, NamesConcat
      <3>4. sync'[m] # None => Names(sync'[m], registered')
        BY <1>2, <1>4, <1>6 DEF InStepWith, Named
      <3> QED  BY <2>1, <3>3, <3>4 DEF Named
    <2>5. Taught(r, Base(m)', registered')
      BY <1>2, <1>7, TaughtFull
    <2>6. ASSUME NEW a \in Addresses PROVE Arrives(m, queue[m], a)'
      <3> DEFINE G == Right(port, registered', m, a)
      <3>1. Leads(p, m, a) \in G
        BY <1>5
      <3> HIDE DEF G
      <3>2. EndsIn(<<p>>, m, a, G) /\ ~Quiet(<<p>>, a)
        BY <1>2, <2>2, <3>1 DEF EndsIn, Quiet, Touches
      <3> DEFINE c == <<p>>
      <3>3. c \in Seq(Cast) /\ r = q \o c /\ EndsIn(c, m, a, G) /\ ~Quiet(c, a)
        BY <2>2, <2>3, <3>2
      <3> HIDE DEF c, r
      <3>4. EndsIn(q \o c, m, a, G)
        BY <3>3, EndsConcat
      <3>5. ~Quiet(q \o c, a)
        BY <3>3, QuietConcat
      <3> QED  BY <2>1, <3>3, <3>4, <3>5 DEF Arrives, G
    <2> HIDE DEF r
    <2> QED  BY <2>1, <2>4, <2>5, <2>6 DEF InStep, InStepWith
  <1> QED  BY <1>8, <1>9

\* A full payload leads where it says, once the agent has its locators.
LEMMA InstalledLeads ==
    ASSUME NEW n \in Nodes, NEW m \in Cast, m.type = "full", Names(m, registered),
           NEW nodes, m.locs \subseteq nodes, NEW a \in Addresses
    PROVE  Installed(n, nodes, m)[a] = Leads(m, n, a)
  <1>1. m.to[a] \in m.locs \cup {None}
    BY DEF Names
  <1> QED  BY <1>1, PortRoutesAssumption DEF Installed, Leads

LEMMA SyncAppliesInStep ==
    ASSUME Inv, NEW n \in Nodes, InStep(n), SyncApplies(n)
    PROVE  InStep(n)'
  <1> DEFINE m == sync[n]
  <1>1. /\ m \in Cast /\ m.type = "full" /\ m # None
        /\ known \subseteq Nodes /\ sync'[n] = None
        /\ locs'[n] = locs[n] \cup m.locs /\ n \in known'
        /\ routes'[n] = Installed(n, locs[n] \cup m.locs, m)
        /\ UNCHANGED <<port, registered, queue>>
    BY DEF SyncApplies, ApplyFull, Inv, TypeOK, Replies, server
  <1>2. Names(m, registered)
    BY <1>1 DEF InStep, InStepWith, Named
  <1>3. Base(n)' = Base(n)
    BY <1>1 DEF Base
  <1>4. Named(n, queue[n])' /\ Taught(queue[n], Base(n), registered)'
    BY <1>1, <1>3 DEF InStep, InStepWith, Named
  <1>5. ASSUME NEW a \in Addresses PROVE Arrives(n, queue[n], a)'
    <2>1. routes'[n][a] = Leads(m, n, a)
      BY <1>1, <1>2, InstalledLeads
    <2> QED  BY <1>1, <2>1 DEF InStep, InStepWith, Arrives
  <1> QED  BY <1>4, <1>5 DEF InStep, InStepWith

\* An increment takes effect at once, since the agent has been told the locator.
LEMMA IncrementLeads ==
    ASSUME Inv, NEW n \in Nodes, InStep(n), n \in known, sync[n] = None, queue[n] # <<>>,
           HeadOf(n).type # "full", RoutesUpdated(n, HeadOf(n)), NEW a \in Addresses
    PROVE  routes'[n][a] = IF Touches(HeadOf(n), a) THEN Leads(HeadOf(n), n, a) ELSE routes[n][a]
  <1> USE PortRoutesAssumption
  <1> DEFINE m == HeadOf(n)
  <1>1. /\ queue[n] \in Seq(Cast) /\ m = queue[n][1] /\ m \in Cast /\ 1 \in 1..Len(queue[n])
        /\ locs[n] \subseteq Nodes /\ routes \in [Nodes -> Routes]
    BY TailAt DEF HeadOf, Inv, TypeOK
  <1>2. CASE m.type = "add"
    <2>1. routes'[n][a] = AddRoutes(routes[n], n, m)[a]
      BY <1>1, <1>2 DEF RoutesUpdated
    <2>2. m.to[a] # None => m.to[a] \in locs[n]
      <3>1. ASSUME m.to[a] # None PROVE Heard(queue[n], 1 - 1, Base(n), m.to[a])
        BY <1>1, <1>2, <3>1 DEF InStep, InStepWith, Taught
      <3>2. 1 - 1 = 0 /\ 0 \in 0..0 /\ \A l \in (0 + 1)..0 : FALSE
        OBVIOUS
      <3>3. m.to[a] # None => m.to[a] \in Base(n)
        BY <3>1, <3>2 DEF Heard
      <3> QED  BY <3>3 DEF Base
    <2> QED  BY <1>1, <1>2, <2>1, <2>2 DEF AddRoutes, Touches, Leads
  <1>3. CASE m.type = "remove"
    <2>1. routes'[n][a] = RemoveRoutes(routes[n], m)[a]
      BY <1>1, <1>3 DEF RoutesUpdated
    <2> QED  BY <1>1, <1>3, <2>1 DEF RemoveRoutes, Touches, Leads
  <1>4. m.type \in {"add", "remove"}
    BY <1>1 DEF Cast
  <1> QED  BY <1>2, <1>3, <1>4

LEMMA NamedTail ==
    ASSUME NEW n, NEW q \in Seq(Cast), q # <<>>, Named(n, q)
    PROVE  Named(n, Tail(q))
  <1>1. \A i \in 1..Len(Tail(q)) : i + 1 \in 1..Len(q) /\ Tail(q)[i] = q[i + 1]
    BY TailAt
  <1> QED  BY <1>1 DEF Named

LEMMA DeliverInStep ==
    ASSUME Inv, NEW n \in Nodes, InStep(n), Deliver(n)
    PROVE  InStep(n)'
  <1> DEFINE m == HeadOf(n)
  <1> DEFINE q == queue[n]
  <1>1. /\ q \in Seq(Cast) /\ q # <<>> /\ m = Head(q) /\ m = q[1] /\ m \in Cast
        /\ 1 \in 1..Len(q) /\ queue'[n] = Tail(q) /\ sync[n] = None /\ sync' = sync
        /\ UNCHANGED <<port, registered>> /\ n \in known'
        /\ locs \in [Nodes -> SUBSET Nodes] /\ routes \in [Nodes -> Routes] /\ known \subseteq Nodes
    BY TailAt DEF HeadOf, Inv, TypeOK, Deliver, Popped, server, ApplyFull, RoutesUpdated
  <1>2. IF m.type = "full" THEN ApplyFull(n, m) ELSE RoutesUpdated(n, m)
    BY DEF Deliver
  <1>3. Names(m, registered)
    BY <1>1 DEF InStep, InStepWith, Named
  <1>4. Named(n, Tail(q)) /\ Taught(q, Base(n), registered)
    BY <1>1, NamedTail DEF InStep, InStepWith
  <1>5. Named(n, queue[n])'
    BY <1>1, <1>4 DEF Named
  <1>6. Taught(queue[n], Base(n), registered)'
    <2>1. IF m.type = "full" THEN m.locs \subseteq Base(n)' ELSE Base(n)' = Base(n)
      BY <1>1, <1>2 DEF Base, ApplyFull, RoutesUpdated
    <2>2. Taught(Tail(q), Base(n)', registered)
      BY <1>1, <1>4, <2>1, TaughtTail
    <2> QED  BY <1>1, <2>2
  <1>7. ASSUME NEW a \in Addresses PROVE Arrives(n, queue[n], a)'
    <2> DEFINE G == Right(port, registered, n, a)
    <2>1. EndsIn(q, n, a, G) /\ (Quiet(q, a) /\ n \in known => routes[n][a] \in G)
      BY <1>1 DEF InStep, InStepWith, Arrives
    <2> HIDE DEF G, m, q
    <2>2. EndsIn(Tail(q), n, a, G)
      BY <1>1, <2>1, EndsTail
    <2>3. Quiet(Tail(q), a) => IF Touches(m, a) THEN Leads(m, n, a) \in G ELSE Quiet(q, a)
      BY <1>1, <2>1, QuietTail
    <2>4. Quiet(Tail(q), a) => routes'[n][a] \in G
      <3>1. CASE m.type = "full"
        <4>1. routes'[n] = Installed(n, locs[n] \cup m.locs, m)
          BY <1>1, <1>2, <3>1 DEF ApplyFull
        <4>2. routes'[n][a] = Leads(m, n, a)
          BY <1>1, <1>3, <3>1, <4>1, InstalledLeads
        <4> QED  BY <2>3, <3>1, <4>2 DEF Touches
      <3>2. CASE m.type # "full"
        <4>1. n \in known
          BY <1>2, <3>2 DEF RoutesUpdated
        <4>2. routes'[n][a] = IF Touches(m, a) THEN Leads(m, n, a) ELSE routes[n][a]
          BY <1>1, <1>2, <3>2, <4>1, IncrementLeads DEF m, q
        <4> QED  BY <2>1, <2>3, <4>1, <4>2
      <3> QED  BY <3>1, <3>2
    <2> QED  BY <1>1, <2>2, <2>4 DEF Arrives, G, q
  <1> QED  BY <1>5, <1>6, <1>7 DEF InStep, InStepWith

\* An agent that does not know the domain loses nothing by passing a cast over.
LEMMA PassedOver ==
    ASSUME Inv, NEW n \in Nodes, InStep(n), DeliverUnknown(n)
    PROVE  InStepWith(n, Tail(queue[n]))
  <1> DEFINE q == queue[n]
  <1>1. q \in Seq(Cast) /\ q # <<>> /\ Head(q).type # "full" /\ sync[n] = None /\ n \notin known
    BY DEF Inv, TypeOK, DeliverUnknown, HeadOf
  <1>2. Named(n, Tail(q))
    BY <1>1, NamedTail DEF InStep, InStepWith
  <1>3. Taught(Tail(q), Base(n), registered)
    BY <1>1, TaughtTail DEF InStep, InStepWith
  <1>4. ASSUME NEW a \in Addresses PROVE Arrives(n, Tail(q), a)
    <2>1. EndsIn(q, n, a, Right(port, registered, n, a))
      BY DEF InStep, InStepWith, Arrives
    <2>2. EndsIn(Tail(q), n, a, Right(port, registered, n, a))
      BY <1>1, <2>1, EndsTail
    <2> QED  BY <1>1, <2>2 DEF Arrives
  <1> QED  BY <1>2, <1>3, <1>4 DEF InStepWith

\* A step after which what was on its way is as it was, and nothing else is
\* sent or known.
LEMMA FaultDelivers ==
    ASSUME Inv, Delivered, UNCHANGED server, faults' # 0
    PROVE  Delivered'
  BY DEF Delivered, server

LEMMA LateDelivers ==
    ASSUME Inv, Delivered, LateCasts
    PROVE  Delivered'
  <1>1. faults # 0
    BY DEF Delivered, LateCasts
  <1> QED  BY <1>1, FaultDelivers DEF LateCasts

LEMMA ReplyDelivers ==
    ASSUME Inv, Delivered, NEW n \in Nodes, Sync(n) \/ DeliverUnknown(n)
    PROVE  Delivered'
  <1> SUFFICES ASSUME faults = 0, NEW m \in Nodes PROVE InStep(m)'
    BY DEF Delivered, Sync, DeliverUnknown
  <1>1. /\ InStep(m) /\ InStep(n) /\ sync[n] = None /\ queue \in [Nodes -> Seq(Cast)]
        /\ UNCHANGED <<port, known, locs, routes>>
    BY DEF Delivered, Sync, DeliverUnknown, Inv, TypeOK
  <1>2. ASSUME NEW q \in [Nodes -> Seq(Cast)], Reply(n, q), InStepWith(m, q[m]) PROVE InStep(m)'
    <2> DEFINE p == Payload(port, registered \cup {n})
    <2>1. /\ registered' = registered \cup {n} /\ sync' = [sync EXCEPT ![n] = p]
          /\ queue'[m] = IF n \in registered THEN q[m] ELSE Append(q[m], p)
      BY <1>2 DEF Reply
    <2> HIDE DEF p
    <2> QED  BY <1>1, <1>2, <2>1, ReplyInStep DEF p
  <1>3. CASE Sync(n)
    BY <1>1, <1>2, <1>3 DEF Sync, InStep
  <1>4. CASE DeliverUnknown(n)
    <2>1. /\ Popped(n) \in [Nodes -> Seq(Cast)]
          /\ Popped(n)[m] = IF m = n THEN Tail(queue[n]) ELSE queue[m]
      BY <1>1, <1>4, TailSound DEF Popped, DeliverUnknown
    <2>2. InStepWith(m, Popped(n)[m])
      BY <1>1, <1>4, <2>1, PassedOver DEF InStep
    <2>3. CASE Reply(n, Popped(n))
      BY <1>2, <2>1, <2>2, <2>3
    <2>4. CASE queue' = Popped(n) /\ UNCHANGED <<registered, sync>>
      BY <1>1, <2>2, <2>4, InStepFrame
    <2> QED  BY <1>4, <2>3, <2>4 DEF DeliverUnknown
  <1> QED  BY <1>3, <1>4

LEMMA ApplyDelivers ==
    ASSUME Inv, Delivered, NEW n \in Nodes, SyncApplies(n) \/ Deliver(n)
    PROVE  Delivered'
  <1>1. UNCHANGED <<server, late, faults>>
    BY DEF SyncApplies, Deliver
  <1> SUFFICES ASSUME faults = 0, NEW m \in Nodes PROVE InStep(m)'
    BY <1>1 DEF Delivered, server
  <1>2. InStep(m) /\ InStep(n)
    BY DEF Delivered
  <1>3. CASE m = n
    BY <1>2, <1>3, SyncAppliesInStep, DeliverInStep
  <1>4. CASE m # n
    <2>1. /\ queue'[m] = queue[m] /\ sync'[m] = sync[m] /\ locs'[m] = locs[m] /\ routes'[m] = routes[m]
          /\ m \in known' <=> m \in known
      BY <1>4 DEF Inv, TypeOK, SyncApplies, Deliver, Popped, ApplyFull, RoutesUpdated
    <2> QED  BY <1>1, <1>2, <2>1, InStepFrame DEF InStep, server
  <1> QED  BY <1>3, <1>4

LEMMA AgentDelivers ==
    ASSUME Inv, Delivered, NEW n \in Nodes, Agent(n)
    PROVE  Delivered'
  <1>1. CASE SyncFails(n) \/ Lose(n) \/ Swap(n) \/ Crash(n)
    <2>1. faults' # 0 /\ UNCHANGED server
      BY <1>1 DEF SyncFails, Lose, Swap, Crash, Fault, Inv, TypeOK
    <2> QED  BY <2>1, FaultDelivers
  <1> QED  BY <1>1, ReplyDelivers, ApplyDelivers DEF Agent

\* At first the nodes that have synced are in step.
LEMMA StartDelivered ==
    ASSUME Init
    PROVE  Delivered
  <1> USE PortRoutesAssumption
  <1>1. /\ port \in [Vms -> Port] /\ registered = Settled /\ Settled \in SUBSET Nodes
        /\ known = Settled /\ sync = [n \in Nodes |-> None]
        /\ locs = [n \in Nodes |-> IF n \in Settled THEN Settled ELSE {}]
    BY DEF Init, Port
  <1>2. OneEach(port) /\ BoundPorts(port) /\ late = <<>>
    BY DEF Init, OneEach, BoundPorts
  <1>3. ASSUME NEW n \in Nodes PROVE InStep(n)
    <2>1. queue[n] = <<>> /\ Len(queue[n]) = 0 /\ sync[n] = None /\ \A i \in 1..0 : FALSE
      BY DEF Init
    <2>2. Named(n, queue[n])
      BY <2>1 DEF Named
    <2>3. Taught(queue[n], Base(n), registered)
      <3>1. registered \subseteq Base(n)
        BY <1>1, <2>1 DEF Base
      <3>2. \A h \in registered : Heard(queue[n], 0, Base(n), h)
        BY <3>1 DEF Heard
      <3> QED  BY <2>1, <3>2 DEF Taught
    <2>4. ASSUME NEW a \in Addresses PROVE Arrives(n, queue[n], a)
      <3> DEFINE m == Payload(port, Settled)
      <3>1. /\ m \in Cast /\ m.type = "full" /\ m.locs = Settled /\ Names(m, registered)
            /\ Leads(m, n, a) \in Right(port, registered, n, a)
        BY <1>1, PayloadTyped, PayloadFresh, PayloadRight
      <3>2. n \in Settled => routes[n] = Installed(n, Settled, m)
        BY DEF Init
      <3> HIDE DEF m
      <3>3. n \in known => routes[n][a] \in Right(port, registered, n, a)
        BY <1>1, <3>1, <3>2, InstalledLeads
      <3>4. EndsIn(queue[n], n, a, Right(port, registered, n, a))
        BY <2>1 DEF EndsIn
      <3> QED  BY <2>1, <3>3, <3>4 DEF Arrives
    <2> QED  BY <2>2, <2>3, <2>4 DEF InStep, InStepWith
  <1> QED  BY <1>2, <1>3 DEF Delivered

LEMMA StepDelivers ==
    ASSUME Inv, Delivered, [Next]_vars
    PROVE  Delivered'
  <1>1. CASE UNCHANGED vars
    <2>1. UNCHANGED <<port, registered, late, queue, known, locs, sync, routes, faults>>
      BY <1>1 DEF vars, server
    <2>2. faults = 0 => \A n \in Nodes : InStep(n)'
      BY <2>1, InStepFrame DEF Delivered, InStep
    <2> QED  BY <2>1, <2>2 DEF Delivered
  <1> QED  BY <1>1, PortDelivers, LateDelivers, AgentDelivers DEF Next

LEMMA QuietenedMatch ==
    ASSUME Inv, Delivered
    PROVE  IncrementsSuffice
  <1> SUFFICES ASSUME faults = 0, NEW n \in known, queue[n] = <<>>, sync[n] = None,
                      NEW x \in Addresses
               PROVE  routes[n][x] = Due(n, x) \/ InFlight(x) \/ Stranded(x)
    BY DEF IncrementsSuffice, Match, Inv, TypeOK
  <1>1. n \in Nodes /\ InStep(n) /\ Len(queue[n]) = 0
    BY DEF Inv, TypeOK, Delivered
  <1>2. Quiet(queue[n], x)
    BY <1>1 DEF Quiet
  <1>3. routes[n][x] \in Right(port, registered, n, x)
    BY <1>1, <1>2 DEF InStep, InStepWith, Arrives
  <1> QED  BY <1>3 DEF Right, Loose, Due, InFlight, Stranded

-----------------------------------------------------------------------------
(* The theorems.                                                            *)

LEMMA Start ==
    ASSUME Init
    PROVE  Inv
  <1> USE PortRoutesAssumption
  <1>1. port \in [Vms -> Port] /\ registered = Settled /\ Settled \in SUBSET Nodes
    BY DEF Init, Port
  <1> DEFINE m == Payload(port, Settled)
  <1>2. m \in Cast /\ m.to \in Routes
    <2>1. m \in Cast /\ m.type = "full"
      BY <1>1, PayloadTyped
    <2> QED  BY <2>1 DEF Cast
  <1>3. \A n \in Nodes : /\ Installed(n, Settled, m) \in Routes
                         /\ \A x \in Addresses :
                                Installed(n, Settled, m)[x] \in {None} \cup (Settled \ {n})
    BY <1>1, <1>2, InstalledReachable
  <1>4. routes = [n \in Nodes |-> IF n \in Settled THEN Installed(n, Settled, m) ELSE NoRoutes]
    BY DEF Init
  <1> HIDE DEF m
  <1>5. NoRoutes \in Routes /\ \A x \in Addresses : NoRoutes[x] = None
    BY DEF NoRoutes, Routes
  <1>6. routes \in [Nodes -> Routes] /\ RoutesReachable
    BY <1>1, <1>3, <1>4, <1>5 DEF RoutesReachable
  <1>7. TypeOK
    BY <1>1, <1>6 DEF Init, TypeOK
  <1>8. LocatorsRegistered /\ Replies
    BY <1>1 DEF Init, LocatorsRegistered, Replies
  <1> QED  BY <1>6, <1>7, <1>8 DEF Inv

LEMMA Step ==
    ASSUME Inv, [Next]_vars
    PROVE  Inv'
  <1>1. CASE UNCHANGED vars
    BY <1>1 DEF vars, server, Inv, TypeOK, LocatorsRegistered, SoundCasts, Replies, RoutesReachable
  <1>2. CASE \E v \in Vms : PortChange(v)
    BY <1>2, PortStep
  <1>3. CASE LateCasts
    BY <1>3, LateStep
  <1>4. CASE \E n \in Nodes : Agent(n)
    BY <1>4, SyncStep, BusStep, CrashStep DEF Agent
  <1> QED  BY <1>1, <1>2, <1>3, <1>4 DEF Next

\* The invariant, whatever the ports go through and whichever casts are lost,
\* late or out of order.
THEOREM Invariance == Spec => []Inv
  <1>1. Init => Inv
    BY Start
  <1>2. Inv /\ [Next]_vars => Inv'
    BY Step
  <1> QED  BY <1>1, <1>2, PTL DEF Spec

\* Every variable keeps its type: ports, casts on their way, and routes to
\* nodes only.
THEOREM TypeCorrect == Spec => []TypeOK
  <1>1. Inv => TypeOK
    BY DEF Inv
  <1> QED  BY <1>1, Invariance, PTL

\* No encap route of a node leads to itself or to a node without a locator
\* (dataplane._install_routes, Srv6Plugin._domain_payload).
THEOREM NoRouteToItself == Spec => []RoutesReachable
  <1>1. Inv => RoutesReachable
    BY DEF Inv
  <1> QED  BY <1>1, Invariance, PTL

\* While no cast is late, lost or out of order, every node that knows the domain
\* and has applied what it was sent has exactly the routes it should, however
\* many ports came, went and moved (registry_port_updated, _notify_port,
\* _installs_routes): increments need no resync behind them.
THEOREM InOrderSuffices == Spec => []IncrementsSuffice
  <1>1. Init => Delivered
    BY StartDelivered
  <1>2. Inv /\ Delivered /\ [Next]_vars => Delivered'
    BY StepDelivers
  <1>3. Inv /\ Delivered => IncrementsSuffice
    BY QuietenedMatch
  <1> QED  BY <1>1, <1>2, <1>3, Invariance, PTL DEF Spec
=============================================================================
