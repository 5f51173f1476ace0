------------------------------ MODULE TePaths ------------------------------
(***************************************************************************)
(* Traffic engineering: the table of TE paths of one domain, the segment   *)
(* lists a payload carries for every ingress at once, what each ingress    *)
(* pushes, and the monitor that re-pushes when a waypoint dies or returns. *)
(*                                                                         *)
(* A path is a row whose selector (destination, source) is unique: a       *)
(* destination is a host or a port, a source any ingress, one host or one  *)
(* VM's port.  An API worker commits first and pushes after, from the      *)
(* database as it is then.  How casts travel is DomainSync's subject: here *)
(* a payload reaches the agents as it is sent, and the agents' periodic    *)
(* resync, which could only help, is left out.                             *)
(***************************************************************************)
EXTENDS SidCodec, FiniteSets, Functions

CONSTANTS
    Hosts, Fabric,      \* compute nodes; the nodes of topology_file, spines and leaves
    Ports, NetOf,       \* VMs, and the network each is on
    DomainNets,         \* the networks attached to the domain
    Locator,            \* [Hosts \cup Fabric -> locator]
    Fid, Usid,          \* the domain's function id; dataplane_encoding
    AnyHost, None, NotRun,
    MaxViaHosts,        \* MAX_TE_VIA_HOSTS
    Asked, ViaLists,    \* the selectors and the via_hosts requests ask for
    Mortal,             \* the nodes that may die
    Newcomers,          \* hosts that have not registered a locator yet
    Home,               \* [Ports -> the host a VM starts on]
    Earlier,            \* the tables a server may start with
    MaxPaths, MaxOps, MaxFaults     \* bounds

Nodes == Hosts \cup Fabric
Selectors == [dst : Hosts \cup Ports, src : {AnyHost} \cup Hosts \cup Ports]
Sid == [block : Nat, csids : Seq(Nat)]

ASSUME TePathsAssumption ==
    /\ Hosts \cap Ports = {}
    /\ AnyHost \notin Hosts \cup Ports
    /\ None \notin Nodes \cup Ports \cup {AnyHost} \cup Selectors \cup Seq(Sid)
                 \cup [at : Hosts, segments : Seq(Sid)]
    /\ Locator \in [Nodes -> [block : Nat, node : Nat]] /\ IsInjective(Locator)
    /\ Fid \in Nat
    /\ Asked \subseteq Selectors /\ ViaLists \subseteq Seq(Nodes)
    /\ \A table \in Earlier : /\ DOMAIN table \subseteq Selectors
                              /\ \A sel \in DOMAIN table : table[sel].via \in Seq(Nodes)
    /\ MaxViaHosts \in Nat /\ MaxPaths \in Nat /\ MaxOps \in Nat /\ MaxFaults \in Nat

VARIABLES
    (* the database *)
    paths,      \* srv6_te_paths: [selector -> via_hosts and origin]
    bound,      \* [Ports -> the host a VM is bound to, None once it is deleted]
    registered, \* hosts with a locator row
    down,       \* nodes judged dead: agent heartbeats, or silent link state
    (* workers *)
    owed,       \* pushes committed requests still have to send
    events,     \* ports whose update or delete callback has not run yet
    plan,       \* an automatic path on its way from a re-optimisation pass
    (* the agents *)
    sent,       \* [Ports -> the route the agents hold for a port, or None]
    (* the monitor: one process *)
    seen,       \* self._dead, the waypoints it last acted on; NotRun at first
    pass,       \* the pass in progress: what it read
    unwatched,  \* history: nodes back alive that no completed pass has noticed
    ops, faults

database == <<paths, bound, registered, down>>
monitor == <<seen, pass, unwatched>>
vars == <<database, owed, events, plan, sent, monitor, ops, faults>>

-----------------------------------------------------------------------------
(* Resolution: what the server computes from the database. *)

Usable(via) == \A i \in DOMAIN via : via[i] \in (registered \cup Fabric) \ down

\* All the waypoints or none: a list with a hop left out is another path.
TransitSids(via) == [i \in DOMAIN via |-> TransitSid(Locator[via[i]], Usid)]

\* The row that decides for one source: a path to the port before one to its host.
BestRow(port, host, src) ==
    LET rows == {s \in DOMAIN paths : s.src = src /\ s.dst \in {port, host}}
    IN  IF rows = {} THEN None
        ELSE CHOOSE s \in rows : (\E r \in rows : r.dst = port) => s.dst = port

\* Mutant: a path that cannot be used leaves no entry, so the next rank takes over.
RouteTransitSkips(port, host, src, node) ==
    LET best == BestRow(port, host, src)
    IN  IF best # None /\ node \in registered \cup {AnyHost} /\ Usable(paths[best].via)
        THEN TransitSids(paths[best].via) ELSE None

\* None: no path of this source applies.  <<>>: direct, asked for or degraded.
RouteTransit(port, host, src, node) ==
    LET best == BestRow(port, host, src)
    IN  IF best = None THEN None
        ELSE IF node \in registered \cup {AnyHost} /\ Usable(paths[best].via)
        THEN TransitSids(paths[best].via) ELSE <<>>

\* Source VMs steer at the node they are bound to.
SegmentsBySourcePort(port, host) ==
    [vm \in Ports |->
        IF bound[vm] \notin registered \/ bound[vm] = host THEN None
        ELSE LET list == RouteTransit(port, host, vm, bound[vm])
             IN  IF list = None THEN None ELSE [at |-> bound[vm], segments |-> list]]

\* The answer for every ingress, and for every source VM.
RouteFor(port) ==
    LET host == bound[port]
        any == RouteTransit(port, host, AnyHost, AnyHost)
    IN  IF NetOf[port] \notin DomainNets \/ host \notin registered THEN None
        ELSE [host |-> host,
              segments |-> IF any = None THEN <<>> ELSE any,
              bySource |-> [h \in Hosts |-> IF h = host THEN None
                                            ELSE RouteTransit(port, host, h, h)],
              byVm |-> SegmentsBySourcePort(port, host)]

BuildPayload == [p \in Ports |-> RouteFor(p)]

\* An agent takes its own entry when there is one, an empty one included.
SegmentsFor(route, ingress) ==
    IF route.bySource[ingress] # None THEN route.bySource[ingress] ELSE route.segments

\* A steered VM's traffic meets its steer table before the domain's routes.
TransitOf(route, ingress, vm) ==
    IF vm # None /\ route.byVm[vm] # None /\ route.byVm[vm].at = ingress
    THEN route.byVm[vm].segments ELSE SegmentsFor(route, ingress)

Pushed(route, ingress, vm) ==
    Encode(Append(DropLeading(TransitOf(route, ingress, vm), TransitSid(Locator[ingress], Usid)),
                  SidFor(Locator[route.host], Fid)), Usid)

(* The status and the segments the API shows for a path. *)
SourceOf(sel) == IF sel.src \in Ports THEN bound[sel.src] ELSE sel.src
DestinationOf(sel) == IF sel.dst \in Ports THEN bound[sel.dst] ELSE sel.dst

Active(sel) ==
    /\ DestinationOf(sel) \in registered
    /\ Usable(paths[sel].via)
    /\ sel.src # AnyHost => /\ SourceOf(sel) \in registered
                        /\ SourceOf(sel) # DestinationOf(sel)

\* Mutant: the segments shown ignore that an ingress does not steer to itself.
ShownWhole(sel) ==
    IF ~Active(sel) THEN <<>>
    ELSE Append(TransitSids(paths[sel].via), SidFor(Locator[DestinationOf(sel)], Fid))

Shown(sel) ==
    LET transit == TransitSids(paths[sel].via)
    IN  IF ~Active(sel) THEN <<>>
        ELSE Append(IF sel.src = AnyHost THEN transit
                    ELSE DropLeading(transit, TransitSid(Locator[SourceOf(sel)], Usid)),
                    SidFor(Locator[DestinationOf(sel)], Fid))

EncodedSegments(sel) == IF Active(sel) THEN Encode(Shown(sel), Usid) ELSE <<>>

-----------------------------------------------------------------------------
NoPass == [step |-> "idle", dead |-> {}, push |-> FALSE, covers |-> {}]
NoPlan == [sel |-> None, via |-> <<>>, moves |-> FALSE]

Init ==
    /\ paths \in Earlier
    /\ bound = Home
    /\ registered = Hosts \ Newcomers
    /\ down = {}
    /\ owed = 0 /\ events = {} /\ plan = NoPlan
    /\ sent = [p \in Ports |-> RouteFor(p)]
    /\ seen = NotRun /\ pass = NoPass /\ unwatched = {}
    /\ ops = 0 /\ faults = 0

Request == ops < MaxOps /\ ops' = ops + 1
Fault == faults < MaxFaults /\ faults' = faults + 1

-----------------------------------------------------------------------------
(* The API: each request commits, then owes a push of the whole domain. *)

ValidVia(via) ==
    /\ Len(via) <= MaxViaHosts
    /\ \A i \in DOMAIN via : via[i] \in registered \cup Fabric

InDomain(port) == bound[port] # None /\ NetOf[port] \in DomainNets

ValidDestination(dst) == IF dst \in Ports THEN InDomain(dst) ELSE dst \in registered

\* A node never encapsulates towards its own VMs.
ValidSourceHost(node, dst) ==
    /\ node \in registered
    /\ node # (IF dst \in Ports THEN bound[dst] ELSE dst)

\* Traffic inside a network is switched, never routed through the domain.
ValidSource(src, dst) ==
    \/ src = AnyHost
    \/ src \in Hosts /\ ValidSourceHost(src, dst)
    \/ /\ src \in Ports /\ src # dst /\ InDomain(src)
       /\ dst \in Ports => NetOf[src] # NetOf[dst]
       /\ ValidSourceHost(bound[src], dst)

\* The table with this path stored, its hops replaced as one list.
Stored(sel, via, origin) ==
    [s \in DOMAIN paths \cup {sel} |->
        IF s = sel THEN [via |-> via, origin |-> origin] ELSE paths[s]]
Without(sels) == Restrict(paths, DOMAIN paths \ sels)

CreatePath(sel, via) ==
    /\ Request
    /\ ValidDestination(sel.dst) /\ ValidSource(sel.src, sel.dst) /\ ValidVia(via)
    /\ sel \notin DOMAIN paths                      \* else Srv6TePathExists
    /\ Cardinality(DOMAIN paths) < MaxPaths
    /\ paths' = Stored(sel, via, "user")
    /\ owed' = owed + 1
    /\ UNCHANGED <<bound, registered, down, events, plan, sent, monitor, faults>>

\* A path the server made is not for hand edits.
UpdatePath(sel, via) ==
    /\ Request
    /\ sel \in DOMAIN paths /\ paths[sel].origin # "auto" /\ ValidVia(via)
    /\ paths[sel].via # via
    /\ paths' = Stored(sel, via, paths[sel].origin)
    /\ owed' = owed + 1
    /\ UNCHANGED <<bound, registered, down, events, plan, sent, monitor, faults>>

DeletePath(sel) ==
    /\ Request
    /\ sel \in DOMAIN paths
    /\ paths' = Without({sel})
    /\ owed' = owed + 1
    /\ UNCHANGED <<bound, registered, down, events, plan, sent, monitor, faults>>

Push ==
    /\ owed > 0
    /\ owed' = owed - 1
    /\ sent' = BuildPayload
    /\ UNCHANGED <<database, events, plan, monitor, ops, faults>>

-----------------------------------------------------------------------------
(* The re-optimisation: it chooses a path for the nodes its VMs are on, and *)
(* places it in a transaction of its own.                                   *)

PlanAutoPath(sel, via) ==
    /\ Request
    /\ plan = NoPlan
    /\ {sel.src, sel.dst} \subseteq {p \in Ports : bound[p] # None}
    /\ bound[sel.src] # bound[sel.dst] /\ NetOf[sel.src] # NetOf[sel.dst]
    /\ via # <<>> /\ ToSet(via) \subseteq Fabric          \* compute knows the topology only
    /\ sel \in DOMAIN paths => paths[sel].origin = "auto"
    /\ plan' = [sel |-> sel, via |-> via, moves |-> sel \in DOMAIN paths]
    /\ UNCHANGED <<database, owed, events, sent, monitor, faults>>

\* A path that was there is moved, unless it went; a new one is refused when
\* somebody made one first or a port went (unique selector, foreign keys).
PlaceAutoPath ==
    /\ plan # NoPlan
    /\ plan' = NoPlan
    /\ LET sel == plan.sel
           placed == /\ bound[sel.src] # None /\ bound[sel.dst] # None
                     /\ plan.moves <=> sel \in DOMAIN paths
                     /\ plan.moves => paths[sel].origin = "auto"
                     /\ Cardinality(DOMAIN paths \cup {sel}) <= MaxPaths
       IN  IF placed
           THEN /\ paths' = Stored(sel, plan.via, "auto")
                /\ owed' = owed + 1
           ELSE UNCHANGED <<paths, owed>>
    /\ UNCHANGED <<bound, registered, down, events, sent, monitor, ops, faults>>

-----------------------------------------------------------------------------
(* VMs that move and go: the binding changes first, the callback follows. *)

MovePort(p, h) ==
    /\ Request
    /\ bound[p] \notin {None, h} /\ p \notin events
    /\ bound' = [bound EXCEPT ![p] = h]
    /\ events' = events \cup {p}
    /\ UNCHANGED <<paths, registered, down, owed, plan, sent, monitor, faults>>

\* The port's row takes its paths with it (ON DELETE CASCADE).
DeletePort(p) ==
    /\ Request
    /\ bound[p] # None /\ p \notin events
    /\ bound' = [bound EXCEPT ![p] = None]
    /\ paths' = Without({s \in DOMAIN paths : p \in {s.dst, s.src}})
    /\ events' = events \cup {p}
    \* registry_port_deleting has kept the domains of its source-VM paths
    /\ owed' = IF \E s \in DOMAIN paths : s.src = p THEN owed + 1 ELSE owed
    /\ UNCHANGED <<registered, down, plan, sent, monitor, faults>>

AutoPathsOf(p) == {s \in DOMAIN paths : paths[s].origin = "auto" /\ p \in {s.dst, s.src}}

\* _source_vm_moved, then the increment of _notify_port for this route alone.
PortCallback(p) ==
    /\ p \in events
    /\ events' = events \ {p}
    /\ IF bound[p] = None
       THEN UNCHANGED <<paths, owed>>
       ELSE /\ paths' = Without(AutoPathsOf(p))
            /\ owed' = IF AutoPathsOf(p) # {} \/ (\E s \in DOMAIN paths : s.src = p)
                       THEN owed + 1 ELSE owed
    /\ UNCHANGED <<bound, registered, down, plan, monitor, ops, faults>>
    /\ sent' = [sent EXCEPT ![p] = RouteFor(p)']

-----------------------------------------------------------------------------
(* Nodes. *)

\* A new locator re-broadcasts every domain.
Register(h) ==
    /\ Request
    /\ h \notin registered
    /\ registered' = registered \cup {h}
    /\ owed' = owed + 1
    /\ UNCHANGED <<paths, bound, down, events, plan, sent, monitor, faults>>

\* A node counts as alive for agent_down_time (a fabric node for
\* link_state_stale_after) after it is back: longer than a pass takes to come.
Die(n) ==
    /\ Fault
    /\ n \notin down \cup unwatched
    /\ down' = down \cup {n}
    /\ UNCHANGED <<paths, bound, registered, owed, events, plan, sent, monitor, ops>>

Return(n) ==
    /\ n \in down
    /\ down' = down \ {n}
    /\ unwatched' = unwatched \cup {n}
    /\ UNCHANGED <<paths, bound, registered, owed, events, plan, sent, seen, pass, ops, faults>>

-----------------------------------------------------------------------------
(* The liveness monitor: read, push, and only then remember. *)

Waypoints == UNION {ToSet(paths[s].via) : s \in DOMAIN paths}
Remembered == IF seen = NotRun THEN {} ELSE seen

\* Mutant: a pass remembers the deaths before its pushes went out.
MonitorReadRemembers ==
    /\ pass.step = "idle"
    /\ LET dead == down \cap Waypoints
           changed == (dead \ Remembered) \cup (Remembered \ dead)
       IN  /\ dead # seen
           /\ pass' = [step |-> "push", dead |-> dead, covers |-> unwatched,
                       push |-> changed \cap Waypoints # {}]
           /\ seen' = dead
    /\ UNCHANGED <<database, owed, events, plan, sent, unwatched, ops, faults>>

\* Mutant: the first pass after a start only remembers.
MonitorReadFirstSilent ==
    /\ pass.step = "idle"
    /\ LET dead == down \cap Waypoints
           changed == (dead \ Remembered) \cup (Remembered \ dead)
       IN  /\ dead # seen
           /\ pass' = [step |-> "push", dead |-> dead, covers |-> unwatched,
                       push |-> seen # NotRun /\ changed \cap Waypoints # {}]
    /\ UNCHANGED <<database, owed, events, plan, sent, seen, unwatched, ops, faults>>

\* The first pass has nothing to compare with and acts on every dead waypoint.
MonitorRead ==
    /\ pass.step = "idle"
    /\ LET dead == down \cap Waypoints
           changed == (dead \ Remembered) \cup (Remembered \ dead)
       IN  IF dead = seen
           THEN /\ unwatched # {}                   \* else the pass changes nothing
                /\ unwatched' = {}
                /\ pass' = NoPass
           ELSE /\ pass' = [step |-> "push", dead |-> dead, covers |-> unwatched,
                            push |-> changed \cap Waypoints # {}]
                /\ UNCHANGED unwatched
    /\ UNCHANGED <<database, owed, events, plan, sent, seen, ops, faults>>

MonitorPush ==
    /\ pass.step = "push"
    /\ pass' = [pass EXCEPT !.step = "close"]
    /\ sent' = IF pass.push THEN BuildPayload ELSE sent
    /\ UNCHANGED <<database, owed, events, plan, seen, unwatched, ops, faults>>

\* The push raises: the pass ends, what it knew stays as it was.
MonitorPushFails ==
    /\ Fault
    /\ pass.step = "push" /\ pass.push
    /\ pass' = NoPass
    /\ UNCHANGED <<database, owed, events, plan, sent, seen, unwatched, ops>>

MonitorClose ==
    /\ pass.step = "close"
    /\ seen' = pass.dead
    /\ unwatched' = unwatched \ pass.covers
    /\ pass' = NoPass
    /\ UNCHANGED <<database, owed, events, plan, sent, ops, faults>>

MonitorRestart ==
    /\ Fault
    /\ seen # NotRun \/ pass # NoPass
    /\ seen' = NotRun /\ pass' = NoPass
    /\ UNCHANGED <<database, owed, events, plan, sent, unwatched, ops>>

-----------------------------------------------------------------------------
Next ==
    \/ \E sel \in Asked, via \in ViaLists : CreatePath(sel, via)
    \/ \E sel \in DOMAIN paths, via \in ViaLists : UpdatePath(sel, via)
    \/ \E sel \in DOMAIN paths : DeletePath(sel)
    \/ Push
    \/ \E sel \in Asked, via \in ViaLists : PlanAutoPath(sel, via)
    \/ PlaceAutoPath
    \/ \E p \in Ports, h \in Hosts : MovePort(p, h)
    \/ \E p \in Ports : DeletePort(p)
    \/ \E p \in Ports : PortCallback(p)
    \/ \E h \in Hosts : Register(h)
    \/ \E n \in Mortal : Die(n)
    \/ \E n \in Mortal : Return(n)
    \/ MonitorRead \/ MonitorPush \/ MonitorPushFails \/ MonitorClose \/ MonitorRestart

\* The workers finish what they committed and the timer of the monitor fires;
\* nothing says that a dead node ever returns.
Fairness ==
    /\ WF_vars(Push)
    /\ WF_vars(PlaceAutoPath)
    /\ \A p \in Ports : WF_vars(PortCallback(p))
    /\ WF_vars(MonitorRead) /\ WF_vars(MonitorPush) /\ WF_vars(MonitorClose)

Spec == Init /\ [][Next]_vars
FairSpec == Spec /\ Fairness
-----------------------------------------------------------------------------
(* What TE promises. *)

\* The documented ranks, highest first, for traffic that enters at `ingress`
\* (from VM `vm`, if not None) towards `port`.
Ranks(port, ingress, vm) ==
    << [dst |-> port, src |-> vm],      [dst |-> bound[port], src |-> vm],
       [dst |-> port, src |-> ingress], [dst |-> bound[port], src |-> ingress],
       [dst |-> port, src |-> AnyHost], [dst |-> bound[port], src |-> AnyHost] >>

\* The path that decides: the first rank that has one, or None.
Winner(port, ingress, vm) ==
    LET ranks == Ranks(port, ingress, vm)
        held == {i \in DOMAIN ranks : ranks[i] \in DOMAIN paths}
    IN  IF held = {} THEN None ELSE ranks[CHOOSE i \in held : \A j \in held : i <= j]

\* Traffic the domain carries between nodes: who sends, where it enters.
Flows == {f \in [port : Ports, ingress : registered, vm : Ports \cup {None}] :
            /\ RouteFor(f.port) # None
            /\ f.ingress # bound[f.port]
            /\ f.vm # None => bound[f.vm] = f.ingress}

Decap(f) == SidFor(Locator[bound[f.port]], Fid)
Direct(f) == <<Decap(f)>>

\* Whatever maps and entries a payload spreads the paths over, every ingress
\* ends up with the path of the highest documented rank, and a degraded or
\* empty path of that rank means direct, never the next path down
\* (plugin.py _attach_segments, dataplane.py _segments_for).
PrecedenceKept ==
    \A f \in Flows :
        LET win == Winner(f.port, f.ingress, f.vm)
            transit == IF win = None \/ ~Usable(paths[win].via) THEN <<>>
                       ELSE TransitSids(paths[win].via)
            own == TransitSid(Locator[f.ingress], Usid)
        IN  Pushed(RouteFor(f.port), f.ingress, f.vm) =
                Encode(Append(DropLeading(transit, own), Decap(f)), Usid)

\* What the API shows of a path is what its own ingress pushes wherever the
\* path decides; a path it calls DEGRADED steers nothing (plugin.py
\* _resolve_te_path against dataplane.py _encap).
StatusTells ==
    \A f \in Flows :
        LET win == Winner(f.port, f.ingress, f.vm)
        IN  /\ win # None
            /\ win.src # AnyHost
            => Pushed(RouteFor(f.port), f.ingress, f.vm) =
                   IF Active(win) THEN EncodedSegments(win) ELSE Encode(Direct(f), Usid)

\* The C-SIDs a packet consumes, container after container.
Consumed(list) == FlattenSeq([i \in DOMAIN list |-> list[i].csids])

\* The packet visits the waypoints in order and no other node, and its last
\* two C-SIDs, in one container, are the decap SID of the destination: a
\* container that began with a function would match no route on any node
\* (sid.py pack_next_csid, D9).
ContainersReach ==
    Usid => \A sel \in DOMAIN paths : Active(sel) =>
        LET list == EncodedSegments(sel)
            last == list[Len(list)].csids
        IN  /\ Consumed(list) = Consumed(Shown(sel))
            /\ \A i \in DOMAIN list : list[i].csids[1] <= GibMax
            /\ \A i \in DOMAIN list : Len(list[i].csids) <= PerContainer
            /\ Len(last) >= 2 /\ last[Len(last)] = Fid

\* The nodes that the agents' routes lead through.
NodesOf(list) == {n \in Nodes : TransitSid(Locator[n], Usid) \in ToSet(list)}
ListsOf(route) ==
    {route.segments} \cup {route.bySource[h] : h \in {h \in Hosts : route.bySource[h] # None}}
    \cup {route.byVm[vm].segments : vm \in {vm \in Ports : route.byVm[vm] # None}}
SteeredThrough == UNION {UNION {NodesOf(l) : l \in ListsOf(sent[p])} :
                            p \in {p \in Ports : sent[p] # None}}

\* A dead waypoint the monitor has noted, and so never looks at again, carries
\* no traffic: not through a push built before the death, nor one that raised,
\* nor the increment of a VM that moved meanwhile (te_liveness.py _check).
NotedDeadAvoided == SteeredThrough \cap down \cap Remembered = {}

\* A waypoint that stays dead stops carrying traffic, whatever push failed on
\* the way and however often the monitor restarted, without waiting for a
\* resync (te_liveness.py).
DeathReroutes == \A n \in Mortal : <>[](n \in down) => <>[](n \notin SteeredThrough)
=============================================================================
