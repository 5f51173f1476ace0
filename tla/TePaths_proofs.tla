---------------------------- MODULE TePaths_proofs ----------------------------
(***************************************************************************)
(* For any number of hosts, fabric nodes, VMs and paths.                   *)
(*                                                                         *)
(* However the monitor's pushes fail and restarts erase its memory, a dead *)
(* waypoint it has noted carries no traffic (NotedDeadAvoided).  What      *)
(* makes it inductive: a payload is built from the nodes that are down     *)
(* then, so no route sent since a death leads through the node; and a node *)
(* the monitor has noted, or is about to, has been down ever since, or it  *)
(* is one that came back and that no completed pass has noticed.           *)
(*                                                                         *)
(* And whatever table of paths there is, what a payload makes an ingress   *)
(* push is the path of the highest ranked selector, an unusable one        *)
(* meaning direct (PrecedenceKept).  The ranks are a chain of six          *)
(* selectors; the payload spreads them over a default, a map by ingress    *)
(* and a map by VM, and BestRow halves each step.  The proof puts the two  *)
(* side by side: the best row of a source is the first of its two ranks,   *)
(* and a map has an entry exactly if one of the two is there.  All it      *)
(* needs of a state is that the table is well formed, an invariant.        *)
(*                                                                         *)
(* And with microSIDs the containers that stand for a list of SIDs lead    *)
(* through its waypoints (ContainersReach).  pack_next_csid goes through   *)
(* the SIDs one by one, so this is an induction over the list: what is in  *)
(* the containers so far is the SIDs so far, no SID is split, and every    *)
(* container begins as some SID does.                                      *)
(***************************************************************************)
EXTENDS TePaths, SequenceTheorems, WellFoundedInduction, TLAPS

\* The nodes an agent's route leads through.
Through(route) == IF route = None THEN {} ELSE UNION {NodesOf(l) : l \in ListsOf(route)}

Typed ==
    /\ registered \subseteq Hosts
    /\ sent = [p \in Ports |-> sent[p]]
    /\ pass.step \in {"idle", "push", "close"}
    /\ pass = [step |-> pass.step, dead |-> pass.dead, push |-> pass.push, covers |-> pass.covers]

\* A node that came back is unwatched until a pass that saw it back is over.
DownSinceNoted ==
    /\ Remembered \subseteq down \cup unwatched
    /\ down \cap unwatched = {}
    /\ pass.step # "idle" => /\ pass.dead \subseteq down \cup unwatched
                             /\ pass.dead \cap pass.covers = {}

\* A pass that pushes nothing notes no death.
PushedBeforeNoted ==
    /\ pass.step = "push" /\ ~pass.push => pass.dead \subseteq Remembered
    /\ pass.step = "close" => \A p \in Ports : Through(sent[p]) \cap down \cap pass.dead = {}

Avoided == \A p \in Ports : Through(sent[p]) \cap down \cap Remembered = {}

Inv == Typed /\ DownSinceNoted /\ PushedBeforeNoted /\ Avoided

-----------------------------------------------------------------------------
(* A route that is built now leads through no node that is down.            *)

LEMMA TransitSidInjective ==
    ASSUME NEW m \in Nodes, NEW n \in Nodes,
           TransitSid(Locator[m], Usid) = TransitSid(Locator[n], Usid)
    PROVE  m = n
  <1>1. Locator[m] \in [block : Nat, node : Nat] /\ Locator[n] \in [block : Nat, node : Nat]
    BY TePathsAssumption
  <1>2. Locator[m].block = Locator[n].block /\ Locator[m].node = Locator[n].node
    <2>1. CASE Usid
      <3>1. NodeSid(Locator[m]) = NodeSid(Locator[n])
        BY <2>1 DEF TransitSid
      <3>2. /\ NodeSid(Locator[m]).block = NodeSid(Locator[n]).block
            /\ NodeSid(Locator[m]).csids[1] = NodeSid(Locator[n]).csids[1]
        BY <3>1
      <3> QED  BY <3>2 DEF NodeSid
    <2>2. CASE ~Usid
      <3>1. SidFor(Locator[m], NodeEnd) = SidFor(Locator[n], NodeEnd)
        BY <2>2 DEF TransitSid
      <3>2. /\ SidFor(Locator[m], NodeEnd).block = SidFor(Locator[n], NodeEnd).block
            /\ SidFor(Locator[m], NodeEnd).csids[1] = SidFor(Locator[n], NodeEnd).csids[1]
        BY <3>1
      <3> QED  BY <3>2 DEF SidFor
    <2> QED  BY <2>1, <2>2
  <1>3. Locator[m] = Locator[n]
    BY <1>1, <1>2
  <1> QED  BY <1>3, TePathsAssumption DEF IsInjective

LEMMA UsableAvoids ==
    ASSUME registered \subseteq Hosts, NEW via, Usable(via)
    PROVE  NodesOf(TransitSids(via)) \cap down = {}
  <1> SUFFICES ASSUME NEW n \in NodesOf(TransitSids(via)) PROVE n \notin down
    OBVIOUS
  <1>1. n \in Nodes /\ TransitSid(Locator[n], Usid) \in ToSet(TransitSids(via))
    BY DEF NodesOf
  <1>2. PICK i \in DOMAIN via : TransitSid(Locator[n], Usid) = TransitSid(Locator[via[i]], Usid)
    BY <1>1 DEF ToSet, TransitSids
  <1>3. via[i] \in Nodes /\ via[i] \notin down
    BY DEF Usable, Nodes
  <1> QED  BY <1>1, <1>2, <1>3, TransitSidInjective

LEMMA EmptyAvoids == NodesOf(<<>>) = {}
  BY DEF NodesOf, ToSet

LEMMA TransitAvoids ==
    ASSUME registered \subseteq Hosts, NEW port, NEW host, NEW src, NEW node,
           RouteTransit(port, host, src, node) # None
    PROVE  NodesOf(RouteTransit(port, host, src, node)) \cap down = {}
  <1> DEFINE best == BestRow(port, host, src)
  <1>1. CASE node \in registered \cup {AnyHost} /\ Usable(paths[best].via)
    BY <1>1, UsableAvoids DEF RouteTransit
  <1>2. CASE ~(node \in registered \cup {AnyHost} /\ Usable(paths[best].via))
    BY <1>2, EmptyAvoids DEF RouteTransit
  <1> QED  BY <1>1, <1>2

LEMMA FreshAvoids ==
    ASSUME registered \subseteq Hosts, NEW p \in Ports
    PROVE  Through(RouteFor(p)) \cap down = {}
  <1> DEFINE host == bound[p]
             any == RouteTransit(p, host, AnyHost, AnyHost)
             bySource == [h \in Hosts |-> IF h = host THEN None ELSE RouteTransit(p, host, h, h)]
             byVm == SegmentsBySourcePort(p, host)
             segments == IF any = None THEN <<>> ELSE any
             route == [host |-> host, segments |-> segments, bySource |-> bySource, byVm |-> byVm]
  <1>1. CASE RouteFor(p) = None
    BY <1>1 DEF Through
  <1>2. CASE RouteFor(p) # None
    <2>1. RouteFor(p) = route
      BY <1>2 DEF RouteFor
    <2>2. NodesOf(segments) \cap down = {}
      BY TransitAvoids, EmptyAvoids
    <2>3. \A h \in Hosts : bySource[h] # None => NodesOf(bySource[h]) \cap down = {}
      BY TransitAvoids
    <2>4. \A vm \in Ports : byVm[vm] # None => NodesOf(byVm[vm].segments) \cap down = {}
      BY TransitAvoids DEF SegmentsBySourcePort
    <2>5. route.segments = segments /\ route.bySource = bySource /\ route.byVm = byVm
      OBVIOUS
    <2> HIDE DEF segments, bySource, byVm, route
    <2>6. \A l \in ListsOf(route) : NodesOf(l) \cap down = {}
      BY <2>2, <2>3, <2>4, <2>5 DEF ListsOf
    <2> QED  BY <1>2, <2>1, <2>6 DEF Through
  <1> QED  BY <1>1, <1>2

\* The same of a route built from the next state.
LEMMA FreshAvoidsNext ==
    ASSUME NEW p \in Ports
    PROVE  (registered \subseteq Hosts)' => (Through(RouteFor(p)) \cap down = {})'
  <1>1. registered \subseteq Hosts => Through(RouteFor(p)) \cap down = {}
    BY FreshAvoids
  <1> QED  BY <1>1, PTL

-----------------------------------------------------------------------------
(* The steps.                                                               *)

\* Whatever happens between two steps of the monitor: routes stay, or are built
\* anew.
LEMMA Between ==
    ASSUME Inv, Typed', UNCHANGED <<down, monitor>>,
           \A p \in Ports : sent'[p] = sent[p] \/ Through(sent'[p]) \cap down = {}
    PROVE  Inv'
  <1>1. DownSinceNoted'
    BY DEF Inv, DownSinceNoted, Remembered, monitor
  <1>2. PushedBeforeNoted' /\ Avoided'
    BY DEF Inv, PushedBeforeNoted, Avoided, Remembered, monitor
  <1> QED  BY <1>1, <1>2 DEF Inv

LEMMA RequestStep ==
    ASSUME Inv,
           \/ \E sel \in Asked, via \in ViaLists : CreatePath(sel, via) \/ PlanAutoPath(sel, via)
           \/ \E sel \in DOMAIN paths, via \in ViaLists : UpdatePath(sel, via)
           \/ \E sel \in DOMAIN paths : DeletePath(sel)
           \/ PlaceAutoPath
           \/ \E p \in Ports, h \in Hosts : MovePort(p, h)
           \/ \E p \in Ports : DeletePort(p)
           \/ \E h \in Hosts : Register(h)
    PROVE  Inv'
  <1>1. UNCHANGED <<down, sent, monitor>> /\ registered' \subseteq Hosts
    BY Zenon DEF CreatePath, PlanAutoPath, UpdatePath, DeletePath, PlaceAutoPath, MovePort, DeletePort,
           Register, database, Inv, Typed
  <1>2. Typed'
    BY <1>1 DEF Inv, Typed, monitor
  <1> QED  BY <1>1, <1>2, Between

LEMMA PushStep ==
    ASSUME Inv, Push \/ \E p \in Ports : PortCallback(p)
    PROVE  Inv'
  <1>0. Typed
    BY DEF Inv
  <1>1. CASE Push
    <2>1. sent' = BuildPayload /\ UNCHANGED <<database, monitor>>
      BY <1>1 DEF Push
    <2>2. \A p \in Ports : sent'[p] = RouteFor(p)
      BY <2>1 DEF BuildPayload
    <2>3. Typed'
      BY <1>0, <2>1 DEF Typed, BuildPayload, database, monitor
    <2>4. \A p \in Ports : Through(sent'[p]) \cap down = {}
      BY <1>0, <2>2, FreshAvoids DEF Typed
    <2> QED  BY <2>1, <2>3, <2>4, Between DEF database
  <1>2. ASSUME NEW p \in Ports, PortCallback(p) PROVE Inv'
    <2>1. sent' = [sent EXCEPT ![p] = RouteFor(p)'] /\ UNCHANGED <<registered, down, monitor>>
      BY <1>2 DEF PortCallback
    <2>2. Typed'
      BY <1>0, <2>1 DEF Typed, monitor
    <2>3. Through(RouteFor(p)') \cap down' = {}
      BY <2>2, FreshAvoidsNext DEF Typed, Through
    <2>4. \A q \in Ports : sent'[q] = IF q = p THEN RouteFor(p)' ELSE sent[q]
      BY <1>0, <2>1 DEF Typed
    <2> QED  BY <2>1, <2>2, <2>3, <2>4, Between
  <1> QED  BY <1>1, <1>2

\* Deaths: a node that came back does not die again before a pass is over.
LEMMA NodeStep ==
    ASSUME Inv, NEW n \in Mortal, Die(n) \/ Return(n)
    PROVE  Inv'
  <1>1. CASE Die(n)
    <2>1. /\ n \notin down \cup unwatched /\ down' = down \cup {n}
          /\ UNCHANGED <<registered, sent, seen, pass, unwatched>>
      BY <1>1 DEF Die, monitor
    <2>2. n \notin Remembered /\ (pass.step # "idle" => n \notin pass.dead)
      BY <2>1 DEF Inv, DownSinceNoted
    <2>3. Typed'
      BY <2>1 DEF Inv, Typed
    <2>4. DownSinceNoted'
      BY <2>1 DEF Inv, DownSinceNoted, Remembered
    <2>5. PushedBeforeNoted' /\ Avoided'
      BY <2>1, <2>2 DEF Inv, PushedBeforeNoted, Avoided, Remembered
    <2> QED  BY <2>3, <2>4, <2>5 DEF Inv
  <1>2. CASE Return(n)
    <2>1. /\ down' = down \ {n} /\ unwatched' = unwatched \cup {n}
          /\ UNCHANGED <<registered, sent, seen, pass>>
      BY <1>2 DEF Return
    <2>2. Typed' /\ DownSinceNoted'
      BY <2>1 DEF Inv, Typed, DownSinceNoted, Remembered
    <2>3. PushedBeforeNoted' /\ Avoided'
      BY <2>1 DEF Inv, PushedBeforeNoted, Avoided, Remembered
    <2> QED  BY <2>2, <2>3 DEF Inv
  <1> QED  BY <1>1, <1>2

LEMMA ReadStep ==
    ASSUME Inv, MonitorRead
    PROVE  Inv'
  <1> DEFINE dead == down \cap Waypoints
             changed == (dead \ Remembered) \cup (Remembered \ dead)
  <1>1. UNCHANGED <<registered, down, sent, seen>>
    BY DEF MonitorRead, database
  <1>2. CASE dead = seen /\ unwatched' = {} /\ pass' = NoPass
    <2>1. Typed'
      BY <1>1, <1>2 DEF Inv, Typed, NoPass
    <2>2. Remembered' \subseteq down'
      BY <1>1, <1>2 DEF Remembered
    <2> QED
      BY <1>1, <1>2, <2>1, <2>2 DEF Inv, DownSinceNoted, PushedBeforeNoted, Avoided, Remembered, NoPass
  <1>3. CASE /\ pass' = [step |-> "push", dead |-> dead, covers |-> unwatched,
                         push |-> changed \cap Waypoints # {}]
             /\ UNCHANGED unwatched
    <2>1. /\ pass'.step = "push" /\ pass'.dead = dead /\ pass'.covers = unwatched
          /\ pass'.push = (changed \cap Waypoints # {})
      BY <1>3
    <2>2. Typed'
      BY <1>1, <1>3 DEF Inv, Typed
    <2>3. ~pass'.push => dead \subseteq Remembered
      BY <2>1
    <2>4. Remembered' = Remembered
      BY <1>1 DEF Remembered
    <2>5. DownSinceNoted'
      BY <1>1, <1>3, <2>1, <2>4 DEF Inv, DownSinceNoted
    <2> QED
      BY <1>1, <2>1, <2>2, <2>3, <2>4, <2>5 DEF Inv, PushedBeforeNoted, Avoided
  <1> QED  BY <1>2, <1>3 DEF MonitorRead

LEMMA ActStep ==
    ASSUME Inv, MonitorPush
    PROVE  Inv'
  <1>1. /\ pass.step = "push" /\ pass' = [pass EXCEPT !.step = "close"]
        /\ sent' = IF pass.push THEN BuildPayload ELSE sent
        /\ UNCHANGED <<registered, down, seen, unwatched>>
    BY DEF MonitorPush, database
  <1>2. /\ pass'.step = "close" /\ pass'.dead = pass.dead /\ pass'.push = pass.push
        /\ pass'.covers = pass.covers
    BY <1>1 DEF Inv, Typed
  <1>3. Typed'
    BY <1>1, <1>2 DEF Inv, Typed, BuildPayload
  <1>4. Remembered' = Remembered
    BY <1>1 DEF Remembered
  <1>5. DownSinceNoted'
    BY <1>1, <1>2, <1>4 DEF Inv, DownSinceNoted
  <1>6. CASE pass.push
    <2>1. \A p \in Ports : Through(sent'[p]) \cap down = {}
      BY <1>1, <1>6, FreshAvoids DEF BuildPayload, Inv, Typed
    <2> QED  BY <1>1, <1>2, <1>3, <1>5, <2>1 DEF Inv, PushedBeforeNoted, Avoided
  <1>7. CASE ~pass.push
    BY <1>1, <1>2, <1>3, <1>4, <1>5, <1>7 DEF Inv, PushedBeforeNoted, Avoided
  <1> QED  BY <1>6, <1>7

LEMMA EndStep ==
    ASSUME Inv, MonitorPushFails \/ MonitorClose \/ MonitorRestart
    PROVE  Inv'
  <1>1. UNCHANGED <<registered, down, sent>> /\ pass' = NoPass
    BY DEF MonitorPushFails, MonitorClose, MonitorRestart, database
  <1>2. Typed' /\ pass'.step = "idle"
    BY <1>1 DEF Inv, Typed, NoPass
  <1>3. PushedBeforeNoted'
    BY <1>2 DEF PushedBeforeNoted
  <1>4. CASE MonitorPushFails \/ MonitorRestart
    <2>1. unwatched' = unwatched /\ Remembered' \subseteq Remembered
      BY <1>4 DEF MonitorPushFails, MonitorRestart, Remembered
    <2> QED  BY <1>1, <1>2, <1>3, <2>1 DEF Inv, DownSinceNoted, Avoided
  <1>5. CASE MonitorClose
    <2>1. pass.step = "close" /\ unwatched' = unwatched \ pass.covers /\ Remembered' \subseteq pass.dead
      BY <1>5 DEF MonitorClose, Remembered
    <2>2. DownSinceNoted'
      BY <1>1, <1>2, <2>1 DEF Inv, DownSinceNoted
    <2>3. Avoided'
      BY <1>1, <2>1 DEF Inv, PushedBeforeNoted, Avoided
    <2> QED  BY <1>2, <1>3, <2>2, <2>3 DEF Inv
  <1> QED  BY <1>4, <1>5

-----------------------------------------------------------------------------
(* The theorems.                                                            *)

LEMMA Start ==
    ASSUME Init
    PROVE  Inv
  <1>1. Typed
    BY DEF Init, Typed, NoPass
  <1>2. down = {} /\ unwatched = {} /\ Remembered = {} /\ pass.step = "idle"
    BY DEF Init, NoPass, Remembered
  <1> QED  BY <1>1, <1>2 DEF Inv, DownSinceNoted, PushedBeforeNoted, Avoided

LEMMA Step ==
    ASSUME Inv, [Next]_vars
    PROVE  Inv'
  <1>1. CASE UNCHANGED vars
    <2>1. UNCHANGED <<registered, down, sent, monitor>>
      BY <1>1 DEF vars, database
    <2>2. Typed'
      BY <2>1 DEF Inv, Typed, monitor
    <2> QED  BY <2>1, <2>2, Between
  <1>2. CASE Next
    BY <1>2, RequestStep, PushStep, NodeStep, ReadStep, ActStep, EndStep, Zenon DEF Next
  <1> QED  BY <1>1, <1>2

\* The invariant, whoever asks for paths, moves VMs, registers nodes or dies.
THEOREM Invariance == Spec => []Inv
  <1>1. Init => Inv
    BY Start
  <1>2. Inv /\ [Next]_vars => Inv'
    BY Step
  <1> QED  BY <1>1, <1>2, PTL DEF Spec

\* No route the agents hold leads through a node that is down and that the
\* liveness monitor has noted (te_liveness.py _check).
THEOREM NoTrafficThroughNoted == Spec => []NotedDeadAvoided
  <1>1. Inv => NotedDeadAvoided
    <2> SUFFICES ASSUME Inv, NEW n \in SteeredThrough PROVE n \notin down \cap Remembered
      BY DEF NotedDeadAvoided
    <2>1. PICK p \in Ports : sent[p] # None /\ n \in UNION {NodesOf(l) : l \in ListsOf(sent[p])}
      BY DEF SteeredThrough
    <2>2. n \in Through(sent[p])
      BY <2>1 DEF Through
    <2> QED  BY <2>2 DEF Inv, Avoided
  <1> QED  BY <1>1, Invariance, PTL

-----------------------------------------------------------------------------
(* Precedence.                                                              *)

ViaOfNodes(table) == \A sel \in DOMAIN table : table[sel].via \in Seq(Nodes)

WellFormed ==
    /\ DOMAIN paths \subseteq Selectors /\ ViaOfNodes(paths)
    /\ registered \subseteq Hosts
    /\ plan # NoPlan => plan.sel \in Selectors /\ plan.via \in Seq(Nodes)

-----------------------------------------------------------------------------
(* One source: the best row is the path to the port, else to its host.      *)

First(dst, host, src) ==
    IF [dst |-> dst, src |-> src] \in DOMAIN paths THEN [dst |-> dst, src |-> src]
    ELSE IF [dst |-> host, src |-> src] \in DOMAIN paths THEN [dst |-> host, src |-> src]
    ELSE None

LEMMA BestRowIsFirst ==
    ASSUME WellFormed, NEW port \in Ports, NEW host \in Hosts, NEW src
    PROVE  BestRow(port, host, src) = First(port, host, src)
  <1> DEFINE toPort == [dst |-> port, src |-> src]
             toHost == [dst |-> host, src |-> src]
             rows == {s \in DOMAIN paths : s.src = src /\ s.dst \in {port, host}}
  <1>1. \A s \in DOMAIN paths : s = [dst |-> s.dst, src |-> s.src]
    BY DEF WellFormed, Selectors
  <1>2. rows = {toPort, toHost} \cap DOMAIN paths
    BY <1>1
  <1>3. toPort.dst = port /\ toHost.dst = host /\ port # host
    BY TePathsAssumption
  <1> HIDE DEF toPort, toHost
  <1>4. BestRow(port, host, src) = IF rows = {} THEN None
            ELSE CHOOSE s \in rows : (\E r \in rows : r.dst = port) => s.dst = port
    BY DEF BestRow
  <1> HIDE DEF rows
  <1>5. CASE toPort \in DOMAIN paths
    <2>1. toPort \in rows /\ toPort.dst = port
      BY <1>2, <1>3, <1>5
    <2>2. \A s \in rows : s.dst = port => s = toPort
      BY <1>2, <1>3
    <2>3. (CHOOSE s \in rows : (\E r \in rows : r.dst = port) => s.dst = port) = toPort
      BY <2>1, <2>2
    <2> QED  BY <1>4, <1>5, <2>1, <2>3 DEF First, toPort
  <1>6. CASE toPort \notin DOMAIN paths /\ toHost \in DOMAIN paths
    <2>1. rows = {toHost}
      BY <1>2, <1>6
    <2>2. BestRow(port, host, src) = toHost
      BY <1>3, <1>4, <2>1
    <2> QED  BY <1>6, <2>2 DEF First, toPort, toHost
  <1>7. CASE toPort \notin DOMAIN paths /\ toHost \notin DOMAIN paths
    BY <1>2, <1>4, <1>7 DEF First, toPort, toHost
  <1> QED  BY <1>5, <1>6, <1>7

-----------------------------------------------------------------------------
(* All of them: the winner is the first of the three sources' first rows.   *)

LEMMA WinnerIsFirst ==
    ASSUME WellFormed, NEW port \in Ports, NEW ingress, NEW vm \in Ports \cup {None}
    PROVE  Winner(port, ingress, vm) =
               LET byVm == First(port, bound[port], vm)
                   bySource == First(port, bound[port], ingress)
               IN  IF vm # None /\ byVm # None THEN byVm
                   ELSE IF bySource # None THEN bySource
                   ELSE First(port, bound[port], AnyHost)
  <1> DEFINE ranks == Ranks(port, ingress, vm)
             held == {i \in DOMAIN ranks : ranks[i] \in DOMAIN paths}
             least == CHOOSE i \in held : \A j \in held : i <= j
  <1>1. DOMAIN ranks = 1..6
    BY DEF Ranks
  <1>2. held \subseteq {1, 2, 3, 4, 5, 6}
    BY <1>1
  <1>3. Winner(port, ingress, vm) = IF held = {} THEN None ELSE ranks[least]
    BY DEF Winner
  <1>4. ASSUME NEW k \in held, \A j \in held : k <= j PROVE least = k
    <2>1. least \in held /\ \A j \in held : least <= j
      BY <1>4
    <2> QED  BY <1>2, <1>4, <2>1
  <1>5. /\ ranks[1] = [dst |-> port, src |-> vm] /\ ranks[2] = [dst |-> bound[port], src |-> vm]
        /\ ranks[3] = [dst |-> port, src |-> ingress]
        /\ ranks[4] = [dst |-> bound[port], src |-> ingress]
        /\ ranks[5] = [dst |-> port, src |-> AnyHost]
        /\ ranks[6] = [dst |-> bound[port], src |-> AnyHost]
    BY DEF Ranks
  <1>6. \A i \in 1..6 : i \in held <=> ranks[i] \in DOMAIN paths
    BY <1>1
  <1>7. \A i \in 1..6 : ranks[i] \in DOMAIN paths => ranks[i] # None
    BY TePathsAssumption DEF WellFormed
  <1>8. vm = None => 1 \notin held /\ 2 \notin held
    <2>1. \A s \in DOMAIN paths : s.src \in {AnyHost} \cup Hosts \cup Ports
      BY DEF WellFormed, Selectors
    <2>2. vm = None => ranks[1].src = None /\ ranks[2].src = None
      BY <1>5
    <2>3. None \notin {AnyHost} \cup Hosts \cup Ports
      BY TePathsAssumption DEF Nodes
    <2> QED  BY <1>6, <2>1, <2>2, <2>3
  <1> HIDE DEF ranks, held, least
  <1>9. CASE 1 \in held
    BY <1>2, <1>3, <1>4, <1>5, <1>6, <1>7, <1>8, <1>9 DEF First
  <1>10. CASE 1 \notin held /\ 2 \in held
    <2>1. least = 2
      BY <1>2, <1>4, <1>10
    <2> QED  BY <1>3, <1>5, <1>6, <1>7, <1>8, <1>10, <2>1 DEF First
  <1>11. CASE held \cap {1, 2} = {} /\ 3 \in held
    <2>1. least = 3
      BY <1>2, <1>4, <1>11
    <2> QED  BY <1>3, <1>5, <1>6, <1>7, <1>11, <2>1 DEF First
  <1>12. CASE held \cap {1, 2, 3} = {} /\ 4 \in held
    <2>1. least = 4
      BY <1>2, <1>4, <1>12
    <2> QED  BY <1>3, <1>5, <1>6, <1>7, <1>12, <2>1 DEF First
  <1>13. CASE held \cap {1, 2, 3, 4} = {} /\ 5 \in held
    <2>1. least = 5
      BY <1>2, <1>4, <1>13
    <2> QED  BY <1>3, <1>5, <1>6, <1>7, <1>13, <2>1 DEF First
  <1>14. CASE held \cap {1, 2, 3, 4, 5} = {} /\ 6 \in held
    <2>1. least = 6
      BY <1>2, <1>4, <1>14
    <2> QED  BY <1>3, <1>5, <1>6, <1>7, <1>14, <2>1 DEF First
  <1>15. CASE held = {}
    BY <1>3, <1>5, <1>6, <1>7, <1>15 DEF First
  <1> QED  BY <1>2, <1>9, <1>10, <1>11, <1>12, <1>13, <1>14, <1>15

-----------------------------------------------------------------------------
(* What a payload carries for a source is its best row's list.              *)

\* The transit list a row stands for.
Means(row) ==
    IF row = None \/ ~Usable(paths[row].via) THEN <<>> ELSE TransitSids(paths[row].via)

LEMMA TransitSidTyped ==
    ASSUME NEW n \in Nodes
    PROVE  TransitSid(Locator[n], Usid) \in Sid
  <1>1. Locator[n].block \in Nat /\ Locator[n].node \in Nat /\ NodeEnd \in Nat
    BY TePathsAssumption, SidAssumption
  <1>2. <<Locator[n].node>> \in Seq(Nat) /\ <<Locator[n].node, NodeEnd>> \in Seq(Nat)
    BY <1>1
  <1> QED  BY <1>1, <1>2 DEF TransitSid, NodeSid, SidFor, Sid

LEMMA MeansAList ==
    ASSUME WellFormed, NEW row, row \in DOMAIN paths
    PROVE  Means(row) \in Seq(Sid)
  <1> DEFINE via == paths[row].via
  <1>1. via \in Seq(Nodes)
    BY DEF WellFormed, ViaOfNodes
  <1> HIDE DEF via
  <1>2. DOMAIN via = 1..Len(via) /\ Len(via) \in Nat /\ \A i \in DOMAIN via : via[i] \in Nodes
    BY <1>1
  <1>3. TransitSids(via) \in [1..Len(via) -> Sid]
    BY <1>2, TransitSidTyped DEF TransitSids
  <1>4. TransitSids(via) \in Seq(Sid)
    BY <1>2, <1>3
  <1> QED  BY <1>4 DEF Means, via

LEMMA TransitOfFirst ==
    ASSUME WellFormed, NEW port \in Ports, NEW host \in Hosts, NEW src,
           NEW node \in registered \cup {AnyHost}
    PROVE  LET best == First(port, host, src)
               list == RouteTransit(port, host, src, node)
           IN  /\ list = IF best = None THEN None ELSE Means(best)
               /\ best # None => list # None /\ list \in Seq(Sid)
  <1> DEFINE best == First(port, host, src)
  <1>1. BestRow(port, host, src) = best
    BY BestRowIsFirst
  <1>2. best # None => best \in DOMAIN paths
    BY DEF First
  <1> HIDE DEF best
  <1>3. RouteTransit(port, host, src, node) = IF best = None THEN None ELSE Means(best)
    BY <1>1 DEF RouteTransit, Means
  <1>4. best # None => Means(best) \in Seq(Sid)
    BY <1>2, MeansAList
  <1>5. None \notin Seq(Sid)
    BY TePathsAssumption
  <1> QED  BY <1>3, <1>4, <1>5 DEF best

\* Wherever a flow enters and whichever VM sends it, the list its ingress takes
\* is that of the winner.
LEMMA FlowTakesWinner ==
    ASSUME WellFormed, NEW f \in Flows
    PROVE  TransitOf(RouteFor(f.port), f.ingress, f.vm) = Means(Winner(f.port, f.ingress, f.vm))
  <1> DEFINE port == f.port
             host == bound[port]
             vm == f.vm
             g == f.ingress
             route == RouteFor(port)
             any == RouteTransit(port, host, AnyHost, AnyHost)
  <1>1. /\ port \in Ports /\ g \in registered /\ vm \in Ports \cup {None}
        /\ route # None /\ g # host /\ (vm # None => bound[vm] = g)
    BY DEF Flows
  <1>2. host \in registered /\ host \in Hosts /\ g \in Hosts
    BY <1>1 DEF RouteFor, WellFormed
  <1>3. route = [host |-> host, segments |-> IF any = None THEN <<>> ELSE any,
                 bySource |-> [h \in Hosts |-> IF h = host THEN None
                                               ELSE RouteTransit(port, host, h, h)],
                 byVm |-> SegmentsBySourcePort(port, host)]
    BY <1>1, <1>2 DEF RouteFor
  <1>4. /\ route.segments = (IF any = None THEN <<>> ELSE any)
        /\ route.bySource[g] = RouteTransit(port, host, g, g)
        /\ route.byVm = SegmentsBySourcePort(port, host)
    BY <1>1, <1>2, <1>3
  <1> DEFINE byVm == First(port, host, vm)
             bySource == First(port, host, g)
             default == First(port, host, AnyHost)
  <1>5. Winner(port, g, vm) = IF vm # None /\ byVm # None THEN byVm
                              ELSE IF bySource # None THEN bySource ELSE default
    BY <1>1, WinnerIsFirst
  <1> HIDE DEF route, any, port, host, vm, g, byVm, bySource, default
  <1>6. SegmentsFor(route, g) = Means(IF bySource # None THEN bySource ELSE default)
    <2>1. RouteTransit(port, host, g, g) = IF bySource = None THEN None ELSE Means(bySource)
      BY <1>1, <1>2, TransitOfFirst DEF bySource
    <2>2. bySource # None => RouteTransit(port, host, g, g) # None
      BY <1>1, <1>2, TransitOfFirst DEF bySource
    <2>3. any = IF default = None THEN None ELSE Means(default)
      BY <1>1, <1>2, TransitOfFirst DEF any, default
    <2>4. default # None => any # None
      BY <1>1, <1>2, TransitOfFirst DEF any, default
    <2>5. route.segments = Means(default)
      BY <1>4, <2>3, <2>4 DEF Means
    <2> QED  BY <1>4, <2>1, <2>2, <2>5 DEF SegmentsFor
  <1>7. CASE vm # None /\ byVm # None
    <2> DEFINE list == RouteTransit(port, host, vm, g)
    <2>1. list = Means(byVm) /\ list # None /\ list \in Seq(Sid)
      BY <1>1, <1>2, <1>7, TransitOfFirst DEF byVm
    <2>2. SegmentsBySourcePort(port, host)[vm] = [at |-> g, segments |-> list]
      BY <1>1, <1>7, <2>1 DEF SegmentsBySourcePort
    <2>3. [at |-> g, segments |-> list] # None
      BY <1>2, <2>1, TePathsAssumption
    <2> HIDE DEF list
    <2>4. TransitOf(route, g, vm) = list
      BY <1>4, <1>7, <2>2, <2>3 DEF TransitOf
    <2> QED  BY <1>5, <1>7, <2>1, <2>4 DEF port, vm, g, route
  <1>8. CASE ~(vm # None /\ byVm # None)
    <2>1. vm # None => route.byVm[vm] = None
      <3> SUFFICES ASSUME vm # None PROVE route.byVm[vm] = None
        OBVIOUS
      <3>1. RouteTransit(port, host, vm, g) = None
        BY <1>1, <1>2, <1>8, TransitOfFirst DEF byVm
      <3> QED  BY <1>1, <1>4, <3>1 DEF SegmentsBySourcePort
    <2>2. TransitOf(route, g, vm) = SegmentsFor(route, g)
      BY <2>1 DEF TransitOf
    <2> QED  BY <1>5, <1>6, <1>8, <2>2 DEF port, vm, g, route
  <1> QED  BY <1>7, <1>8

LEMMA WellFormedKeeps ==
    ASSUME WellFormed
    PROVE  PrecedenceKept
  <1> SUFFICES ASSUME NEW f \in Flows
               PROVE  LET win == Winner(f.port, f.ingress, f.vm)
                          own == TransitSid(Locator[f.ingress], Usid)
                      IN  Pushed(RouteFor(f.port), f.ingress, f.vm) =
                              Encode(Append(DropLeading(Means(win), own), Decap(f)), Usid)
    BY DEF PrecedenceKept, Means
  <1>1. RouteFor(f.port).host = bound[f.port]
    <2>1. RouteFor(f.port) # None
      BY DEF Flows
    <2> QED  BY <2>1 DEF RouteFor
  <1> QED  BY <1>1, FlowTakesWinner DEF Pushed, Decap

\* The winner is a row towards the flow's port or its host, of the flow's source.
LEMMA WinnerIsOfFlow ==
    ASSUME WellFormed, NEW f \in Flows,
           Winner(f.port, f.ingress, f.vm) # None, Winner(f.port, f.ingress, f.vm).src # AnyHost
    PROVE  LET win == Winner(f.port, f.ingress, f.vm)
           IN  DestinationOf(win) = bound[f.port] /\ SourceOf(win) = f.ingress
  <1> DEFINE port == f.port
             host == bound[port]
             win == Winner(port, f.ingress, f.vm)
  <1>1. /\ port \in Ports /\ f.ingress \in registered /\ f.vm \in Ports \cup {None}
        /\ RouteFor(port) # None /\ (f.vm # None => bound[f.vm] = f.ingress)
    BY DEF Flows
  <1>2. host \in Hosts /\ host \notin Ports /\ f.ingress \in Hosts /\ f.ingress \notin Ports
    BY <1>1, TePathsAssumption DEF RouteFor, WellFormed
  <1>3. /\ win \in {[dst |-> d, src |-> s] : d \in {port, host}, s \in {f.vm, f.ingress, AnyHost}}
        /\ win.src = f.vm => f.vm # None
    <2>1. win = LET byVm == First(port, host, f.vm)
                    bySource == First(port, host, f.ingress)
                IN  IF f.vm # None /\ byVm # None THEN byVm
                    ELSE IF bySource # None THEN bySource
                    ELSE First(port, host, AnyHost)
      BY <1>1, WinnerIsFirst
    <2>2. win # None
      OBVIOUS
    <2>3. None \notin {f.ingress, AnyHost}
      BY <1>2, TePathsAssumption DEF Nodes
    <2>4. ASSUME NEW s PROVE First(port, host, s) \in {[dst |-> port, src |-> s],
                                                       [dst |-> host, src |-> s], None}
      BY DEF First
    <2> HIDE DEF win, host, port
    <2>5. CASE f.vm # None /\ First(port, host, f.vm) # None
      <3>1. win \in {[dst |-> port, src |-> f.vm], [dst |-> host, src |-> f.vm]}
        BY <2>1, <2>4, <2>5
      <3> QED  BY <2>5, <3>1
    <2>6. CASE ~(f.vm # None /\ First(port, host, f.vm) # None)
      <3>1. \/ win \in {[dst |-> port, src |-> f.ingress], [dst |-> host, src |-> f.ingress]}
            \/ win \in {[dst |-> port, src |-> AnyHost], [dst |-> host, src |-> AnyHost]}
        BY <2>1, <2>2, <2>4, <2>6
      <3>2. win.src \in {f.ingress, AnyHost}
        BY <3>1
      <3> QED  BY <2>3, <3>1, <3>2
    <2> QED  BY <2>5, <2>6
  <1>4. win.dst \in {port, host} /\ win.src \in {f.vm, f.ingress} /\ (win.src = f.vm => f.vm # None)
    BY <1>3
  <1> HIDE DEF win
  <1>5. DestinationOf(win) = host
    BY <1>1, <1>2, <1>4 DEF DestinationOf
  <1>6. SourceOf(win) = f.ingress
    BY <1>1, <1>2, <1>4 DEF SourceOf
  <1> QED  BY <1>5, <1>6 DEF win, host, port

\* So what is shown of it is what is pushed.
LEMMA WellFormedTells ==
    ASSUME WellFormed, PrecedenceKept
    PROVE  StatusTells
  <1> SUFFICES ASSUME NEW f \in Flows,
                      Winner(f.port, f.ingress, f.vm) # None,
                      Winner(f.port, f.ingress, f.vm).src # AnyHost
               PROVE  LET win == Winner(f.port, f.ingress, f.vm)
                      IN  Pushed(RouteFor(f.port), f.ingress, f.vm) =
                              IF Active(win) THEN EncodedSegments(win) ELSE Encode(Direct(f), Usid)
    BY DEF StatusTells
  <1> DEFINE win == Winner(f.port, f.ingress, f.vm)
             own == TransitSid(Locator[f.ingress], Usid)
             pushed == Pushed(RouteFor(f.port), f.ingress, f.vm)
  <1>1. pushed = Encode(Append(DropLeading(Means(win), own), Decap(f)), Usid)
    BY DEF PrecedenceKept, Means
  <1>2. DestinationOf(win) = bound[f.port] /\ SourceOf(win) = f.ingress
    BY WinnerIsOfFlow
  <1>3. win # None /\ win.src # AnyHost
    OBVIOUS
  <1>4. bound[f.port] \in registered /\ f.ingress \in registered /\ f.ingress # bound[f.port]
    BY DEF Flows, RouteFor
  <1> HIDE DEF win
  <1>5. Active(win) <=> Usable(paths[win].via)
    BY <1>2, <1>3, <1>4 DEF Active
  <1>6. CASE Active(win)
    <2>1. Means(win) = TransitSids(paths[win].via)
      BY <1>3, <1>5, <1>6 DEF Means
    <2>2. Shown(win) = Append(DropLeading(Means(win), own), Decap(f))
      BY <1>2, <1>3, <1>6, <2>1 DEF Shown, Decap
    <2> QED  BY <1>1, <1>6, <2>2 DEF EncodedSegments, win
  <1>7. CASE ~Active(win)
    <2>1. Means(win) = <<>>
      BY <1>5, <1>7 DEF Means
    <2>2. DropLeading(<<>>, own) = <<>>
      BY DEF DropLeading
    <2>3. Append(<<>>, Decap(f)) = Direct(f)
      BY DEF Direct
    <2> QED  BY <1>1, <1>7, <2>1, <2>2, <2>3 DEF win
  <1> QED  BY <1>6, <1>7

-----------------------------------------------------------------------------
(* The table stays well formed.                                             *)

LEMMA StoredWellFormed ==
    ASSUME WellFormed, NEW sel \in Selectors, NEW via \in Seq(Nodes), NEW origin
    PROVE  DOMAIN Stored(sel, via, origin) \subseteq Selectors /\ ViaOfNodes(Stored(sel, via, origin))
  BY DEF WellFormed, Stored, ViaOfNodes

LEMMA WithoutWellFormed ==
    ASSUME WellFormed, NEW sels
    PROVE  DOMAIN Without(sels) \subseteq Selectors /\ ViaOfNodes(Without(sels))
  BY DEF WellFormed, Without, Restrict, ViaOfNodes

LEMMA WellFormedStep ==
    ASSUME WellFormed, [Next]_vars
    PROVE  WellFormed'
  <1> USE TePathsAssumption
  <1>1. ASSUME NEW sel \in Asked, NEW via \in ViaLists, CreatePath(sel, via) PROVE WellFormed'
    <2>1. paths' = Stored(sel, via, "user") /\ UNCHANGED <<registered, plan>>
      BY <1>1 DEF CreatePath
    <2> QED  BY <2>1, StoredWellFormed DEF WellFormed, ViaOfNodes
  <1>2. ASSUME NEW sel \in DOMAIN paths, NEW via \in ViaLists, UpdatePath(sel, via) PROVE WellFormed'
    <2>1. paths' = Stored(sel, via, paths[sel].origin) /\ UNCHANGED <<registered, plan>>
      BY <1>2 DEF UpdatePath
    <2>2. sel \in Selectors
      BY DEF WellFormed
    <2> QED  BY <2>1, <2>2, StoredWellFormed DEF WellFormed, ViaOfNodes
  <1>3. ASSUME NEW sel \in DOMAIN paths, DeletePath(sel) PROVE WellFormed'
    <2>1. paths' = Without({sel}) /\ UNCHANGED <<registered, plan>>
      BY <1>3 DEF DeletePath
    <2> QED  BY <2>1, WithoutWellFormed DEF WellFormed, ViaOfNodes
  <1>4. ASSUME NEW p \in Ports, DeletePort(p) PROVE WellFormed'
    <2>1. paths' = Without({s \in DOMAIN paths : p \in {s.dst, s.src}}) /\ UNCHANGED <<registered, plan>>
      BY <1>4 DEF DeletePort
    <2> QED  BY <2>1, WithoutWellFormed DEF WellFormed, ViaOfNodes
  <1>5. ASSUME NEW p \in Ports, PortCallback(p) PROVE WellFormed'
    <2>1. paths' \in {paths, Without(AutoPathsOf(p))} /\ UNCHANGED <<registered, plan>>
      BY <1>5 DEF PortCallback
    <2> QED  BY <2>1, WithoutWellFormed DEF WellFormed, ViaOfNodes
  <1>6. CASE PlaceAutoPath
    <2>1. plan' = NoPlan /\ registered' = registered
      BY <1>6 DEF PlaceAutoPath
    <2>2. plan.sel \in Selectors /\ plan.via \in Seq(Nodes)
      BY <1>6 DEF PlaceAutoPath, WellFormed
    <2>3. paths' \in {paths, Stored(plan.sel, plan.via, "auto")}
      BY <1>6 DEF PlaceAutoPath
    <2> QED  BY <2>1, <2>2, <2>3, StoredWellFormed DEF WellFormed, ViaOfNodes
  <1>7. ASSUME NEW sel \in Asked, NEW via \in ViaLists, PlanAutoPath(sel, via) PROVE WellFormed'
    <2>1. plan' = [sel |-> sel, via |-> via, moves |-> sel \in DOMAIN paths]
          /\ UNCHANGED <<paths, registered>>
      BY <1>7 DEF PlanAutoPath, database
    <2> QED  BY <2>1 DEF WellFormed, ViaOfNodes
  <1>8. ASSUME NEW h \in Hosts, Register(h) PROVE WellFormed'
    BY <1>8 DEF Register, WellFormed, ViaOfNodes
  <1>9. CASE UNCHANGED <<paths, registered, plan>>
    BY <1>9 DEF WellFormed, ViaOfNodes
  <1>10. ASSUME \/ UNCHANGED vars
                \/ Push
                \/ \E p \in Ports, h \in Hosts : MovePort(p, h)
                \/ \E n \in Mortal : Die(n)
                \/ \E n \in Mortal : Return(n)
                \/ MonitorRead \/ MonitorPush \/ MonitorPushFails \/ MonitorClose \/ MonitorRestart
         PROVE  UNCHANGED <<paths, registered, plan>>
    BY <1>10, Zenon DEF vars, database, Push, MovePort, Die, Return, MonitorRead, MonitorPush,
                        MonitorPushFails, MonitorClose, MonitorRestart
  <1> QED
    BY <1>1, <1>2, <1>3, <1>4, <1>5, <1>6, <1>7, <1>8, <1>9, <1>10, Zenon DEF Next

\* The table of paths names selectors and nodes only, whoever wrote it.
THEOREM WellFormedThroughout == Spec => []WellFormed
  <1>1. Init => WellFormed
    BY TePathsAssumption DEF Init, WellFormed, ViaOfNodes, NoPlan
  <1>2. WellFormed /\ [Next]_vars => WellFormed'
    BY WellFormedStep
  <1> QED  BY <1>1, <1>2, PTL DEF Spec

\* Every ingress pushes the path of the highest documented rank; a degraded or
\* empty path of that rank means direct, never the next path down
\* (plugin.py _attach_segments, dataplane.py _segments_for).
THEOREM Precedence == Spec => []PrecedenceKept
  <1>1. WellFormed => PrecedenceKept
    BY WellFormedKeeps
  <1> QED  BY <1>1, WellFormedThroughout, PTL

\* What the API shows of a path is what its ingress pushes wherever the path
\* decides, and a path it calls DEGRADED steers nothing (plugin.py
\* _resolve_te_path against dataplane.py _encap).
THEOREM ShownIsPushed == Spec => []StatusTells
  <1>1. WellFormed => StatusTells
    BY WellFormedKeeps, WellFormedTells
  <1> QED  BY <1>1, WellFormedThroughout, PTL

-----------------------------------------------------------------------------
(* Induction over lists.                                                    *)

LEMMA SetInduction ==
    ASSUME NEW S, 0 \in S, \A n \in Nat : n \in S => n + 1 \in S
    PROVE  Nat \subseteq S
  <1> DEFINE T == {n \in Nat : n \notin S}
  <1> DEFINE Less == OpToRel(<, Nat)
  <1> SUFFICES ASSUME T # {} PROVE FALSE
    OBVIOUS
  <1>1. IsWellFoundedOn(Less, Nat)
    BY NatLessThanWellFounded
  <1>2. \A x, y \in Nat : y < x => <<y, x>> \in Less
    BY DEF OpToRel
  <1>3. PICK x \in T : \A y \in T : ~(<<y, x>> \in Less)
    <2> HIDE DEF Less
    <2>1. T \subseteq Nat
      OBVIOUS
    <2> HIDE DEF T
    <2> QED  BY <1>1, <2>1, WFMin
  <1> HIDE DEF Less
  <1>4. x \in Nat /\ x # 0
    OBVIOUS
  <1>5. x - 1 \in Nat /\ x - 1 < x
    BY <1>4
  <1>6. x - 1 \notin T
    BY <1>2, <1>3, <1>4, <1>5
  <1>7. x - 1 + 1 \in S
    BY <1>5, <1>6
  <1> QED  BY <1>4, <1>7

Recurrence(f, A, base, G, N) ==
    f \in [0..N -> A] /\ f[0] = base /\ \A i \in 1..N : f[i] = G[i][f[i - 1]]

\* A function that is defined step by step from 0 to N exists.
LEMMA Recursion ==
    ASSUME NEW A, NEW base \in A, NEW G \in [Nat -> [A -> A]], NEW N \in Nat
    PROVE  \E f : Recurrence(f, A, base, G, N)
  <1> DEFINE So(f, n) == f \in [0..n -> A] /\ f[0] = base /\ \A i \in 1..n : f[i] = G[i][f[i - 1]]
  <1> DEFINE S == {n \in Nat : \E f : So(f, n)}
  <1>1. 0 \in S
    <2>1. So([i \in 0..0 |-> base], 0)
      OBVIOUS
    <2> QED  BY <2>1
  <1>2. ASSUME NEW n \in Nat, NEW f, So(f, n) PROVE \E g : So(g, n + 1)
    <2>0. f \in [0..n -> A] /\ f[0] = base /\ \A i \in 1..n : f[i] = G[i][f[i - 1]]
      BY <1>2
    <2> HIDE <1>2
    <2> HIDE DEF So, S
    <2> DEFINE next == G[n + 1][f[n]]
    <2> DEFINE g == [i \in 0..(n + 1) |-> IF i = n + 1 THEN next ELSE f[i]]
    <2>1. next \in A
      <3>1. f[n] \in A /\ n + 1 \in Nat
        BY <2>0
      <3> QED  BY <3>1
    <2>2. g \in [0..(n + 1) -> A]
      <3>1. \A i \in 0..(n + 1) : i # n + 1 => i \in 0..n
        OBVIOUS
      <3> HIDE DEF next
      <3> QED  BY <2>0, <2>1, <3>1
    <2>3. g[0] = base
      <3>1. 0 \in 0..(n + 1) /\ 0 # n + 1
        OBVIOUS
      <3> HIDE DEF next
      <3> QED  BY <2>0, <3>1
    <2>4. ASSUME NEW i \in 1..(n + 1) PROVE g[i] = G[i][g[i - 1]]
      <3>1. i - 1 \in 0..(n + 1) /\ i - 1 # n + 1 /\ g[i - 1] = f[i - 1]
        OBVIOUS
      <3>2. CASE i = n + 1
        <4>1. i - 1 = n /\ g[i] = next
          BY <3>2
        <4> QED  BY <3>1, <3>2, <4>1
      <3>3. CASE i # n + 1
        <4>1. i \in 1..n /\ i \in 0..(n + 1) /\ g[i] = f[i]
          BY <3>3
        <4> QED  BY <2>0, <3>1, <4>1
      <3> QED  BY <3>2, <3>3
    <2> HIDE DEF g
    <2>5. So(g, n + 1)
      BY <2>2, <2>3, <2>4 DEF So
    <2> QED  BY <2>5
  <1>3. \A n \in Nat : n \in S => n + 1 \in S
    <2> HIDE DEF So
    <2> QED  BY <1>2
  <1>4. N \in S
    <2> HIDE DEF S
    <2> QED  BY <1>1, <1>3, SetInduction
  <1> QED  BY <1>4 DEF Recurrence

\* Sequences are joined from the first to the last.
LEMMA FlattenAppend ==
    ASSUME NEW ss \in Seq(Seq(Nat)), NEW s \in Seq(Nat)
    PROVE  /\ FlattenSeq(ss) \in Seq(Nat)
           /\ FlattenSeq(Append(ss, s)) = FlattenSeq(ss) \o s
  <1> DEFINE Turn(t, f, i) == IF i = 1 THEN t[i] ELSE f[i - 1] \o t[i]
  <1> DEFINE Recurs(t, f) == f = [i \in 1..Len(t) |-> IF i = 1 THEN t[i] ELSE f[i - 1] \o t[i]]
  <1> DEFINE All(t, f) == FlattenSeq(t) = f[Len(t)] /\ f \in [1..Len(t) -> Seq(Nat)]
                          /\ \A i \in 1..Len(t) : f[i] = Turn(t, f, i)
  <1>1. ASSUME NEW t \in Seq(Seq(Nat)), Len(t) # 0 PROVE \E f : All(t, f)
    <2> DEFINE N == Len(t)
    <2> DEFINE G == [i \in Nat |-> [a \in Seq(Nat) |-> IF i \notin 1..N THEN a ELSE IF i = 1 THEN t[1] ELSE a \o t[i]]]
    <2>1. N \in Nat /\ \A i \in 1..N : t[i] \in Seq(Nat)
      OBVIOUS
    <2>2. G \in [Nat -> [Seq(Nat) -> Seq(Nat)]]
      <3> SUFFICES ASSUME NEW a \in Seq(Nat), NEW i \in Nat
                   PROVE (IF i \notin 1..N THEN a ELSE IF i = 1 THEN t[1] ELSE a \o t[i]) \in Seq(Nat)
        BY Zenon
      <3>1. i \in 1..N => a \o t[i] \in Seq(Nat)
        BY <2>1
      <3>2. 1 \in 1..N
        BY <1>1
      <3> HIDE DEF N
      <3> QED  BY <2>1, <3>1, <3>2
    <2>3. \A a \in Seq(Nat), i \in 1..N : G[i][a] = IF i = 1 THEN t[1] ELSE a \o t[i]
      BY <2>1
    <2>4. <<>> \in Seq(Nat)
      OBVIOUS
    <2> HIDE DEF G, N
    <2>5. PICK f \in [0..N -> Seq(Nat)] : f[0] = <<>> /\ \A i \in 1..N : f[i] = G[i][f[i - 1]]
      <3>1. PICK A : A = Seq(Nat)
        OBVIOUS
      <3>2. PICK b : b = <<>>
        OBVIOUS
      <3>3. G \in [Nat -> [A -> A]] /\ b \in A
        BY <2>2, <2>4, <3>1, <3>2
      <3>4. PICK n \in Nat : n = N
        BY <2>1
      <3>5. PICK H : H = G
        OBVIOUS
      <3>6. H \in [Nat -> [A -> A]]
        BY <3>3, <3>5
      <3>7. \E f : Recurrence(f, A, b, H, n)
        BY <3>3, <3>4, <3>6, Recursion
      <3> QED  BY <3>1, <3>2, <3>4, <3>5, <3>7 DEF Recurrence
    <2> DEFINE g == [i \in 1..N |-> f[i]]
    <2>6. g \in [1..N -> Seq(Nat)]
      BY <2>1
    <2>7. ASSUME NEW i \in 1..N PROVE g[i] = IF i = 1 THEN t[i] ELSE g[i - 1] \o t[i]
      <3>1. i - 1 \in 0..N /\ f[i] = G[i][f[i - 1]] /\ g[i] = f[i]
        BY <2>1, <2>5
      <3>2. f[i] = IF i = 1 THEN t[1] ELSE f[i - 1] \o t[i]
        BY <2>3, <2>5, <3>1
      <3>3. i # 1 => i - 1 \in 1..N
        BY <2>1
      <3> QED  BY <3>1, <3>2, <3>3
    <2> HIDE DEF g
    <2>8. Recurs(t, g)
      BY <2>6, <2>7 DEF N
    <2> DEFINE h == CHOOSE h : Recurs(t, h)
    <2>9. Recurs(t, h)
      BY <2>8
    <2>10. FlattenSeq(t) = h[Len(t)]
      BY <1>1 DEF FlattenSeq
    <2> HIDE DEF h
    <2>11. \A i \in 1..N : h[i] = IF i = 1 THEN t[i] ELSE h[i - 1] \o t[i]
      BY <2>9 DEF N
    <2> DEFINE S == {n \in Nat : n \in 1..N => h[n] = g[n]}
    <2>12. 0 \in S
      OBVIOUS
    <2>13. ASSUME NEW n \in Nat, n \in S PROVE n + 1 \in S
      <3> SUFFICES ASSUME n + 1 \in 1..N PROVE h[n + 1] = g[n + 1]
        OBVIOUS
      <3>1. PICK m \in 1..N : m = n + 1
        OBVIOUS
      <3>2. m # 1 => n \in 1..N /\ m - 1 = n
        BY <2>1, <3>1
      <3>3. m # 1 => h[n] = g[n]
        BY <2>13, <3>2
      <3> HIDE DEF S
      <3>4. h[m] = g[m]
        BY <2>7, <2>11, <3>2, <3>3
      <3> QED  BY <3>1, <3>4
    <2>14. Nat \subseteq S
      <3> HIDE DEF S
      <3> QED  BY <2>12, <2>13, SetInduction
    <2>15. \A n \in 1..N : h[n] = g[n]
      BY <2>1, <2>14
    <2>16. h = [i \in 1..N |-> h[i]]
      BY <2>9 DEF N
    <2>17. h \in [1..N -> Seq(Nat)]
      BY <2>6, <2>15, <2>16
    <2> QED  BY <2>10, <2>11, <2>17 DEF N
  <1> HIDE DEF All
  <1>2. CASE Len(ss) = 0
    <2>0. PICK t : t = <<s>>
      OBVIOUS
    <2>1. ss = <<>> /\ FlattenSeq(ss) = <<>> /\ Append(ss, s) = t
      BY <1>2, <2>0 DEF FlattenSeq
    <2>2. t \in Seq(Seq(Nat)) /\ Len(t) = 1 /\ t[1] = s
      BY <2>0
    <2>3. PICK f : All(t, f)
      <3>1. Len(t) # 0
        BY <2>2
      <3> QED  BY <1>1, <2>2, <3>1
    <2>4. FlattenSeq(t) = f[1] /\ f[1] = s
      BY <2>2, <2>3 DEF All
    <2>5. <<>> \o s = s /\ <<>> \in Seq(Nat)
      OBVIOUS
    <2> QED  BY <2>1, <2>4, <2>5
  <1>3. CASE Len(ss) # 0
    <2> DEFINE N == Len(ss)
    <2>0. PICK t : t = Append(ss, s)
      OBVIOUS
    <2>1. /\ t \in Seq(Seq(Nat)) /\ Len(t) = N + 1 /\ N \in Nat /\ N # 0
          /\ t[N + 1] = s /\ \A i \in 1..N : t[i] = ss[i]
      BY <1>3, <2>0
    <2>2. PICK f : All(ss, f)
      BY <1>1, <1>3
    <2>3. PICK g : All(t, g)
      <3>1. Len(t) # 0
        BY <2>1
      <3> QED  BY <1>1, <2>1, <3>1
    <2> DEFINE S == {n \in Nat : n \in 1..N => f[n] = g[n]}
    <2>4. 0 \in S
      OBVIOUS
    <2>5. ASSUME NEW n \in Nat, n \in S PROVE n + 1 \in S
      <3> SUFFICES ASSUME n + 1 \in 1..N PROVE f[n + 1] = g[n + 1]
        OBVIOUS
      <3>1. PICK m \in 1..N : m = n + 1
        OBVIOUS
      <3>2. m # 1 => n \in 1..N /\ m - 1 = n
        BY <2>1, <3>1
      <3>3. m # 1 => f[n] = g[n]
        BY <2>5, <3>2
      <3>4. t[m] = ss[m] /\ m \in 1..Len(t)
        BY <2>1
      <3>5. f[m] = Turn(ss, f, m) /\ g[m] = Turn(t, g, m)
        BY <2>2, <2>3, <3>4 DEF All
      <3> HIDE DEF S
      <3>6. f[m] = g[m]
        BY <3>2, <3>3, <3>4, <3>5
      <3> QED  BY <3>1, <3>6
    <2>6. Nat \subseteq S
      <3> HIDE DEF S
      <3> QED  BY <2>4, <2>5, SetInduction
    <2>7. f[N] = g[N]
      <3>1. N \in S /\ N \in 1..N
        BY <2>1, <2>6
      <3> QED  BY <3>1
    <2>8. g[N + 1] = g[N] \o t[N + 1]
      <3>1. PICK m \in 1..Len(t) : m = N + 1
        BY <2>1
      <3>2. m # 1 /\ m - 1 = N
        BY <2>1, <3>1
      <3>3. g[m] = Turn(t, g, m)
        BY <2>3 DEF All
      <3> QED  BY <3>1, <3>2, <3>3
    <2>9. FlattenSeq(ss) = f[N] /\ FlattenSeq(t) = g[N + 1] /\ f[N] \in Seq(Nat)
      <3>1. N \in 1..N
        BY <2>1
      <3> QED  BY <2>1, <2>2, <2>3, <3>1 DEF All
    <2> HIDE DEF N
    <2> QED  BY <2>0, <2>1, <2>7, <2>8, <2>9
  <1> QED  BY <1>2, <1>3

-----------------------------------------------------------------------------
(* Containers.                                                              *)

\* What every container must be: routable by its first C-SID, and not too long.
Carried(csids) ==
    /\ csids \in Seq(Nat) /\ csids # <<>>
    /\ csids[1] <= GibMax /\ Len(csids) <= PerContainer

Filling == [full : Seq(Seq(Nat)), last : Seq(Nat)]
Unfilled == [full |-> <<>>, last |-> <<>>]

\* The last container ends as the last SID does.
EndsAs(last, csids) == Len(last) >= Len(csids) /\ last[Len(last)] = csids[Len(csids)]

Filled(acc, csids, sofar) ==
    /\ acc \in Filling
    /\ Carried(acc.last) /\ EndsAs(acc.last, csids)
    /\ \A j \in 1..Len(acc.full) : Carried(acc.full[j])
    /\ FlattenSeq(acc.full) \o acc.last = FlattenSeq(sofar)

LEMMA ConcatThree ==
    ASSUME NEW s \in Seq(Nat), NEW t \in Seq(Nat), NEW u \in Seq(Nat)
    PROVE  (s \o t) \o u = s \o (t \o u)
  BY ConcatAssociative

\* A set of numbers has a least one.
LEMMA LeastOf ==
    ASSUME NEW T, T \subseteq Nat, T # {}
    PROVE  \E m \in T : \A j \in T : m <= j
  <1> DEFINE Less == OpToRel(<, Nat)
  <1>1. \A x, y \in Nat : y < x => <<y, x>> \in Less
    BY DEF OpToRel
  <1>2. PICK m \in T : \A y \in T : ~(<<y, m>> \in Less)
    <2>1. IsWellFoundedOn(Less, Nat)
      BY NatLessThanWellFounded
    <2> HIDE DEF Less
    <2> QED  BY <2>1, WFMin
  <1> HIDE DEF Less
  <1>3. ASSUME NEW j \in T PROVE m <= j
    <2>1. m \in Nat /\ j \in Nat
      OBVIOUS
    <2>2. ~(j < m)
      BY <1>1, <1>2, <2>1
    <2> QED  BY <2>1, <2>2
  <1> QED  BY <1>3

LEMMA FillIs ==
    ASSUME NEW acc \in Filling, NEW sid, sid.csids \in Seq(Nat)
    PROVE  /\ Fill(acc, sid) \in Filling
           /\ \/ /\ Len(acc.last) + Len(sid.csids) > PerContainer
                 /\ Fill(acc, sid).full = Append(acc.full, acc.last)
                 /\ Fill(acc, sid).last = sid.csids
              \/ /\ Len(acc.last) + Len(sid.csids) <= PerContainer
                 /\ Fill(acc, sid).full = acc.full
                 /\ Fill(acc, sid).last = acc.last \o sid.csids
  <1> DEFINE csids == sid.csids
  <1>1. /\ acc.full \in Seq(Seq(Nat)) /\ acc.last \in Seq(Nat)
        /\ acc = [full |-> acc.full, last |-> acc.last]
    BY DEF Filling
  <1>2. Append(acc.full, acc.last) \in Seq(Seq(Nat)) /\ acc.last \o csids \in Seq(Nat)
    BY <1>1
  <1>3. Len(acc.last) \in Nat /\ Len(csids) \in Nat /\ PerContainer \in Nat
    BY <1>1, SidAssumption
  <1> HIDE DEF csids
  <1>4. CASE Len(acc.last) + Len(csids) > PerContainer
    <2>1. Fill(acc, sid) = [full |-> Append(acc.full, acc.last), last |-> csids]
      BY <1>4 DEF Fill, csids
    <2> QED  BY <1>1, <1>2, <1>4, <2>1 DEF Filling, csids
  <1>5. CASE ~(Len(acc.last) + Len(csids) > PerContainer)
    <2>1. Fill(acc, sid) = [acc EXCEPT !.last = acc.last \o csids]
      BY <1>5 DEF Fill, csids
    <2>2. Fill(acc, sid) = [full |-> acc.full, last |-> acc.last \o csids]
      BY <1>1, <2>1
    <2>3. Len(acc.last) + Len(csids) <= PerContainer
      BY <1>3, <1>5
    <2> QED  BY <1>1, <1>2, <2>2, <2>3 DEF Filling, csids
  <1> QED  BY <1>4, <1>5

\* The first SID fits in an empty container.
LEMMA FirstFills ==
    ASSUME NEW sid, Carried(sid.csids)
    PROVE  Filled(Fill(Unfilled, sid), sid.csids, <<sid.csids>>)
  <1>1. Unfilled \in Filling /\ Unfilled.full = <<>> /\ Unfilled.last = <<>> /\ Len(<<>>) = 0
    BY DEF Unfilled, Filling
  <1> DEFINE acc == Fill(Unfilled, sid)
  <1> PICK csids : csids = sid.csids
    OBVIOUS
  <1>2. csids \in Seq(Nat) /\ Len(csids) \in Nat /\ Len(csids) <= PerContainer /\ Len(csids) # 0
    BY DEF Carried
  <1>3. acc \in Filling /\ acc.full = <<>> /\ acc.last = <<>> \o csids
    <2>1. ~(Len(Unfilled.last) + Len(sid.csids) > PerContainer)
      BY <1>1, <1>2, SidAssumption
    <2> QED  BY <1>1, <1>2, <2>1, FillIs
  <1>4. <<>> \o csids = csids
    BY <1>2
  <1>5. EndsAs(csids, csids) /\ Carried(csids)
    BY <1>2 DEF EndsAs
  <1>6. FlattenSeq(<<csids>>) = <<>> \o csids
    <2>1. <<>> \in Seq(Seq(Nat)) /\ Append(<<>>, csids) = <<csids>>
      OBVIOUS
    <2>2. FlattenSeq(<<>>) = <<>>
      BY DEF FlattenSeq
    <2>3. FlattenSeq(Append(<<>>, csids)) = FlattenSeq(<<>>) \o csids
      BY <1>2, <2>1, FlattenAppend
    <2> QED  BY <2>1, <2>2, <2>3
  <1>7. FlattenSeq(acc.full) \o acc.last = FlattenSeq(<<csids>>)
    <2>1. FlattenSeq(acc.full) = <<>>
      BY <1>3 DEF FlattenSeq
    <2>2. acc.last = csids
      BY <1>3, <1>4
    <2> QED  BY <1>6, <2>1, <2>2
  <1> HIDE DEF acc
  <1>8. acc.last = csids /\ 1..Len(acc.full) = {}
    BY <1>3, <1>4
  <1>9. Filled(acc, csids, <<csids>>)
    BY <1>3, <1>5, <1>7, <1>8 DEF Filled
  <1> QED  BY <1>9 DEF acc

\* Every other one follows in the same container, or begins the next.
LEMMA NextFills ==
    ASSUME NEW acc, NEW before, NEW sofar \in Seq(Seq(Nat)), Filled(acc, before, sofar),
           NEW sid, Carried(sid.csids)
    PROVE  Filled(Fill(acc, sid), sid.csids, Append(sofar, sid.csids))
  <1> PICK csids : csids = sid.csids
    OBVIOUS
  <1>1. csids \in Seq(Nat) /\ Len(csids) \in Nat /\ Len(csids) # 0 /\ Carried(csids)
    BY DEF Carried
  <1>2. /\ acc \in Filling /\ acc.full \in Seq(Seq(Nat)) /\ acc.last \in Seq(Nat)
        /\ Len(acc.last) \in Nat /\ Len(acc.last) # 0 /\ Carried(acc.last)
        /\ \A j \in 1..Len(acc.full) : Carried(acc.full[j])
        /\ FlattenSeq(acc.full) \o acc.last = FlattenSeq(sofar)
    BY DEF Filled, Filling, Carried
  <1>3. PICK new : new = Fill(acc, sid)
    OBVIOUS
  <1>4. /\ new \in Filling
        /\ \/ /\ new.full = Append(acc.full, acc.last) /\ new.last = csids
           \/ /\ Len(acc.last) + Len(csids) <= PerContainer
              /\ new.full = acc.full /\ new.last = acc.last \o csids
    BY <1>1, <1>2, <1>3, FillIs
  <1>5. FlattenSeq(Append(sofar, csids)) = FlattenSeq(sofar) \o csids
    BY <1>1, FlattenAppend
  <1>6. /\ FlattenSeq(acc.full) \in Seq(Nat)
        /\ FlattenSeq(Append(acc.full, acc.last)) = FlattenSeq(acc.full) \o acc.last
    BY <1>2, FlattenAppend
  <1>7. CASE new.full = Append(acc.full, acc.last) /\ new.last = csids
    <2>1. FlattenSeq(new.full) \o new.last = FlattenSeq(Append(sofar, csids))
      BY <1>2, <1>5, <1>6, <1>7
    <2>2. EndsAs(new.last, csids)
      BY <1>1, <1>7 DEF EndsAs
    <2>3. \A j \in 1..Len(new.full) : Carried(new.full[j])
      <3>1. /\ Len(new.full) = Len(acc.full) + 1 /\ Len(acc.full) \in Nat
            /\ \A j \in 1..Len(acc.full) : new.full[j] = acc.full[j]
            /\ new.full[Len(acc.full) + 1] = acc.last
        BY <1>2, <1>7
      <3> SUFFICES ASSUME NEW j \in 1..Len(new.full) PROVE Carried(new.full[j])
        OBVIOUS
      <3>2. j \in 1..Len(acc.full) \/ j = Len(acc.full) + 1
        BY <3>1
      <3> QED  BY <1>2, <3>1, <3>2
    <2> QED  BY <1>1, <1>3, <1>4, <1>7, <2>1, <2>2, <2>3 DEF Filled
  <1>8. CASE /\ Len(acc.last) + Len(csids) <= PerContainer
             /\ new.full = acc.full /\ new.last = acc.last \o csids
    <2>1. /\ new.last \in Seq(Nat) /\ Len(new.last) = Len(acc.last) + Len(csids)
          /\ new.last[1] = acc.last[1]
          /\ new.last[Len(new.last)] = csids[Len(csids)]
      <3>1. PICK last : last = acc.last
        OBVIOUS
      <3>2. /\ last \o csids \in Seq(Nat) /\ Len(last \o csids) = Len(last) + Len(csids)
            /\ \A i \in 1..(Len(last) + Len(csids)) :
                   (last \o csids)[i] = IF i <= Len(last) THEN last[i] ELSE csids[i - Len(last)]
        <4>1. last \in Seq(Nat)
          BY <1>2, <3>1
        <4> QED  BY <1>1, <4>1, ConcatProperties
      <3>3. PICK m \in Nat : m = Len(last)
        BY <1>2, <3>1
      <3>4. PICK n \in Nat : n = Len(csids)
        BY <1>1
      <3>5. m # 0 /\ n # 0
        BY <1>1, <1>2, <3>1, <3>3, <3>4
      <3>6. PICK k : k = m + n
        OBVIOUS
      <3>7. k \in 1..(m + n) /\ ~(k <= m) /\ k - m = n /\ 1 \in 1..(m + n) /\ 1 <= m
        BY <3>3, <3>4, <3>5, <3>6
      <3>8. \A i \in 1..(m + n) : new.last[i] = IF i <= m THEN last[i] ELSE csids[i - m]
        BY <1>8, <3>1, <3>2, <3>3, <3>4
      <3>9. new.last[1] = last[1] /\ new.last[k] = csids[n]
        BY <3>7, <3>8
      <3> QED  BY <1>8, <3>1, <3>2, <3>3, <3>4, <3>6, <3>9
    <2>1a. Len(new.last) >= Len(csids) /\ Len(new.last) # 0
      <3>1. PICK m \in Nat : m = Len(acc.last)
        BY <1>2
      <3>2. PICK n \in Nat : n = Len(csids)
        BY <1>1
      <3>3. Len(new.last) = m + n
        BY <2>1, <3>1, <3>2
      <3>4. m + n >= n /\ (n # 0 => m + n # 0)
        OBVIOUS
      <3> QED  BY <1>1, <3>2, <3>3, <3>4
    <2>2. Carried(new.last)
      <3>1. Len(new.last) <= PerContainer
        BY <1>8, <2>1
      <3>2. Len(new.last) # 0
        BY <1>1, <1>2, <2>1a
      <3>3. new.last # <<>>
        BY <3>2
      <3> QED  BY <1>2, <2>1, <3>1, <3>3 DEF Carried
    <2>3. EndsAs(new.last, csids)
      <3>1. Len(new.last) >= Len(csids)
        BY <2>1a
      <3> QED  BY <2>1, <3>1 DEF EndsAs
    <2>4. FlattenSeq(new.full) \o new.last = FlattenSeq(Append(sofar, csids))
      <3>1. PICK f : f = FlattenSeq(acc.full)
        OBVIOUS
      <3>2. PICK l : l = acc.last
        OBVIOUS
      <3>3. (f \o l) \o csids = f \o (l \o csids)
        <4>1. f \in Seq(Nat) /\ l \in Seq(Nat)
          BY <1>2, <1>6, <3>1, <3>2
        <4> QED  BY <1>1, <4>1, ConcatThree
      <3> QED  BY <1>2, <1>5, <1>8, <3>1, <3>2, <3>3
    <2> QED  BY <1>2, <1>3, <1>4, <1>8, <2>2, <2>3, <2>4 DEF Filled
  <1> QED  BY <1>4, <1>7, <1>8

-----------------------------------------------------------------------------
(* A whole list.                                                            *)

\* What ContainersReach says of a list that stands for these SIDs.
Reaches(list, sids) ==
    /\ Consumed(list) = Consumed(sids)
    /\ \A i \in DOMAIN list : list[i].csids[1] <= GibMax
    /\ \A i \in DOMAIN list : Len(list[i].csids) <= PerContainer
    /\ LET last == list[Len(list)].csids IN Len(last) >= 2 /\ last[Len(last)] = Fid

\* SIDs a node can be reached by, the last one a decap SID of the domain.
Leads(sids) ==
    /\ sids \in Seq(Sid) /\ sids # <<>>
    /\ \A i \in 1..Len(sids) : Carried(sids[i].csids)
    /\ LET last == sids[Len(sids)].csids IN Len(last) >= 2 /\ last[Len(last)] = Fid

LEMMA LeadsReaches == ASSUME NEW sids, Leads(sids) PROVE Reaches(sids, sids)
  <1>1. DOMAIN sids = 1..Len(sids)
    BY DEF Leads
  <1> QED  BY <1>1 DEF Leads, Reaches, Carried

\* By induction on the SIDs: pack_next_csid loses none, adds none and splits none.
LEMMA PackedReaches ==
    ASSUME NEW sids, Leads(sids), PackNextCsid(sids) # Unpackable
    PROVE  Reaches(PackNextCsid(sids), sids)
  <1> PICK N \in Nat : N = Len(sids) /\ N # 0
    BY DEF Leads
  <1>1. \A i \in 1..N : Carried(sids[i].csids) /\ sids[i].csids \in Seq(Nat)
    BY DEF Leads, Carried
  <1> DEFINE Recurs(h) == h = [i \in 0..Len(sids) |->
                                  IF i = 0 THEN [full |-> <<>>, last |-> <<>>]
                                  ELSE Fill(h[i - 1], sids[i])]
  <1> DEFINE fill == CHOOSE h : Recurs(h)
  <1> DEFINE lists == Append(fill[N].full, fill[N].last)
  <1>2. PackNextCsid(sids) = [i \in DOMAIN lists |-> [block |-> sids[1].block, csids |-> lists[i]]]
    BY DEF PackNextCsid
  <1>3. \E h : Recurs(h)
    <2> DEFINE G == [i \in Nat |-> [a \in Filling |-> IF i \in 1..N THEN Fill(a, sids[i]) ELSE a]]
    <2>1. G \in [Nat -> [Filling -> Filling]]
      <3> SUFFICES ASSUME NEW i \in Nat, NEW a \in Filling
                   PROVE (IF i \in 1..N THEN Fill(a, sids[i]) ELSE a) \in Filling
        BY Zenon
      <3> QED  BY <1>1, FillIs
    <2>2. \A i \in 1..N, a \in Filling : G[i][a] = Fill(a, sids[i])
      OBVIOUS
    <2>3. Unfilled \in Filling
      BY DEF Unfilled, Filling
    <2>4. PICK H : H = G
      OBVIOUS
    <2>5. H \in [Nat -> [Filling -> Filling]]
      BY <2>1, <2>4
    <2>6. PICK f : Recurrence(f, Filling, Unfilled, H, N)
      BY <2>3, <2>5, Recursion
    <2> HIDE DEF G
    <2>7. /\ f \in [0..N -> Filling] /\ f[0] = Unfilled
          /\ \A i \in 1..N : f[i] = Fill(f[i - 1], sids[i])
      <3>1. \A i \in 1..N : f[i - 1] \in Filling
        <4>1. \A i \in 1..N : i - 1 \in 0..N
          OBVIOUS
        <4> QED  BY <2>6, <4>1 DEF Recurrence
      <3> QED  BY <2>2, <2>4, <2>6, <3>1 DEF Recurrence
    <2>8. \A i \in 0..N : f[i] = IF i = 0 THEN [full |-> <<>>, last |-> <<>>]
                                 ELSE Fill(f[i - 1], sids[i])
      BY <2>7 DEF Unfilled
    <2>9. Recurs(f)
      BY <2>7, <2>8
    <2> QED  BY <2>9
  <1>4. Recurs(fill)
    BY <1>3
  <1> HIDE DEF fill
  <1>5. fill[0] = Unfilled /\ \A i \in 1..N : fill[i] = Fill(fill[i - 1], sids[i])
    <2>1. \A i \in 0..N : fill[i] = IF i = 0 THEN [full |-> <<>>, last |-> <<>>]
                                    ELSE Fill(fill[i - 1], sids[i])
      BY <1>4
    <2> QED  BY <2>1 DEF Unfilled
  <1> DEFINE sofar(n) == [j \in 1..n |-> sids[j].csids]
  <1> DEFINE So(n) == n + 1 <= N => Filled(fill[n + 1], sids[n + 1].csids, sofar(n + 1))
  <1> DEFINE S == {n \in Nat : So(n)}
  <1>6. So(0)
    <2>1. sofar(1) = <<sids[1].csids>>
      OBVIOUS
    <2>2. PICK m : m = 1
      OBVIOUS
    <2>3. m \in 1..N /\ m - 1 = 0
      BY <2>2
    <2>4. fill[m] = Fill(Unfilled, sids[m]) /\ Carried(sids[m].csids)
      BY <1>1, <1>5, <2>3
    <2>5. Filled(fill[m], sids[m].csids, <<sids[m].csids>>)
      BY <2>4, FirstFills
    <2>6. 0 + 1 = m
      BY <2>2
    <2> HIDE DEF sofar
    <2> QED  BY <2>1, <2>2, <2>5, <2>6
  <1>7. ASSUME NEW n \in Nat, So(n) PROVE So(n + 1)
    <2> SUFFICES ASSUME n + 1 + 1 <= N PROVE Filled(fill[n + 1 + 1], sids[n + 1 + 1].csids, sofar(n + 1 + 1))
      OBVIOUS
    <2>1. PICK m \in 1..N : m = n + 1
      OBVIOUS
    <2>2. PICK k \in 1..N : k = m + 1 /\ k - 1 = m /\ k = n + 1 + 1
      BY <2>1
    <2>3. Filled(fill[m], sids[m].csids, sofar(m))
      BY <1>7, <2>1
    <2>4. sofar(m) \in Seq(Seq(Nat)) /\ sofar(k) = Append(sofar(m), sids[k].csids)
      <3>1. \A j \in 1..k : j \in 1..N
        OBVIOUS
      <3>2. sofar(m) \in Seq(Seq(Nat)) /\ sofar(k) \in Seq(Seq(Nat)) /\ Len(sofar(m)) = m /\ Len(sofar(k)) = k
        BY <1>1, <2>2, <3>1
      <3>3. PICK q : q = Append(sofar(m), sids[k].csids)
        OBVIOUS
      <3>4. q \in Seq(Seq(Nat)) /\ Len(q) = m + 1 /\ q[m + 1] = sids[k].csids /\ \A j \in 1..m : q[j] = sofar(m)[j]
        <4>1. PICK c : c = sids[k].csids
          OBVIOUS
        <4>2. PICK l : l = sofar(m)
          OBVIOUS
        <4>3. c \in Seq(Nat) /\ l \in Seq(Seq(Nat)) /\ Len(l) = m /\ q = Append(l, c)
          BY <1>1, <3>2, <3>3, <4>1, <4>2
        <4> HIDE DEF sofar
        <4> QED  BY <4>1, <4>2, <4>3, AppendProperties
      <3>5. ASSUME NEW j \in 1..k PROVE q[j] = sofar(k)[j]
        <4>1. CASE j \in 1..m
          BY <3>4, <4>1
        <4>2. CASE j \notin 1..m
          <5>1. j = m + 1 /\ j = k
            BY <2>2, <4>2
          <5> QED  BY <3>4, <5>1
        <4> QED  BY <4>1, <4>2
      <3> HIDE DEF sofar
      <3>6. PICK r : r = sofar(k)
        OBVIOUS
      <3>7. r \in Seq(Seq(Nat)) /\ Len(r) = Len(q) /\ \A j \in 1..Len(r) : r[j] = q[j]
        BY <2>2, <3>2, <3>4, <3>5, <3>6
      <3>8. r = q
        BY <3>4, <3>7, SeqEqual
      <3> QED  BY <3>2, <3>3, <3>6, <3>8
    <2> HIDE DEF sofar
    <2>5. fill[k] = Fill(fill[m], sids[k]) /\ Carried(sids[k].csids)
      BY <1>1, <1>5, <2>2
    <2>6. Filled(fill[k], sids[k].csids, sofar(k))
      BY <2>3, <2>4, <2>5, NextFills
    <2> QED  BY <2>2, <2>6
  <1>8. Filled(fill[N], sids[N].csids, sofar(N))
    <2>1. PICK n \in Nat : n + 1 = N
      <3>1. N - 1 \in Nat /\ N - 1 + 1 = N
        OBVIOUS
      <3> QED  BY <3>1
    <2>2. 0 \in S /\ \A i \in Nat : i \in S => i + 1 \in S
      <3> HIDE DEF So
      <3> QED  BY <1>6, <1>7
    <2>3. n \in S
      <3> HIDE DEF S
      <3> QED  BY <2>2, SetInduction
    <2>4. So(n)
      <3> HIDE DEF So
      <3> QED  BY <2>3
    <2> HIDE DEF sofar
    <2> QED  BY <2>1, <2>4
  <1>9. PICK acc : acc = fill[N]
    OBVIOUS
  <1>10. Consumed(sids) = FlattenSeq(sofar(N))
    <2>1. DOMAIN sids = 1..N
      BY DEF Leads
    <2> QED  BY <2>1 DEF Consumed
  <1>11. PICK list : list = PackNextCsid(sids)
    OBVIOUS
  <1>12. PICK ls : ls = Append(acc.full, acc.last)
    OBVIOUS
  <1>13. /\ acc.full \in Seq(Seq(Nat)) /\ acc.last \in Seq(Nat)
         /\ Carried(acc.last) /\ EndsAs(acc.last, sids[N].csids)
         /\ \A j \in 1..Len(acc.full) : Carried(acc.full[j])
         /\ FlattenSeq(acc.full) \o acc.last = FlattenSeq(sofar(N))
    <2> HIDE DEF sofar
    <2> QED  BY <1>8, <1>9 DEF Filled, Filling
  <1>14. list = [i \in DOMAIN ls |-> [block |-> sids[1].block, csids |-> ls[i]]]
    BY <1>2, <1>9, <1>11, <1>12
  <1> HIDE DEF lists
  <1>15. PICK M \in Nat : M = Len(acc.full)
    BY <1>13
  <1>16. /\ ls \in Seq(Seq(Nat)) /\ Len(ls) = M + 1 /\ DOMAIN ls = 1..(M + 1)
         /\ ls[M + 1] = acc.last /\ \A j \in 1..M : ls[j] = acc.full[j]
    BY <1>12, <1>13, <1>15
  <1>17. \A i \in 1..(M + 1) : Carried(ls[i])
    <2> SUFFICES ASSUME NEW i \in 1..(M + 1) PROVE Carried(ls[i])
      OBVIOUS
    <2>1. i \in 1..M \/ i = M + 1
      OBVIOUS
    <2> QED  BY <1>13, <1>15, <1>16, <2>1
  <1>18. DOMAIN list = 1..(M + 1) /\ Len(list) = M + 1 /\ \A i \in 1..(M + 1) : list[i].csids = ls[i]
    <2>1. DOMAIN list = 1..(M + 1) /\ \A i \in 1..(M + 1) : list[i].csids = ls[i]
      BY <1>14, <1>16
    <2>2. Len(list) = M + 1
      BY <1>14, <1>16
    <2> QED  BY <2>1, <2>2
  <1>19. Consumed(list) = Consumed(sids)
    <2>1. [i \in DOMAIN list |-> list[i].csids] = [i \in 1..(M + 1) |-> ls[i]]
      BY <1>18
    <2>2. [i \in 1..(M + 1) |-> ls[i]] = ls
      BY <1>16
    <2>3. Consumed(list) = FlattenSeq(ls)
      BY <2>1, <2>2 DEF Consumed
    <2>4. FlattenSeq(ls) = FlattenSeq(acc.full) \o acc.last
      BY <1>12, <1>13, FlattenAppend
    <2> HIDE DEF sofar
    <2> QED  BY <1>10, <1>13, <2>3, <2>4
  <1>20. list[Len(list)].csids = acc.last
    <2>1. M + 1 \in 1..(M + 1)
      OBVIOUS
    <2> QED  BY <1>16, <1>18, <2>1
  <1>21. Len(acc.last) >= 2 /\ acc.last[Len(acc.last)] = Fid
    <2>1. PICK c : c = sids[N].csids
      OBVIOUS
    <2>2. Len(c) >= 2 /\ c[Len(c)] = Fid /\ Len(c) \in Nat
      <3>1. N \in 1..N
        OBVIOUS
      <3> QED  BY <1>1, <2>1, <3>1 DEF Leads
    <2>3. Len(acc.last) >= Len(c) /\ acc.last[Len(acc.last)] = c[Len(c)] /\ Len(acc.last) \in Nat
      BY <1>13, <2>1 DEF EndsAs
    <2> QED  BY <2>2, <2>3
  <1>22. \A i \in 1..(M + 1) : list[i].csids[1] <= GibMax /\ Len(list[i].csids) <= PerContainer
    BY <1>17, <1>18 DEF Carried
  <1>23. Reaches(list, sids)
    BY <1>18, <1>19, <1>20, <1>21, <1>22 DEF Reaches
  <1> QED  BY <1>11, <1>23

LEMMA EncodeReaches ==
    ASSUME NEW sids, Leads(sids), NEW usid
    PROVE  Reaches(Encode(sids, usid), sids)
  BY LeadsReaches, PackedReaches DEF Encode

-----------------------------------------------------------------------------
(* The segments the API shows.                                              *)

\* Waypoints that a container can name.
AllCarried(list) == list \in Seq(Sid) /\ \A i \in 1..Len(list) : Carried(list[i].csids)

\* Every node's C-SID is of the Global ID Block.  sync_state refuses a host
\* that has another (_check_usid_locator); of the topology file it is assumed.
GlobalCsids == Usid => \A n \in Nodes : UsidLocator(Locator[n])

LEMMA TransitCarried ==
    ASSUME GlobalCsids, Usid, NEW via \in Seq(Nodes)
    PROVE  AllCarried(TransitSids(via))
  <1>1. ASSUME NEW n \in Nodes PROVE TransitSid(Locator[n], Usid) \in Sid /\ Carried(TransitSid(Locator[n], Usid).csids)
    <2>1. Locator[n].block \in Nat /\ Locator[n].node \in Nat /\ Locator[n].node <= GibMax
      BY TePathsAssumption, SidAssumption DEF GlobalCsids, UsidLocator
    <2>2. TransitSid(Locator[n], Usid) = [block |-> Locator[n].block, csids |-> <<Locator[n].node>>]
      BY DEF TransitSid, NodeSid
    <2>3. PICK c : c = <<Locator[n].node>>
      OBVIOUS
    <2>4. c \in Seq(Nat) /\ c # <<>> /\ c[1] <= GibMax /\ Len(c) = 1 /\ 1 <= PerContainer
      BY <2>1, <2>3, SidAssumption
    <2>5. Carried(c)
      BY <2>4 DEF Carried
    <2>6. [block |-> Locator[n].block, csids |-> c] \in Sid
      BY <2>1, <2>4 DEF Sid
    <2>7. PICK s : s = [block |-> Locator[n].block, csids |-> c]
      OBVIOUS
    <2>8. s.csids = c /\ s = TransitSid(Locator[n], Usid)
      BY <2>2, <2>3, <2>7
    <2> QED  BY <2>5, <2>6, <2>7, <2>8
  <1>2. \A i \in 1..Len(via) : via[i] \in Nodes
    OBVIOUS
  <1>3. /\ TransitSids(via) = [i \in 1..Len(via) |-> TransitSid(Locator[via[i]], Usid)]
        /\ Len(via) \in Nat
    BY DEF TransitSids
  <1>4. PICK N \in Nat : N = Len(via)
    BY <1>3
  <1>5. PICK f : f = TransitSids(via)
    OBVIOUS
  <1>6. /\ DOMAIN f = 1..N
        /\ \A i \in 1..N : f[i] = TransitSid(Locator[via[i]], Usid) /\ via[i] \in Nodes
    BY <1>2, <1>3, <1>4, <1>5
  <1>7. f = [i \in 1..N |-> f[i]]
    BY <1>3, <1>4, <1>5
  <1>8. \A i \in 1..N : f[i] \in Sid /\ Carried(f[i].csids)
    BY <1>1, <1>6
  <1>9. f \in Seq(Sid) /\ Len(f) = N
    BY <1>7, <1>8
  <1> QED  BY <1>5, <1>8, <1>9 DEF AllCarried

LEMMA DropCarried ==
    ASSUME NEW list, AllCarried(list), NEW own
    PROVE  AllCarried(DropLeading(list, own))
  <1> DEFINE others == {i \in DOMAIN list : list[i] # own}
  <1> DEFINE k == CHOOSE i \in others : \A j \in others : i <= j
  <1>1. DropLeading(list, own) = IF others = {} THEN <<>> ELSE SubSeq(list, k, Len(list))
    BY DEF DropLeading
  <1>2. CASE others = {}
    <2>1. DropLeading(list, own) = <<>>
      BY <1>1, <1>2
    <2>2. <<>> \in Seq(Sid) /\ 1..Len(<<>>) = {}
      OBVIOUS
    <2> QED  BY <2>1, <2>2 DEF AllCarried
  <1>3. CASE others # {}
    <2>1. others \subseteq Nat
      BY DEF AllCarried
    <2>2. k \in others
      <3> HIDE DEF others
      <3>1. \E m \in others : \A j \in others : m <= j
        BY <1>3, <2>1, LeastOf
      <3> QED  BY <3>1
    <2>3. k \in 1..Len(list) /\ Len(list) \in Nat /\ list \in Seq(Sid)
      BY <2>2 DEF AllCarried
    <2> HIDE DEF k, others
    <2>4. PICK a : a = k
      OBVIOUS
    <2>5. PICK b \in Nat : b = Len(list)
      BY <2>3
    <2>6. a \in Nat /\ a >= 1 /\ a <= b /\ \A i \in a..b : list[i] \in Sid
      BY <2>3, <2>4, <2>5
    <2>7. /\ SubSeq(list, a, b) \in Seq(Sid) /\ Len(SubSeq(list, a, b)) = b - a + 1
          /\ \A i \in 1..(b - a + 1) : SubSeq(list, a, b)[i] = list[a + i - 1]
      BY <2>6, SubSeqProperties
    <2>8. \A i \in 1..(b - a + 1) : a + i - 1 \in 1..b
      BY <2>6
    <2>9. AllCarried(SubSeq(list, a, b))
      BY <2>5, <2>7, <2>8 DEF AllCarried
    <2> QED  BY <1>1, <1>3, <2>4, <2>5, <2>9
  <1> QED  BY <1>2, <1>3

LEMMA ShownLeads ==
    ASSUME WellFormed, GlobalCsids, Usid, NEW sel \in DOMAIN paths, Active(sel)
    PROVE  Leads(Shown(sel))
  <1>1. PICK x : AllCarried(x) /\ Shown(sel) = Append(x, SidFor(Locator[DestinationOf(sel)], Fid))
    <2>1. AllCarried(TransitSids(paths[sel].via))
      BY TransitCarried DEF WellFormed, ViaOfNodes
    <2>2. CASE sel.src = AnyHost
      BY <2>1, <2>2 DEF Shown
    <2>3. CASE sel.src # AnyHost
      <3>1. AllCarried(DropLeading(TransitSids(paths[sel].via), TransitSid(Locator[SourceOf(sel)], Usid)))
        BY <2>1, DropCarried
      <3> QED  BY <2>3, <3>1 DEF Shown
    <2> QED  BY <2>2, <2>3
  <1>2. PICK d : d = DestinationOf(sel)
    OBVIOUS
  <1>3. d \in Nodes
    BY <1>2 DEF Active, WellFormed, Nodes
  <1>4. Locator[d].block \in Nat /\ Locator[d].node \in Nat /\ Locator[d].node <= GibMax /\ Fid \in Nat
    BY <1>3, TePathsAssumption, SidAssumption DEF GlobalCsids, UsidLocator
  <1>5. PICK c : c = <<Locator[d].node, Fid>>
    OBVIOUS
  <1>6. PICK s : s = SidFor(Locator[d], Fid)
    OBVIOUS
  <1>7. s.csids = c /\ s.block = Locator[d].block /\ s = [block |-> s.block, csids |-> s.csids]
    BY <1>5, <1>6 DEF SidFor
  <1>8. c \in Seq(Nat) /\ c # <<>> /\ c[1] <= GibMax /\ Len(c) = 2 /\ c[2] = Fid /\ 2 <= PerContainer
    BY <1>4, <1>5, SidAssumption
  <1>9. s \in Sid /\ Carried(s.csids)
    BY <1>4, <1>7, <1>8 DEF Sid, Carried
  <1>10. PICK y : y = Append(x, s)
    OBVIOUS
  <1>11. PICK n \in Nat : n = Len(x)
    BY <1>1 DEF AllCarried
  <1>12. /\ y \in Seq(Sid) /\ Len(y) = n + 1 /\ y[n + 1] = s /\ y # <<>>
         /\ \A i \in 1..n : y[i] = x[i]
    <2>1. x \in Seq(Sid)
      BY <1>1 DEF AllCarried
    <2> QED  BY <1>9, <1>10, <1>11, <2>1, AppendProperties
  <1>13. \A i \in 1..(n + 1) : Carried(y[i].csids)
    <2> SUFFICES ASSUME NEW i \in 1..(n + 1) PROVE Carried(y[i].csids)
      OBVIOUS
    <2>1. i \in 1..n \/ i = n + 1
      OBVIOUS
    <2> QED  BY <1>1, <1>9, <1>11, <1>12, <2>1 DEF AllCarried
  <1>14. y[Len(y)].csids = c
    BY <1>7, <1>12
  <1>15. Leads(y)
    <2>1. Len(c) >= 2 /\ c[Len(c)] = Fid
      BY <1>8
    <2>2. \A i \in 1..Len(y) : Carried(y[i].csids)
      BY <1>12, <1>13
    <2> QED  BY <1>12, <1>14, <2>1, <2>2 DEF Leads
  <1> QED  BY <1>1, <1>2, <1>6, <1>10, <1>15

\* With microSIDs the containers of every active path lead a packet through its
\* waypoints and no other node to the decap SID (sid.py pack_next_csid, D9).
THEOREM PackedPathsReach ==
    ASSUME GlobalCsids
    PROVE  Spec => []ContainersReach
  <1>1. WellFormed => ContainersReach
    <2> SUFFICES ASSUME WellFormed, Usid, NEW sel \in DOMAIN paths, Active(sel)
                 PROVE Reaches(EncodedSegments(sel), Shown(sel))
      BY DEF ContainersReach, Reaches
    <2>1. Leads(Shown(sel))
      BY ShownLeads
    <2>2. EncodedSegments(sel) = Encode(Shown(sel), Usid)
      BY DEF EncodedSegments
    <2> QED  BY <2>1, <2>2, EncodeReaches
  <1> QED  BY <1>1, WellFormedThroughout, PTL
=============================================================================
