----------------------------- MODULE NodeRoutes -----------------------------
(***************************************************************************)
(* The routing state one node keeps for a domain, agent/dataplane.py: the  *)
(* encap routes of the VRF, the rules that let the VRF reach the first SID *)
(* of each, the steer tables of source VMs with the rules into them, the   *)
(* node's own locator, decap SID and edge filter.                          *)
(*                                                                         *)
(* The agent works through a payload under its lock, one netlink or nft    *)
(* call after the other.  Every call may fail and the process may die      *)
(* between two of them, while the kernel keeps what it has and traffic     *)
(* keeps flowing.  A stage plans its calls from what it reads when it      *)
(* starts; nothing else writes this state while the agent is at work.      *)
(***************************************************************************)
EXTENDS SidCodec, FiniteSets, Functions

CONSTANTS
    Hosts, Me,          \* the nodes; this one
    Locator,            \* [Hosts -> locator]
    Fid,                \* the domain's function id
    Dests,              \* addresses of the domain's VMs
    Vms,                \* VMs that source-VM paths name
    Tables, Foreign,    \* steer table slots; those other domains' rules use
    Ifaces,             \* names the gateway port of the VMs' network may have
    NoDevice,           \* nodes no underlay device leads to
    Payloads,           \* what the server may send, see below
    Vrf, None,
    FaultKinds,         \* "call", "read", "crash": which faults may happen
    MaxPasses, MaxFaults    \* bounds

(* A payload: usid, the encoding; known, hosts whose locators it carries;    *)
(* routes, [some prefixes -> host and waypoints]; steer, [some VMs here ->   *)
(* their addresses `from` and `lists`, the waypoints for some prefixes].     *)
PayloadTyped(p) ==
    /\ p = [usid |-> p.usid, known |-> p.known, routes |-> p.routes, steer |-> p.steer]
    /\ p.usid \in BOOLEAN /\ p.known \subseteq Hosts
    /\ DOMAIN p.routes \subseteq Dests /\ DOMAIN p.steer \subseteq Vms
    /\ p.steer = [vm \in DOMAIN p.steer |->
                      [from |-> p.steer[vm].from, lists |-> p.steer[vm].lists]]
    /\ \A x \in DOMAIN p.routes : p.routes[x].via \in Seq(Hosts)
    /\ \A vm \in DOMAIN p.steer :
           /\ IsFiniteSet(p.steer[vm].from)
           /\ DOMAIN p.steer[vm].lists \subseteq DOMAIN p.routes
           /\ \A x \in DOMAIN p.steer[vm].lists : p.steer[vm].lists[x] \in Seq(Hosts)

ASSUME NodeRoutesAssumption ==
    /\ Me \in Hosts /\ Foreign \subseteq Tables /\ Vrf \notin Tables
    /\ Tables \subseteq Nat /\ IsFiniteSet(Tables)
    /\ IsFiniteSet(Dests) /\ IsFiniteSet(Vms)
    /\ \A p \in Payloads : PayloadTyped(p)
    /\ MaxPasses \in Nat /\ MaxFaults \in Nat

VARIABLES
    kern,       \* the kernel: see Kernel
    enc,        \* self.encoding is usid
    filtered,   \* the nodes self._edge_filtered covers; {} when inactive
    locs,       \* the nodes whose locators the agent knows
    programmed, \* the domain is in the dataplane's domains
    gateway,    \* the gateway port of the VMs' network on this node, or None
    pass,       \* what the agent is doing: see Idle
    calls,      \* the calls its current stage still has to make
    was,        \* history: the kernel after the last flawless pass, or None
    passes, faults

vars == <<kern, enc, filtered, locs, programmed, gateway, pass, calls, was, passes, faults>>

-----------------------------------------------------------------------------
(* The kernel, and what one call does to it.                                *)

Slots == {Vrf} \cup Tables
NoRoutes == [x \in Dests |-> <<>>]

BareKernel == [routes |-> [t \in Slots |-> NoRoutes], sidRules |-> {}, steerRules |-> {},
               locator |-> "none", lib |-> FALSE, decap |-> {}, nft |-> {}]

\* Replacing and adding what is there, and deleting what is not, are successes.
Effect(k, c) ==
    CASE c.do = "replace_seg6_route" -> [k EXCEPT !.routes[c.table][c.prefix] = c.segs]
      [] c.do = "delete_route"       -> [k EXCEPT !.routes[c.table][c.prefix] = <<>>]
      [] c.do = "flush_table"        -> [k EXCEPT !.routes[c.table] = NoRoutes]
      [] c.do = "add_sid_rule"       -> [k EXCEPT !.sidRules = @ \cup {c.sid}]
      [] c.do = "delete_sid_rule"    -> [k EXCEPT !.sidRules = @ \ {c.sid}]
      [] c.do = "add_steer_rule"     -> [k EXCEPT !.steerRules = @ \cup {c.rule}]
      [] c.do = "delete_steer_rule"  -> [k EXCEPT !.steerRules = @ \ {c.rule}]
      [] c.do = "locator"            -> [k EXCEPT !.locator = c.as]
      [] c.do = "lib"                -> [k EXCEPT !.lib = c.on]
      [] c.do = "replace_decap"      -> [k EXCEPT !.decap = @ \cup {c.len}]
      [] c.do = "delete_decap"       -> [k EXCEPT !.decap = @ \ {c.len}]
      [] c.do = "apply_ruleset"      -> [k EXCEPT !.nft = c.over]

\* The calls whose failure is not caught on the spot: it ends the pass.
Raises(c) ==
    \/ c.do = "replace_decap"
    \/ c.do = "locator" /\ c.as # "uN"

Route(t, x, list) == [do |-> "replace_seg6_route", table |-> t, prefix |-> x, segs |-> list]
Unroute(t, x) == [do |-> "delete_route", table |-> t, prefix |-> x]
SidRule(s) == [do |-> "add_sid_rule", sid |-> s]
Steer(r) == [do |-> "add_steer_rule", rule |-> r]
Unsteer(r) == [do |-> "delete_steer_rule", rule |-> r]
FlushTable(t) == [do |-> "flush_table", table |-> t]
DeleteSidRule(s) == [do |-> "delete_sid_rule", sid |-> s]
ReplaceDecap(len) == [do |-> "replace_decap", len |-> len]
DeleteDecap(len) == [do |-> "delete_decap", len |-> len]
Becomes(as) == [do |-> "locator", as |-> as]        \* the /48: deleted, local, the uN
SealLib(on) == [do |-> "lib", on |-> on]
ApplyRuleset(over) == [do |-> "apply_ruleset", over |-> over]

InOrder(S, Call(_)) == LET s == SetToSeq(S) IN [i \in DOMAIN s |-> Call(s[i])]
Concat(S, Calls(_)) == FlattenSeq(InOrder(S, Calls))
-----------------------------------------------------------------------------
(* One encoding for the VRF's routes and the steer tables.                  *)

DecapLen(usid) == IF usid THEN 64 ELSE 128
NodeOf(s) == CHOOSE h \in Hosts : Locator[h].block = s.block /\ Locator[h].node = s.csids[1]

\* Mutant: an active filter is enough.
CoversActive(nodes, s) == nodes # {}

\* Whether a tenant is kept from addressing this SID directly.
Covers(nodes, s) == NodeOf(s) \in nodes

\* `usid` is how the server named the waypoints, `enc` what this node pushes.
Pushed(host, via, usid) ==
    LET own == TransitSid(Locator[Me], enc)
        transit == DropLeading([i \in DOMAIN via |-> TransitSid(Locator[via[i]], usid)], own)
    IN  [segs |-> Encode(Append(transit, SidFor(Locator[host], Fid)), enc), direct |-> transit = <<>>]

\* The segments, the SID rule they need (None: the path is sealed), the device.
Encap(host, via, usid) ==
    LET pushed == Pushed(host, via, usid)
        first == pushed.segs[1]
    IN  [segs |-> pushed.segs,
         rule |-> IF pushed.direct \/ Covers(filtered, first) THEN first ELSE None,
         dev |-> NodeOf(first) \notin NoDevice]

Remote(p) == {x \in DOMAIN p.routes : p.routes[x].host # Me /\ p.routes[x].host \in locs}
EncapOf(p, x) == Encap(p.routes[x].host, p.routes[x].via, p.usid)
SteerEncap(p, vm, x) == Encap(p.routes[x].host, p.steer[vm].lists[x], p.usid)

\* The VMs steered from this node: there must be a gateway port to match on.
Desired(p) == IF gateway = None THEN {} ELSE
    {vm \in DOMAIN p.steer : \E x \in DOMAIN p.steer[vm].lists : p.routes[x].host \in locs}
SteeredOf(p, vm) == {x \in DOMAIN p.steer[vm].lists : p.routes[x].host \in locs}

RulesOf(encaps) == {e.rule : e \in encaps} \ {None}
-----------------------------------------------------------------------------
(* The stages of a pass: the calls each one makes.                          *)

\* Mutant: the route is pointed at its new first segment before the rule.
InstallBreaksFirst(p) ==
    Concat(Remote(p), LAMBDA x : LET e == EncapOf(p, x) IN
        (IF e.dev THEN <<Route(Vrf, x, e.segs)>> ELSE <<>>) \o
        (IF e.rule # None THEN <<SidRule(e.rule)>> ELSE <<>>))

\* Make before break: the rule for a route's first segment, then the route.
InstallRoutes(p) ==
    Concat(Remote(p), LAMBDA x : LET e == EncapOf(p, x) IN
        (IF e.rule # None THEN <<SidRule(e.rule)>> ELSE <<>>) \o
        (IF e.dev THEN <<Route(Vrf, x, e.segs)>> ELSE <<>>))

Held(k, t) == {x \in Dests : k.routes[t][x] # <<>>}
RemoveUnwantedRoutes(p) == InOrder(Held(kern, Vrf) \ Remote(p), LAMBDA x : Unroute(Vrf, x))

\* An address that became local: only its own encap route goes.
RemoveLocal(p) ==
    InOrder({x \in Held(kern, Vrf) \cap DOMAIN p.routes : p.routes[x].host = Me},
            LAMBDA x : Unroute(Vrf, x))

(* Which table serves which VM, from the kernel's rules alone. *)
TableRules(t) == {r \in kern.steerRules : r.table = t}
Mine == {r.table : r \in kern.steerRules}
FreeToMine == Tables \ Mine        \* mutant: other domains' tables do not count
Free == Tables \ (Mine \cup Foreign)
Lowest(S) == CHOOSE t \in S : \A u \in S : t <= u

\* Its own table is one whose rules all match the VM's gateway port, and one
\* of its addresses.
OwnTables(p, vm, claimed) ==
    {t \in Mine \ Range(claimed) :
        /\ {r.iif : r \in TableRules(t)} = {gateway}
        /\ {r.from : r \in TableRules(t)} \cap p.steer[vm].from # {}}

Claim(p, acc, vm) ==
    LET own == OwnTables(p, vm, acc.claimed)
        from == IF own # {} THEN own ELSE acc.free
        vms == DOMAIN acc.claimed \cup {vm}
    IN  IF from = {} THEN acc                   \* no free steer table
        ELSE [claimed |-> [u \in vms |-> IF u = vm THEN Lowest(from) ELSE acc.claimed[u]],
              free |-> acc.free \ {Lowest(from)}]

Claimed(p) ==
    LET vms == SetToSeq(Desired(p))
        acc[i \in 0..Len(vms)] ==
            IF i = 0 THEN [claimed |-> <<>>, free |-> Free] ELSE Claim(p, acc[i - 1], vms[i])
    IN  acc[Len(vms)].claimed

\* One VM: its routes and their SID rules, what its table no longer needs, and
\* last the rules that send its traffic there.
SteerVm(p, vm, t, prune) ==
    LET to == SteeredOf(p, vm)
        ready == {x \in to : SteerEncap(p, vm, x).dev}
        want == [from : p.steer[vm].from, iif : {gateway}, table : {t}]
        have == TableRules(t)
    IN  InOrder(ready, LAMBDA x : Route(t, x, SteerEncap(p, vm, x).segs))
        \o InOrder(RulesOf({SteerEncap(p, vm, x) : x \in to}), SidRule)
        \o (IF prune THEN InOrder(have \ want, Unsteer)
                          \o InOrder(Held(kern, t) \ ready, LAMBDA x : Unroute(t, x))
            ELSE <<>>)
        \o InOrder(want \ have, Steer)

\* Its rules first: the traffic goes back to the VRF's routes.
Release(t) == InOrder(TableRules(t), Unsteer) \o <<FlushTable(t)>>

SyncSteering(p, prune) ==
    LET claimed == Claimed(p)
    IN  Concat(DOMAIN claimed, LAMBDA vm : SteerVm(p, vm, claimed[vm], prune))
        \o (IF prune THEN Concat(Mine \ Range(claimed), Release) ELSE <<>>)

\* The rules routes and steer tables of the domain need.
Needed(p, claimed) ==
    RulesOf({EncapOf(p, x) : x \in Remote(p)}) \cup
    UNION {RulesOf({SteerEncap(p, vm, x) : x \in SteeredOf(p, vm)}) : vm \in DOMAIN claimed}

\* Mutant: the steer tables' SIDs are not wanted.
RemoveRulesOfSteered(p, claimed) ==
    InOrder(kern.sidRules \ Needed(p, <<>>), DeleteSidRule)

RemoveUnwantedSidRules(p, claimed) ==
    InOrder(kern.sidRules \ Needed(p, claimed), DeleteSidRule)

(* The node: what its /48 is, the seal of its Local ID Block, the filter.   *)
EnsureLocatorRoute(usid) ==
    IF usid
    THEN (IF kern.locator = "local" THEN <<Becomes("none")>> ELSE <<>>)
         \o <<Becomes("uN"), SealLib(TRUE)>>
    ELSE (IF kern.locator = "uN" THEN <<Becomes("none")>> ELSE <<>>)
         \o <<Becomes("local"), SealLib(FALSE)>>

EnsureEdgeFilter(nodes) == <<ApplyRuleset(nodes)>>
-----------------------------------------------------------------------------
Full == << "install", "unwanted", "steer", "rules" >>

\* A sync learns all locators before it applies a domain; an update on its own
\* renews the filter only for locators it did not know.
StagesOf(kind) ==
    CASE kind = "sync"   -> << "filter", "encode", "domain" >> \o Full
      [] kind = "update" -> << "encode", "filter", "domain" >> \o Full
      [] kind = "add"    -> << "install", "steer", "local" >>
      [] kind = "remove" -> << >>
      [] kind = "delete" -> << >>
      [] kind = "boot"   -> << >>

Kinds == {"idle", "down", "boot", "sync", "update", "add", "remove", "delete"}
Idle == [kind |-> "idle", rest |-> <<>>, payload |-> None, claimed |-> <<>>, flaw |-> FALSE]
Start(kind, p) == [Idle EXCEPT !.kind = kind, !.rest = StagesOf(kind), !.payload = p]

Decap == {64, 128}
DecapSids == {SidFor(Locator[h], Fid) : h \in Hosts}

\* Types, and that only VMs' rules lead into steer tables, never another
\* domain's slot.
TypeOK ==
    /\ kern.locator \in {"none", "local", "uN"} /\ kern.lib \in BOOLEAN
    /\ kern.decap \subseteq Decap /\ kern.nft \subseteq Hosts
    /\ DOMAIN kern.routes = Slots
    /\ \A r \in kern.steerRules : r.iif \in Ifaces /\ r.table \in Tables \ Foreign
    /\ enc \in BOOLEAN /\ programmed \in BOOLEAN
    /\ filtered \subseteq kern.nft
    /\ locs \subseteq Hosts
    /\ gateway \in Ifaces \cup {None}
    /\ pass.kind \in Kinds
    /\ passes \in 0..MaxPasses /\ faults \in 0..MaxFaults

Boot(k) == EnsureLocatorRoute(k) \o EnsureEdgeFilter({Me})

\* A node nothing was ever programmed on: the agent starts.
Init ==
    /\ kern = BareKernel
    /\ enc = FALSE /\ filtered = {} /\ locs = {} /\ programmed = FALSE
    /\ gateway \in Ifaces
    /\ pass = Start("boot", None)
    /\ calls = Boot(FALSE)
    /\ was = None
    /\ passes = 0 /\ faults = 0

Fault(kind) == kind \in FaultKinds /\ faults < MaxFaults /\ faults' = faults + 1
Turn == pass = Idle /\ passes < MaxPasses /\ passes' = passes + 1

-----------------------------------------------------------------------------
(* What reaches the agent.                                                  *)

SyncState(p) ==
    /\ Turn
    /\ pass' = Start("sync", p)
    /\ locs' = locs \cup p.known
    /\ UNCHANGED <<kern, enc, filtered, programmed, gateway, calls, was, faults>>

DomainUpdated(p) ==
    /\ Turn
    /\ pass' = Start("update", p)
    /\ UNCHANGED <<kern, enc, filtered, locs, programmed, gateway, calls, was, faults>>

\* The payload as an increment carries it: one route, no locators.
Only(p, x) ==
    [p EXCEPT !.known = {}, !.routes = Restrict(@, {x}),
              !.steer = [vm \in {v \in DOMAIN p.steer : x \in DOMAIN p.steer[v].lists} |->
                            [p.steer[vm] EXCEPT !.lists = Restrict(@, {x})]]]

RoutesAdded(p, x) ==
    /\ Turn
    /\ programmed
    /\ x \in DOMAIN p.routes
    /\ pass' = Start("add", Only(p, x))
    /\ UNCHANGED <<kern, enc, filtered, locs, programmed, gateway, calls, was, faults>>

RoutesRemoved(x) ==
    /\ Turn
    /\ programmed
    /\ pass' = [Start("remove", None) EXCEPT !.payload = x]
    /\ calls' = <<Unroute(Vrf, x)>>
    /\ UNCHANGED <<kern, enc, filtered, locs, programmed, gateway, was, faults>>

\* Mutant: only the decap SID of the present encoding is removed.
DeleteOneLength ==
    Concat(Mine, Release) \o InOrder(kern.sidRules, DeleteSidRule)
        \o <<DeleteDecap(DecapLen(enc)), FlushTable(Vrf)>>

\* Everything is found in the kernel: the agent may have restarted since.
DeleteDomain ==
    Concat(Mine, Release) \o InOrder(kern.sidRules, DeleteSidRule)
        \o <<DeleteDecap(128), DeleteDecap(64), FlushTable(Vrf)>>

DomainDeleted ==
    /\ Turn
    /\ programmed' = FALSE
    /\ pass' = Start("delete", None)
    /\ calls' = DeleteDomain
    /\ UNCHANGED <<kern, enc, filtered, locs, gateway, was, faults>>

\* The OVS agent binds the VMs' network to another VLAN, or no longer.
GatewayMoves(i) ==
    /\ Turn
    /\ i # gateway
    /\ gateway' = i
    /\ UNCHANGED <<kern, enc, filtered, locs, programmed, pass, calls, was, faults>>

-----------------------------------------------------------------------------
(* The work: each stage plans its calls, each call is one step.             *)

Enter(stage, planned) ==
    /\ calls = <<>> /\ pass.rest # <<>> /\ Head(pass.rest) = stage
    /\ calls' = planned
    /\ UNCHANGED <<kern, filtered, gateway, was, passes, faults>>
Leave == pass' = [pass EXCEPT !.rest = Tail(@)]
P == pass.payload

\* A switch this node's locator cannot take part in is refused.
EnsureEncoding ==
    LET switch == P.usid # enc /\ (P.usid => UsidLocator(Locator[Me]))
    IN  /\ Enter("encode",
               IF ~switch THEN <<>>
               ELSE EnsureLocatorRoute(P.usid) \o
                    (IF programmed THEN <<DeleteDecap(DecapLen(enc))>> ELSE <<>>))
        /\ enc' = IF switch THEN P.usid ELSE enc
        /\ Leave /\ UNCHANGED <<locs, programmed>>

EdgeFilter ==
    /\ Enter("filter", IF pass.kind = "sync" \/ ~(P.known \subseteq locs)
                       THEN EnsureEdgeFilter(locs \cup P.known \cup {Me}) ELSE <<>>)
    /\ locs' = locs \cup P.known
    /\ Leave /\ UNCHANGED <<enc, programmed>>

EnsureDomain ==
    /\ Enter("domain", <<ReplaceDecap(DecapLen(enc))>>)
    /\ Leave /\ UNCHANGED <<enc, locs, programmed>>

\* The domain is recorded once its decap SID is there.
Install ==
    /\ Enter("install", InstallRoutes(P))
    /\ programmed' = TRUE
    /\ Leave /\ UNCHANGED <<enc, locs>>

RemoveUnwanted ==
    /\ Enter("unwanted", RemoveUnwantedRoutes(P))
    /\ Leave /\ UNCHANGED <<enc, locs, programmed>>

Steering ==
    /\ Enter("steer", SyncSteering(P, pass.kind # "add"))
    /\ pass' = [pass EXCEPT !.rest = Tail(@), !.claimed = Claimed(P)]
    /\ UNCHANGED <<enc, locs, programmed>>

Local ==
    /\ Enter("local", RemoveLocal(P))
    /\ Leave /\ UNCHANGED <<enc, locs, programmed>>

SidRules ==
    /\ Enter("rules", RemoveUnwantedSidRules(P, pass.claimed))
    /\ Leave /\ UNCHANGED <<enc, locs, programmed>>

Call ==
    /\ calls # <<>>
    /\ kern' = Effect(kern, Head(calls))
    /\ filtered' = IF Head(calls).do = "apply_ruleset" THEN Head(calls).over ELSE filtered
    /\ calls' = Tail(calls)
    /\ UNCHANGED <<enc, locs, programmed, gateway, pass, was, passes, faults>>

\* The kernel's routes or rules cannot be read: nothing is removed, and no VM
\* is steered.
ReadFails ==
    /\ Fault("read")
    /\ calls = <<>> /\ pass.rest # <<>> /\ Head(pass.rest) \in {"unwanted", "steer", "local", "rules"}
    /\ pass' = [pass EXCEPT !.rest = Tail(@), !.flaw = TRUE]
    /\ was' = None
    /\ UNCHANGED <<kern, enc, filtered, locs, programmed, gateway, calls, passes>>

\* Logged and passed over, unless nothing catches it before the end of the pass
\* (at a start: of the process).
CallFails ==
    /\ Fault("call")
    /\ calls # <<>>
    /\ LET c == Head(calls)
       IN  /\ Effect(kern, c) # kern
           /\ filtered' = IF c.do = "apply_ruleset" THEN {} ELSE filtered
           /\ IF Raises(c)
              THEN /\ calls' = <<>>
                   /\ pass' = IF pass.kind = "boot" THEN [Idle EXCEPT !.kind = "down"] ELSE Idle
              ELSE /\ calls' = Tail(calls)
                   /\ pass' = [pass EXCEPT !.flaw = TRUE]
    /\ was' = None
    /\ UNCHANGED <<kern, enc, locs, programmed, gateway, passes>>

Done ==
    /\ calls = <<>> /\ pass.rest = <<>> /\ pass.kind \notin {"idle", "down"}
    /\ pass' = Idle
    /\ was' = IF pass.flaw \/ pass.kind \in {"boot", "delete"} THEN None
              ELSE IF pass.kind \in {"sync", "update"} \/ was # None THEN kern ELSE None
    /\ UNCHANGED <<kern, enc, filtered, locs, programmed, gateway, calls, passes, faults>>

\* The memory goes; the encoding is read back from what the /48 is.
StartAgain ==
    /\ enc' = (kern.locator = "uN")
    /\ filtered' = {} /\ locs' = {} /\ programmed' = FALSE
    /\ pass' = Start("boot", None)
    /\ calls' = Boot(kern.locator = "uN")
    /\ was' = None
    /\ UNCHANGED <<kern, gateway, passes>>

Crash == Fault("crash") /\ pass.kind # "down" /\ StartAgain
Restart == pass.kind = "down" /\ StartAgain /\ UNCHANGED faults

Next ==
    \/ \E p \in Payloads : SyncState(p) \/ DomainUpdated(p)
    \/ \E p \in Payloads, x \in Dests : RoutesAdded(p, x)
    \/ \E x \in Dests : RoutesRemoved(x)
    \/ DomainDeleted
    \/ \E i \in Ifaces \cup {None} : GatewayMoves(i)
    \/ EnsureEncoding \/ EdgeFilter \/ EnsureDomain \/ Install \/ RemoveUnwanted
    \/ Steering \/ Local \/ SidRules
    \/ Call \/ CallFails \/ ReadFails \/ Done \/ Crash \/ Restart

Spec == Init /\ [][Next]_vars
-----------------------------------------------------------------------------
(* What a packet meets: its VM's steer table, else the VRF, and the rule that *)
(* lets the VRF reach the first segment it was given.                         *)

SteerTablesOf(k, a) == {r.table : r \in {s \in k.steerRules : s.from = a /\ s.iif = gateway}}

Forwards(k, a, x) ==
    LET steered == {k.routes[t][x] : t \in SteerTablesOf(k, a)} \ {<<>>}
    IN  IF steered # {} THEN steered ELSE {k.routes[Vrf][x]} \ {<<>>}

Leaves(k, a, x) ==
    Forwards(k, a, x) # {} /\ \A list \in Forwards(k, a, x) : list[1] \in k.sidRules

\* Lists a packet from a to x may be given while p is applied: the old or the
\* new one of its VM, the old or the new one of the domain.
Lists(p, a, x) ==
    Forwards(was, a, x) \cup {was.routes[Vrf][x], EncapOf(p, x).segs}
        \cup {SteerEncap(p, vm, x).segs :
                  vm \in {v \in Desired(p) : a \in p.steer[v].from /\ x \in SteeredOf(p, v)}}

\* The way to x the payload wants from a is open: a device leads to it and the
\* edge filter covers it.
Open(e) == e.dev /\ e.rule # None
WayOpen(p, a, x) ==
    /\ Open(EncapOf(p, x))
    /\ \A vm \in Desired(p) : x \in SteeredOf(p, vm) => Open(SteerEncap(p, vm, x))

AddressesOf(p) == UNION {p.steer[vm].from : vm \in DOMAIN p.steer}

\* The table an address was steered into is being filled anew.
Resteered(a) == SteerTablesOf(was, a) \cap Range(pass.claimed) # {}

Applying == was # None /\ pass.kind \in {"sync", "update", "add"} /\ ~pass.flaw

KeepsFlowing(p, a) ==
    \A x \in Remote(p) :
        Leaves(was, a, x) /\ WayOpen(p, a, x)
            => Leaves(kern, a, x) /\ Forwards(kern, a, x) \subseteq Lists(p, a, x)

\* While a payload is applied without a fault, between any two calls, a VM's
\* packet to an address that stays remote leaves by the old or the new path:
\* no route points at a segment its VRF has no rule for, and no steer rule
\* leads into a table that is not filled (_install_routes, _release_steer_table).
MakeBeforeBreak ==
    Applying => \A a \in AddressesOf(P) : ~Resteered(a) => KeepsFlowing(P, a)

\* However a full pass finds the kernel, after failed calls, a crash or a
\* moved gateway: a pass without a fault leaves exactly the routes, steer
\* rules and SID rules of its payload, and no VM in another VM's table.
RoutesSettle ==
    LET p == P
        claimed == pass.claimed
        Exactly(t, wanted, e(_)) ==
            \A x \in Dests :
                IF x \notin wanted THEN kern.routes[t][x] = <<>>
                ELSE e(x).dev => kern.routes[t][x] = e(x).segs
    IN  pass.kind \in {"sync", "update"} /\ ~pass.flaw /\ pass.rest = <<>> /\ calls = <<>> =>
            /\ Exactly(Vrf, Remote(p), LAMBDA x : EncapOf(p, x))
            /\ IsInjective(claimed)
            /\ \A vm \in DOMAIN claimed :
                   Exactly(claimed[vm], {x \in SteeredOf(p, vm) : SteerEncap(p, vm, x).dev},
                           LAMBDA x : SteerEncap(p, vm, x))
            /\ kern.steerRules =
                   UNION {[from : p.steer[vm].from, iif : {gateway}, table : {claimed[vm]}] :
                              vm \in DOMAIN claimed}
            /\ kern.sidRules = Needed(p, claimed)
            /\ DecapLen(enc) \in kern.decap

\* A domain deleted without a fault leaves no rule, no decap SID and no route of its
\* VRF, and no rule into a steer table, whatever an encoding switch or a
\* restart left behind: its function id is free for another domain.
DeleteLeavesNothing ==
    pass.kind = "delete" /\ ~pass.flaw /\ calls = <<>> =>
        /\ kern.sidRules = {} /\ kern.steerRules = {} /\ kern.decap = {}
        /\ kern.routes[Vrf] = NoRoutes

\* A VRF is let at a waypoint's SID only while the edge filter the kernel runs
\* covers that node: filtering it comes first, whatever failed before
\* (_edge_filter_covers).
SealedStep ==
    \A s \in kern'.sidRules \ kern.sidRules :
        s \in DecapSids \/ NodeOf(s) \in kern.nft
SealedRules == [][SealedStep]_vars
=============================================================================
