-------------------------- MODULE GatewayPorts_proofs ---------------------------
(***************************************************************************)
(* For any number of networks, VLANs and VMs.                              *)
(*                                                                         *)
(* None of the three invariants of GatewayPorts is inductive.  That no     *)
(* gateway stays on a stranger's VLAN (StrangersHandled) is about what a   *)
(* handler read some steps ago: it holds because a VLAN that the handler   *)
(* saw on a port has no other network meanwhile (OwnVlans, OwnReads), and  *)
(* that because the OVS agent gives a VLAN back only once every tagged     *)
(* port has been bound anew after a restart (GoneAreGone).  Covered says   *)
(* when a port counts as cleaned for, NoStrangers what that is worth.      *)
(*                                                                         *)
(* The flows of this process (FlowsHitGateways) match its records through  *)
(* every operation on the bridge, as long as none is skipped: FlowsKeep,   *)
(* for each operator that makes or removes a port.                         *)
(***************************************************************************)
EXTENDS GatewayPorts, FiniteSetTheorems, TLAPS

\* A domain's networks with their gateway addresses, as the server has them.
Table(w) ==
    /\ DOMAIN w \subseteq Networks /\ w = [n \in DOMAIN w |-> w[n]]
    /\ \A n \in DOMAIN w : w[n] \in GatewayIps[n]

Stages == {"none", "bound", "handled", "unbinding"}
Flow == [of : 1..MaxOfport, vlan : Vlans, mine : BOOLEAN]
NdFlow == [vlan : Vlans, ip : Ips, mine : BOOLEAN]
Gateways == [Vlans -> Gateway \cup {None}]
Bridge ==
    [gw : Gateways, fw : SUBSET Flow, nd : SUBSET NdFlow,
     ports : [Networks -> Vlans \cup {None}], flows : [Vlans -> (1..MaxOfport) \cup {None}],
     nds : [Vlans -> SUBSET Ips]]

Apart(g) == \A vm \in Vms, v \in Vlans : tap[vm] # None /\ g[v] # None => tap[vm].of # g[v].of

Typed ==
    /\ Table(wish) /\ Table(payload)
    /\ tap \in [Vms -> Port \cup {None}]
    /\ Now \in Bridge /\ Apart(gw)
    /\ lvm \in [Networks -> Vlans \cup {None}] /\ hint \in [Networks -> Vlans \cup {None}]
    /\ stage \in [Vms -> Stages]
    /\ dom \in {"unknown", "dormant", "programmed"} /\ (dom = "unknown" <=> DOMAIN payload = {})
    /\ ops \in 0..MaxOps /\ faults \in 0..MaxFaults

-----------------------------------------------------------------------------
(* The flows of gateway ports, for a bridge and its records s.              *)

\* What this process has put there is in its records,
Recorded(s) ==
    /\ \A f \in s.fw : f.mine => s.flows[f.vlan] = f.of
    /\ \A f \in NdFlow : f.mine => (f \in s.nd <=> f.ip \in s.nds[f.vlan])
\* and for a gateway port that is there.
Backed(s) == \A f \in s.fw : f.mine => s.gw[f.vlan] # None /\ s.gw[f.vlan].of = f.of

\* From s to t without a flow that is neither set nor removed.
FlowsKeep(s, t) == (Recorded(s) => Recorded(t)) /\ (Recorded(s) /\ Backed(s) => Backed(t))

LEMMA ImageSmall ==
    ASSUME NEW S, IsFiniteSet(S), NEW f, f = [x \in S |-> f[x]]
    PROVE  IsFiniteSet({f[x] : x \in S}) /\ Cardinality({f[x] : x \in S}) <= Cardinality(S)
  <1> DEFINE T == {f[x] : x \in S}
  <1>1. f \in [S -> T]
    OBVIOUS
  <1>2. f \in Surjection(S, T)
    BY <1>1 DEF Surjection
  <1> QED  BY <1>2, FS_Surjection

\* There is a number left for another port.
LEMMA OfportFree ==
    ASSUME tap \in [Vms -> Port \cup {None}], NEW s, s.gw \in Gateways
    PROVE  /\ Ofport(s) \in 1..MaxOfport
           /\ \A vm \in Vms : tap[vm] # None => tap[vm].of # Ofport(s)
           /\ \A v \in Vlans : s.gw[v] # None => s.gw[v].of # Ofport(s)
  <1> USE GatewayPortsAssumption
  <1> DEFINE A == {vm \in Vms : tap[vm] # None}
  <1> DEFINE B == {v \in Vlans : s.gw[v] # None}
  <1> DEFINE f == [vm \in A |-> tap[vm].of]
  <1> DEFINE g == [v \in B |-> s.gw[v].of]
  <1> DEFINE used == {f[vm] : vm \in A} \cup {g[v] : v \in B}
  <1>1. IsFiniteSet(A) /\ Cardinality(A) <= Cardinality(Vms)
        /\ IsFiniteSet(B) /\ Cardinality(B) <= Cardinality(Vlans)
    BY FS_Subset
  <1>2. /\ IsFiniteSet({f[vm] : vm \in A}) /\ Cardinality({f[vm] : vm \in A}) <= Cardinality(A)
        /\ IsFiniteSet({g[v] : v \in B}) /\ Cardinality({g[v] : v \in B}) <= Cardinality(B)
    <2>1. f = [vm \in A |-> f[vm]] /\ g = [v \in B |-> g[v]]
      OBVIOUS
    <2> HIDE DEF f, g, A, B
    <2> QED  BY <1>1, <2>1, ImageSmall
  <1>3. IsFiniteSet(used) /\ Cardinality(used) < MaxOfport
    <2> DEFINE F == {f[vm] : vm \in A}
    <2> DEFINE G == {g[v] : v \in B}
    <2>1. IsFiniteSet(F) /\ IsFiniteSet(G)
          /\ Cardinality(F) <= Cardinality(Vms) /\ Cardinality(G) <= Cardinality(Vlans)
          /\ Cardinality(F) \in Nat /\ Cardinality(G) \in Nat
          /\ Cardinality(Vms) \in Nat /\ Cardinality(Vlans) \in Nat
      <3>1. /\ Cardinality({f[vm] : vm \in A}) \in Nat /\ Cardinality({g[v] : v \in B}) \in Nat
            /\ Cardinality(A) \in Nat /\ Cardinality(B) \in Nat
            /\ Cardinality(Vms) \in Nat /\ Cardinality(Vlans) \in Nat
        BY <1>1, <1>2, FS_CardinalityType
      <3> HIDE DEF f, g, A, B
      <3> QED  BY <1>1, <1>2, <3>1
    <2> HIDE DEF F, G
    <2>2. /\ IsFiniteSet(F \cup G)
          /\ Cardinality(F \cup G) = Cardinality(F) + Cardinality(G) - Cardinality(F \cap G)
      BY <2>1, FS_Union
    <2>3. IsFiniteSet(F \cap G)
      BY <2>1, FS_Subset
    <2>4. Cardinality(F \cap G) \in Nat
      BY <2>3, FS_CardinalityType
    <2>5. Cardinality(F \cup G) < MaxOfport
      BY <2>1, <2>2, <2>4
    <2> QED  BY <2>2, <2>5 DEF F, G
  <1> HIDE DEF used
  <1>4. ~(1..MaxOfport \subseteq used)
    <2>1. IsFiniteSet(1..MaxOfport) /\ Cardinality(1..MaxOfport) = MaxOfport
      <3>1. \A a, b \in Int : IsFiniteSet(a..b) /\ Cardinality(a..b) = IF a > b THEN 0 ELSE b - a + 1
        BY FS_Interval
      <3>2. 1 \in Int /\ MaxOfport \in Int /\ MaxOfport \in Nat
        OBVIOUS
      <3> HIDE GatewayPortsAssumption
      <3>3. IsFiniteSet(1..MaxOfport)
            /\ Cardinality(1..MaxOfport) = IF 1 > MaxOfport THEN 0 ELSE MaxOfport - 1 + 1
        BY <3>1, <3>2
      <3> QED  BY <3>2, <3>3
    <2>2. ASSUME 1..MaxOfport \subseteq used PROVE Cardinality(1..MaxOfport) <= Cardinality(used)
      BY <1>3, <2>2, FS_Subset
    <2>3. Cardinality(used) \in Nat
      BY <1>3, FS_CardinalityType
    <2> QED  BY <1>3, <2>1, <2>2, <2>3
  <1>5. PICK o \in 1..MaxOfport : o \notin used
    BY <1>4
  <1>6. \A vm \in Vms : tap[vm] # None => tap[vm].of # o
    BY <1>5 DEF used
  <1>7. \A v \in Vlans : s.gw[v] # None => s.gw[v].of # o
    BY <1>5 DEF used
  <1> DEFINE free == {x \in 1..MaxOfport : /\ \A vm \in Vms : tap[vm] # None => tap[vm].of # x
                                          /\ \A v \in Vlans : s.gw[v] # None => s.gw[v].of # x}
  <1>8. o \in free
    BY <1>6, <1>7
  <1>9. Ofport(s) = CHOOSE x \in 1..MaxOfport : x \in free
    BY DEF Ofport
  <1> HIDE DEF free
  <1>10. Ofport(s) \in free
    BY <1>8, <1>9
  <1> QED  BY <1>10 DEF free

\* What removing the ports S makes of s, when k goes wrong.
Shrinks(s, S, k, t) ==
    /\ t \in Bridge /\ t.ports = s.ports
    /\ \A v \in Vlans : t.gw[v] \in {s.gw[v], None}
    /\ k # "delete" => \A v \in S : t.gw[v] = None
    /\ k # "flow" => FlowsKeep(s, t)

LEMMA DeletePortsKeeps ==
    ASSUME NEW s \in Bridge, NEW S \in SUBSET Vlans, NEW k
    PROVE  Shrinks(s, S, k, DeleteGatewayPorts(s, S, k))
  <1> DEFINE t == DeleteGatewayPorts(s, S, k)
  <1> USE GatewayPortsAssumption
  <1>1. t \in Bridge /\ t.ports = s.ports
    BY DEF DeleteGatewayPorts, Without, Bridge, Gateways
  <1>2. /\ t.gw = IF k = "delete" THEN s.gw ELSE Without(s.gw, S, None)
        /\ t.flows = Without(s.flows, S, None) /\ t.nds = Without(s.nds, S, {})
        /\ k # "flow" => /\ t.fw = {f \in s.fw : ~f.mine \/ \A v \in S : f.of # s.flows[v]}
                         /\ t.nd = {f \in s.nd : ~(f.mine /\ f.vlan \in S /\ f.ip \in s.nds[f.vlan])}
    BY DEF DeleteGatewayPorts, Bridge
  <1>3. (\A v \in Vlans : t.gw[v] \in {s.gw[v], None}) /\ (k # "delete" => \A v \in S : t.gw[v] = None)
    BY <1>2 DEF Without
  <1> HIDE DEF t
  <1>4. ASSUME k # "flow", Recorded(s) PROVE Recorded(t) /\ (Backed(s) => Backed(t))
    <2>1. \A f \in t.fw : f \in s.fw /\ f.vlan \in Vlans
      BY <1>2, <1>4 DEF Bridge, Flow
    <2>2. \A f \in t.fw : f.mine => f.vlan \notin S
      BY <1>2, <1>4, <2>1 DEF Recorded
    <2>3. \A v \in Vlans \ S : t.flows[v] = s.flows[v] /\ t.gw[v] = s.gw[v] /\ t.nds[v] = s.nds[v]
      BY <1>2 DEF Without
    <2>4. \A f \in t.fw : f.mine => t.flows[f.vlan] = f.of
      BY <1>4, <2>1, <2>2, <2>3 DEF Recorded
    <2>5. ASSUME NEW f \in NdFlow, f.mine PROVE f \in t.nd <=> f.ip \in t.nds[f.vlan]
      <3>1. f.vlan \in Vlans /\ (f \in s.nd <=> f.ip \in s.nds[f.vlan])
        BY <1>4, <2>5 DEF NdFlow, Recorded
      <3>2. f \in t.nd <=> f \in s.nd /\ ~(f.vlan \in S /\ f.ip \in s.nds[f.vlan])
        BY <1>2, <1>4, <2>5
      <3>3. f.vlan \in S => t.nds[f.vlan] = {}
        BY <1>2, <3>1 DEF Without
      <3> QED  BY <2>3, <3>1, <3>2, <3>3
    <2>6. Backed(s) => Backed(t)
      BY <2>1, <2>2, <2>3 DEF Backed
    <2> QED  BY <2>4, <2>5, <2>6 DEF Recorded
  <1>5. Shrinks(s, S, k, t)
    BY <1>1, <1>3, <1>4 DEF FlowsKeep, Shrinks
  <1> QED  BY <1>5 DEF t

\* A port is made, or set up further.
SetsGateway(s, v, g, t) ==
    /\ t \in Bridge /\ t.gw[v] = g /\ t.ports = s.ports
    /\ \A w \in Vlans \ {v} : t.gw[w] = s.gw[w]
    /\ FlowsKeep(s, t)

LEMMA GatewaySet ==
    ASSUME NEW s \in Bridge, NEW v \in Vlans, NEW g \in Gateway,
           s.gw[v] # None => g.of = s.gw[v].of, NEW t, t = [s EXCEPT !.gw[v] = g]
    PROVE  SetsGateway(s, v, g, t)
  <1>1. t \in Bridge /\ t.gw = [s.gw EXCEPT ![v] = g] /\ t.ports = s.ports
        /\ t.fw = s.fw /\ t.nd = s.nd /\ t.flows = s.flows /\ t.nds = s.nds
    BY DEF Bridge, Gateways
  <1>2. t.gw[v] = g /\ \A w \in Vlans \ {v} : t.gw[w] = s.gw[w]
    BY <1>1 DEF Bridge, Gateways
  <1>3. Recorded(s) => Recorded(t)
    BY <1>1 DEF Recorded
  <1>4. Backed(s) => Backed(t)
    <2> SUFFICES ASSUME Backed(s), NEW f \in s.fw, f.mine
                 PROVE  t.gw[f.vlan] # None /\ t.gw[f.vlan].of = f.of
      BY <1>1 DEF Backed
    <2>1. f.vlan \in Vlans /\ s.gw[f.vlan] # None /\ s.gw[f.vlan].of = f.of
      BY DEF Backed, Bridge, Flow
    <2> QED  BY <1>2, <2>1, NoneAssumption
  <1> QED  BY <1>1, <1>2, <1>3, <1>4 DEF FlowsKeep, SetsGateway

LEMMA EnsureFlowsKeeps ==
    ASSUME NEW s \in Bridge, NEW v \in Vlans, s.gw[v] \in Gateway, NEW k, NEW t, t = EnsureFlows(s, v, k)
    PROVE  t \in Bridge /\ t.gw = s.gw /\ t.ports = s.ports /\ (k # "flow" => FlowsKeep(s, t))
  <1> USE GatewayPortsAssumption, NoneAssumption
  <1> DEFINE of == s.gw[v].of
  <1> DEFINE r == IF s.flows[v] \in {None, of} THEN s ELSE DeleteFlows(s, v, k)
  <1>0. of \in 1..MaxOfport
    BY DEF Gateway
  <1>1. /\ r \in Bridge /\ r.gw = s.gw /\ r.ports = s.ports
        /\ k # "flow" => FlowsKeep(s, r)
        /\ r.flows[v] \in {None, of}
    <2>1. CASE s.flows[v] \in {None, of}
      BY <2>1 DEF FlowsKeep
    <2>2. CASE s.flows[v] \notin {None, of}
      <3>1. /\ r \in Bridge /\ r.gw = s.gw /\ r.ports = s.ports /\ r.nd = s.nd /\ r.nds = s.nds
            /\ r.flows = [s.flows EXCEPT ![v] = None]
            /\ k # "flow" => r.fw = {f \in s.fw : ~f.mine \/ f.of # s.flows[v]}
        BY <2>2 DEF DeleteFlows, Bridge
      <3> HIDE DEF r
      <3>2. r.flows[v] = None /\ \A w \in Vlans \ {v} : r.flows[w] = s.flows[w]
        BY <3>1 DEF Bridge
      <3>3. k # "flow" /\ Recorded(s) => Recorded(r)
        BY <3>1, <3>2 DEF Recorded, Bridge, Flow
      <3>4. k # "flow" /\ Backed(s) => Backed(r)
        BY <3>1 DEF Backed
      <3> QED  BY <3>1, <3>2, <3>3, <3>4 DEF FlowsKeep
    <2> QED  BY <2>1, <2>2
  <1>2. t = AddFlow(r, v, k)
    BY DEF EnsureFlows
  <1> HIDE DEF r
  <1>3. CASE k = "flow"
    BY <1>1, <1>2, <1>3 DEF AddFlow
  <1>4. CASE k # "flow"
    <2> DEFINE new == [of |-> of, vlan |-> v, mine |-> TRUE]
    <2>1. /\ t \in Bridge /\ t.gw = s.gw /\ t.ports = s.ports /\ t.nd = r.nd /\ t.nds = r.nds
          /\ t.fw = {f \in r.fw : f.of # of} \cup {new} /\ t.flows = [r.flows EXCEPT ![v] = of]
      <3>1. t = [r EXCEPT !.fw = {f \in @ : f.of # of} \cup {new}, !.flows[v] = of]
        BY <1>1, <1>2, <1>4 DEF AddFlow
      <3>2. new \in Flow
        BY <1>0 DEF Flow
      <3> DEFINE fw1 == {f \in r.fw : f.of # of} \cup {new}
      <3> DEFINE flows1 == [r.flows EXCEPT ![v] = of]
      <3>3. fw1 \in SUBSET Flow /\ flows1 \in [Vlans -> (1..MaxOfport) \cup {None}]
        <4> HIDE DEF of, new
        <4> QED  BY <1>0, <1>1, <3>2 DEF Bridge
      <3>4. t = [r EXCEPT !.fw = fw1, !.flows = flows1]
        BY <3>1
      <3> HIDE DEF of, new, fw1, flows1
      <3>5. t.gw = r.gw /\ t.ports = r.ports /\ t.nd = r.nd /\ t.nds = r.nds /\ t.fw = fw1 /\ t.flows = flows1
            /\ t \in Bridge
        BY <1>1, <3>3, <3>4 DEF Bridge
      <3> QED  BY <1>1, <3>5 DEF fw1, flows1
    <2>2. t.flows[v] = of /\ \A w \in Vlans \ {v} : t.flows[w] = r.flows[w]
      BY <1>1, <2>1 DEF Bridge
    <2>3. Recorded(r) => Recorded(t)
      <3> SUFFICES ASSUME Recorded(r), NEW f \in t.fw, f.mine PROVE t.flows[f.vlan] = f.of
        BY <2>1 DEF Recorded
      <3>1. CASE f = new
        BY <2>2, <3>1
      <3>2. CASE f # new
        <4>1. f \in r.fw /\ f.of # of /\ r.flows[f.vlan] = f.of /\ f.vlan \in Vlans /\ f.of \in 1..MaxOfport
          BY <1>1, <2>1, <3>2 DEF Recorded, Bridge, Flow
        <4>2. f.vlan # v
          BY <1>1, <4>1
        <4> QED  BY <2>2, <4>1, <4>2
      <3> QED  BY <3>1, <3>2
    <2>4. Backed(r) => Backed(t)
      BY <1>1, <2>1 DEF Backed
    <2> QED  BY <1>1, <1>4, <2>1, <2>3, <2>4 DEF FlowsKeep
  <1> QED  BY <1>3, <1>4

LEMMA EnsureNdFlowsKeeps ==
    ASSUME NEW s \in Bridge, NEW v \in Vlans, NEW ip \in Ips, NEW k, NEW t, t = EnsureNdFlows(s, v, ip, k)
    PROVE  t \in Bridge /\ t.gw = s.gw /\ t.ports = s.ports /\ (k # "flow" => FlowsKeep(s, t))
  <1> DEFINE new == [vlan |-> v, ip |-> ip, mine |-> TRUE]
  <1>1. /\ t \in Bridge /\ t.gw = s.gw /\ t.ports = s.ports /\ t.fw = s.fw /\ t.flows = s.flows
        /\ k # "flow" => /\ t.nd = {f \in s.nd : ~(f.mine /\ f.vlan = v /\ f.ip \in s.nds[v] \ {ip})} \cup {new}
                         /\ t.nds = [s.nds EXCEPT ![v] = {ip}]
    <2>1. new \in NdFlow
      BY DEF NdFlow
    <2> DEFINE left == IF k = "flow" THEN s.nd
                       ELSE {f \in s.nd : ~(f.mine /\ f.vlan = v /\ f.ip \in s.nds[v] \ {ip})}
    <2>2. t = [[s EXCEPT !.nd = left] EXCEPT !.nd = IF k = "flow" THEN @ ELSE @ \cup {new},
                                            !.nds[v] = IF k = "flow" THEN {} ELSE {ip}]
      BY DEF EnsureNdFlows, DeleteNdFlows, Bridge
    <2>3. left \subseteq s.nd
      OBVIOUS
    <2>4. k # "flow" => left = {f \in s.nd : ~(f.mine /\ f.vlan = v /\ f.ip \in s.nds[v] \ {ip})}
      OBVIOUS
    <2> DEFINE nd1 == IF k = "flow" THEN left ELSE left \cup {new}
    <2> DEFINE nds1 == [s.nds EXCEPT ![v] = IF k = "flow" THEN {} ELSE {ip}]
    <2>5. nd1 \in SUBSET NdFlow /\ nds1 \in [Vlans -> SUBSET Ips]
      <3> HIDE DEF left, new
      <3> QED  BY <2>1, <2>3 DEF Bridge
    <2>6. t = [s EXCEPT !.nd = nd1, !.nds = nds1]
      <3> HIDE DEF left, new
      <3> QED  BY <2>2 DEF Bridge
    <2>7. k # "flow" => nd1 = left \cup {new} /\ nds1 = [s.nds EXCEPT ![v] = {ip}]
      OBVIOUS
    <2> HIDE DEF left, new, nd1, nds1
    <2>8. /\ t \in Bridge /\ t.gw = s.gw /\ t.ports = s.ports /\ t.fw = s.fw /\ t.flows = s.flows
          /\ t.nd = nd1 /\ t.nds = nds1
      BY <2>5, <2>6 DEF Bridge
    <2> QED  BY <2>4, <2>7, <2>8
  <1>2. ASSUME k # "flow", Recorded(s) PROVE Recorded(t)
    <2>1. t.nds[v] = {ip} /\ \A w \in Vlans \ {v} : t.nds[w] = s.nds[w]
      BY <1>1, <1>2 DEF Bridge
    <2>2. ASSUME NEW f \in NdFlow, f.mine PROVE f \in t.nd <=> f.ip \in t.nds[f.vlan]
      <3>1. f.vlan \in Vlans /\ (f \in s.nd <=> f.ip \in s.nds[f.vlan])
            /\ (f = new <=> f.vlan = v /\ f.ip = ip)
        BY <1>2, <2>2 DEF NdFlow, Recorded
      <3>2. f \in t.nd <=> (f \in s.nd /\ ~(f.vlan = v /\ f.ip \in s.nds[v] \ {ip})) \/ f = new
        BY <1>1, <1>2, <2>2
      <3> QED  BY <2>1, <3>1, <3>2
    <2> QED  BY <1>1, <1>2, <2>2 DEF Recorded
  <1> QED  BY <1>1, <1>2 DEF FlowsKeep, Backed

\* ensure_gateway_port, however far it gets.
LEMMA EnsureKeeps ==
    ASSUME tap \in [Vms -> Port \cup {None}], NEW s \in Bridge, Apart(s.gw), NEW n \in Networks,
           NEW v \in Vlans, NEW ip \in Ips, NEW k, NEW t, t = EnsureGatewayPort(s, n, v, ip, k)
    PROVE  /\ t \in Bridge /\ Apart(t.gw)
           /\ \A w \in Vlans \ {v} : t.gw[w] \in {s.gw[w], None}
           /\ k # "flow" => FlowsKeep(s, t)
  <1> USE GatewayPortsAssumption, NoneAssumption
  <1> DEFINE born == [of |-> Ofport(s), vrf |-> FALSE, ips |-> {}]
  <1> DEFINE made == IF s.gw[v] # None THEN s ELSE [s EXCEPT !.gw[v] = born]
  <1> DEFINE firewalled == EnsureFlows(made, v, k)
  <1> DEFINE shown == EnsureNdFlows(firewalled, v, ip, k)
  <1> DEFINE enslaved == [shown.gw[v] EXCEPT !.vrf = TRUE, !.ips = @ \cup {ip}]
  <1> DEFINE up == [shown EXCEPT !.gw[v].vrf = TRUE, !.gw[v].ips = @ \cup {ip}]
  <1> DEFINE previous == s.ports[n]
  <1> DEFINE moved == IF previous \in {None, v} THEN up ELSE DeleteGatewayPorts(up, {previous}, k)
  <1> DEFINE all == [moved EXCEPT !.ports[n] = v]
  <1>a. t = CASE k = "device" -> made [] k = "enslave" -> shown [] OTHER -> all
    BY DEF EnsureGatewayPort
  <1> HIDE DEF all
  <1>0. s.gw \in Gateways /\ previous \in Vlans \cup {None}
    BY DEF Bridge
  <1>1. /\ made \in Bridge /\ made.gw[v] \in Gateway /\ Apart(made.gw) /\ FlowsKeep(s, made)
        /\ \A w \in Vlans \ {v} : made.gw[w] = s.gw[w]
    <2>1. CASE s.gw[v] # None
      BY <1>0, <2>1 DEF FlowsKeep, Gateways
    <2>2. CASE s.gw[v] = None
      <3>1. made = [s EXCEPT !.gw[v] = born] /\ born \in Gateway /\ born.of = Ofport(s)
        BY <1>0, <2>2, OfportFree DEF Gateway
      <3> HIDE DEF made, born
      <3>2. SetsGateway(s, v, born, made)
        BY <2>2, <3>1, GatewaySet
      <3> USE <3>2 DEF SetsGateway
      <3>3. Apart(made.gw)
        BY <1>0, <3>1, <3>2, OfportFree DEF Apart
      <3> QED  BY <3>1, <3>2, <3>3
    <2> QED  BY <2>1, <2>2
  <1> HIDE DEF made
  <1>2. /\ firewalled \in Bridge /\ firewalled.gw = made.gw
        /\ k # "flow" => FlowsKeep(made, firewalled)
    BY <1>1, EnsureFlowsKeeps
  <1> HIDE DEF firewalled
  <1>3. shown \in Bridge /\ shown.gw = made.gw /\ (k # "flow" => FlowsKeep(firewalled, shown))
    BY <1>2, EnsureNdFlowsKeeps
  <1> HIDE DEF shown
  <1>4. /\ up \in Bridge /\ FlowsKeep(shown, up) /\ up.gw[v] = enslaved /\ enslaved.of = made.gw[v].of
        /\ \A w \in Vlans \ {v} : up.gw[w] = made.gw[w]
    <2>1. enslaved \in Gateway /\ enslaved.of = shown.gw[v].of
      BY <1>1, <1>3 DEF Gateway
    <2>2. up = [shown EXCEPT !.gw[v] = enslaved]
      BY <1>3 DEF Bridge, Gateways
    <2> HIDE DEF enslaved, up
    <2>3. SetsGateway(shown, v, enslaved, up)
      BY <1>3, <2>1, <2>2, GatewaySet
    <2> QED  BY <1>3, <2>1, <2>3 DEF SetsGateway
  <1> HIDE DEF up, enslaved
  <1>5. Apart(up.gw)
    <2>1. made.gw[v] # None
      BY <1>1, NoneAssumption
    <2> QED  BY <1>1, <1>4, <2>1 DEF Apart
  <1>6. /\ moved \in Bridge /\ (k # "flow" => FlowsKeep(up, moved))
        /\ \A w \in Vlans : moved.gw[w] \in {up.gw[w], None}
    <2>1. CASE previous \in {None, v}
      BY <1>4, <2>1 DEF FlowsKeep
    <2>2. CASE previous \notin {None, v}
      <3>1. {previous} \in SUBSET Vlans /\ moved = DeleteGatewayPorts(up, {previous}, k)
        BY <1>0, <2>2
      <3> HIDE DEF moved, previous
      <3>2. Shrinks(up, {previous}, k, moved)
        BY <1>4, <3>1, DeletePortsKeeps
      <3> QED  BY <3>2 DEF Shrinks
    <2> QED  BY <2>1, <2>2
  <1>7. Apart(moved.gw)
    <2> HIDE DEF moved
    <2> SUFFICES ASSUME NEW vm \in Vms, NEW w \in Vlans, tap[vm] # None, moved.gw[w] # None
                 PROVE  tap[vm].of # moved.gw[w].of
      BY DEF Apart
    <2>1. moved.gw[w] = up.gw[w]
      BY <1>6
    <2> QED  BY <1>5, <2>1 DEF Apart
  <1> HIDE DEF moved
  <1>9. all \in Bridge /\ all.gw = moved.gw /\ FlowsKeep(moved, all)
    BY <1>6 DEF all, Bridge, FlowsKeep, Recorded, Backed
  <1>10. t \in Bridge /\ Apart(t.gw)
    BY <1>1, <1>3, <1>7, <1>a, <1>9
  <1>11. \A w \in Vlans \ {v} : t.gw[w] \in {s.gw[w], None}
    BY <1>1, <1>3, <1>4, <1>6, <1>a, <1>9
  <1>12. k # "flow" => FlowsKeep(s, t)
    BY <1>1, <1>2, <1>3, <1>4, <1>6, <1>a, <1>9 DEF FlowsKeep
  <1> QED  BY <1>10, <1>11, <1>12

\* What a handler removes before it makes anything.
LEMMA ReconcileKeeps ==
    ASSUME NEW s \in Bridge, NEW wanted, NEW k, NEW t, t = Reconcile(s, wanted, k)
    PROVE  /\ t \in Bridge /\ \A v \in Vlans : t.gw[v] \in {s.gw[v], None}
           /\ k \notin {"delete", "list"} => \A v \in Vlans \ wanted : t.gw[v] = None
           /\ k # "flow" => FlowsKeep(s, t)
  <1> DEFINE leftover == BridgeGatewayPorts(s, k) \ wanted
  <1> DEFINE r == DeleteGatewayPorts(s, leftover, k)
  <1>1. leftover \in SUBSET Vlans
    BY DEF BridgeGatewayPorts
  <1>2. /\ r \in Bridge /\ r.ports = s.ports /\ (k # "flow" => FlowsKeep(s, r))
        /\ \A v \in Vlans : r.gw[v] \in {s.gw[v], None}
        /\ k # "delete" => \A v \in leftover : r.gw[v] = None
    <2>1. Shrinks(s, leftover, k, r)
      BY <1>1, DeletePortsKeeps
    <2> HIDE DEF leftover, r
    <2> QED  BY <2>1 DEF Shrinks
  <1>3. t = [r EXCEPT !.ports = [n \in Networks |-> IF @[n] \in leftover THEN None ELSE @[n]]]
    BY DEF Reconcile
  <1>4. k # "list" => \A v \in Vlans \ wanted : v \in leftover \/ s.gw[v] = None
    BY DEF BridgeGatewayPorts
  <1> HIDE DEF r, leftover
  <1>5. t \in Bridge /\ t.gw = r.gw /\ FlowsKeep(r, t)
    BY <1>2, <1>3 DEF Bridge, FlowsKeep, Recorded, Backed
  <1>6. k \notin {"delete", "list"} => \A v \in Vlans \ wanted : t.gw[v] = None
    BY <1>2, <1>4, <1>5
  <1> QED  BY <1>2, <1>5, <1>6 DEF FlowsKeep

LEMMA DeleteDomainKeeps ==
    ASSUME NEW s \in Bridge, NEW k, NEW t, t = DeleteDomain(s, k)
    PROVE  /\ t \in Bridge /\ \A v \in Vlans : t.gw[v] \in {s.gw[v], None}
           /\ k # "flow" => FlowsKeep(s, t)
  <1> DEFINE all == BridgeGatewayPorts(s, k) \cup ({s.ports[n] : n \in Networks} \ {None})
  <1> DEFINE r == DeleteGatewayPorts(s, all, k)
  <1>1. all \in SUBSET Vlans
    BY DEF BridgeGatewayPorts, Bridge
  <1>2. /\ r \in Bridge /\ (k # "flow" => FlowsKeep(s, r))
        /\ \A v \in Vlans : r.gw[v] \in {s.gw[v], None}
    <2>1. Shrinks(s, all, k, r)
      BY <1>1, DeletePortsKeeps
    <2> HIDE DEF all, r
    <2> QED  BY <2>1 DEF Shrinks
  <1>3. t = [r EXCEPT !.ports = [n \in Networks |-> None]]
    BY DEF DeleteDomain
  <1> HIDE DEF r, all
  <1>4. t \in Bridge /\ t.gw = r.gw /\ FlowsKeep(r, t)
    BY <1>2, <1>3 DEF Bridge, FlowsKeep, Recorded, Backed
  <1> QED  BY <1>2, <1>4 DEF FlowsKeep
-----------------------------------------------------------------------------
(* The inductive invariant.                                                 *)

\* The VLAN a network has, or gets back: no other network has it, and every tag
\* is its network's.
Slot(n) == IF lvm[n] # None THEN lvm[n] ELSE hint[n]
Tagged(vm, v) == tap[vm] # None /\ tap[vm].vlan = v
OwnVlans ==
    /\ \A m, n \in Networks : Slot(m) = Slot(n) /\ m # n => Slot(m) = None
    /\ \A n \in Networks : hint[n] # None => lvm[n] = None
    /\ \A vm \in Vms, v \in Vlans : Tagged(vm, v) =>
           Slot(NetOf[vm]) = v /\ (stage[vm] # "none" => lvm[NetOf[vm]] = v)

\* The handler, and the port it is for.
Job ==
    [kind : {"idle", "port", "gone", "activate", "update", "sync"}, step : {"idle", "clean", "ensure"},
     vm : Vms \cup {None}, present : [Networks -> SUBSET Vlans] \cup {None},
     vlans : [Networks -> Vlans \cup {None}] \cup {None}, to : SUBSET Networks, flaw : BOOLEAN]
JobOK ==
    /\ job \in Job
    /\ (job.kind = "idle" <=> job.step = "idle") /\ (job.kind = "idle" => job = Idle)
    /\ job.to \subseteq DOMAIN payload
    /\ job.step # "ensure" => job.to = {}
    /\ \A n \in job.to : job.vlans \in [Networks -> Vlans \cup {None}] /\ job.vlans[n] # None
    /\ job.step = "clean" /\ job.present = None => "ovsdb" \in scars
    /\ job.kind \in {"update", "sync"} => job.vm = None
    /\ job.kind \in {"port", "activate"} => job.vm \in Vms /\ stage[job.vm] = "bound"
    /\ job.kind = "gone" => job.vm \in Vms /\ stage[job.vm] = "handled"

\* A network's VLAN is given back only after its ports have left, and while no
\* port that is there still waits to be bound anew.
GoneAreGone ==
    /\ \A vm \in Vms : stage[vm] = "unbinding" => tap[vm] = None
    /\ job.kind = "gone" => tap[job.vm] = None
    /\ job.kind = "gone" \/ (\E vm \in Vms : stage[vm] = "unbinding") =>
           \A o \in Vms, v \in Vlans : Tagged(o, v) => stage[o] # "none"

FlowsGood(marks, s) == "flow" \notin marks => Recorded(s) /\ ("ofport" \notin marks => Backed(s))
FlowsKept == FlowsGood(scars, Now)

\* A port that is handled, or is being: what the handler has read gives its VLAN
\* to no other network, and once it has been cleaned for, no gateway is on it
\* unless its network is the domain's.
Treated(vm) == stage[vm] = "handled" \/ (job.kind \in {"port", "activate"} /\ job.vm = vm)
Covered(vm) ==
    \/ stage[vm] = "handled"
    \/ job.vm = vm /\ (job.kind = "activate" \/ (job.kind = "port" /\ job.step = "ensure"))
OwnReads ==
    \A vm \in Vms, v \in Vlans, m \in Networks : Treated(vm) /\ Tagged(vm, v) /\ m # NetOf[vm] =>
        /\ job.step = "clean" /\ job.present # None => v \notin job.present[m]
        /\ m \in job.to => job.vlans[m] # v
NoStrangers ==
    dom = "programmed" /\ scars \cap {"ovsdb", "delete", "list"} = {} =>
        \A vm \in Vms, v \in Vlans :
            Covered(vm) /\ Tagged(vm, v) /\ NetOf[vm] \notin DOMAIN payload => gw[v] = None

IInv == Typed /\ OwnVlans /\ JobOK /\ GoneAreGone /\ FlowsKept /\ OwnReads /\ NoStrangers

-----------------------------------------------------------------------------
(* What a step leaves alone.                                                *)

LEMMA OwnVlansFrame == OwnVlans /\ UNCHANGED ovs => OwnVlans'
  BY DEF OwnVlans, ovs, Slot, Tagged

LEMMA NowBecomes ==
    ASSUME NEW t \in Bridge, Becomes(t)
    PROVE  Now' = t
  BY DEF Becomes, Now, Bridge

LEMMA FlowsFrame ==
    ASSUME FlowsKept, scars \subseteq scars', Typed,
           "flow" \notin scars' => FlowsKeep(Now, Now')
    PROVE  FlowsKept'
  <1>1. FlowsGood(scars, Now)
    BY DEF FlowsKept
  <1>2. FlowsGood(scars', Now')
    BY <1>1 DEF FlowsGood, FlowsKeep
  <1> QED  BY <1>2 DEF FlowsKept

LEMMA FlowsStutter ==
    ASSUME FlowsKept, scars \subseteq scars', Typed, Now' = Now
    PROVE  FlowsKept'
  <1>1. FlowsKeep(Now, Now')
    BY DEF FlowsKeep
  <1> QED  BY <1>1, FlowsFrame

LEMMA GoneFrame ==
    ASSUME GoneAreGone, UNCHANGED <<tap, stage>>,
           job'.kind = "gone" => job.kind = "gone" /\ job'.vm = job.vm
    PROVE  GoneAreGone'
  BY DEF GoneAreGone, Tagged

LEMMA StrangersFrame ==
    ASSUME NoStrangers, scars \subseteq scars', UNCHANGED <<tap, stage, payload, dom>>,
           \A v \in Vlans : gw'[v] \in {gw[v], None},
           \A vm \in Vms : Covered(vm)' => Covered(vm)
    PROVE  NoStrangers'
  <1>1. scars' \cap {"ovsdb", "delete", "list"} = {} => scars \cap {"ovsdb", "delete", "list"} = {}
    OBVIOUS
  <1>2. \A vm \in Vms, v \in Vlans : Tagged(vm, v)' <=> Tagged(vm, v)
    BY DEF Tagged
  <1> HIDE DEF Covered
  <1> QED  BY <1>1, <1>2 DEF NoStrangers

LEMMA FaultMarks == ASSUME NEW k, Fault(k), Typed
                    PROVE  scars \subseteq scars' /\ faults' \in 0..MaxFaults /\ (k # "ok" => k \in scars')
  BY GatewayPortsAssumption DEF Fault, Typed

LEMMA GatewayInit == Init => IInv
  <1> SUFFICES ASSUME Init PROVE IInv
    OBVIOUS
  <1> USE GatewayPortsAssumption DEF Init
  <1>1. Typed
    <2>1. Table(wish) /\ Table(payload)
      BY DEF Table, Nothing
    <2>2. Now \in Bridge
      BY DEF Now, Bridge, Gateways
    <2>3. dom = "unknown" /\ DOMAIN payload = {}
      BY DEF Nothing
    <2> QED  BY <2>1, <2>2, <2>3 DEF Typed, Apart, Stages
  <1>2. OwnVlans
    BY DEF OwnVlans, Slot, Tagged
  <1>3. JobOK
    BY DEF JobOK, Job, Idle
  <1>4. GoneAreGone
    BY DEF GoneAreGone, Idle
  <1>5. FlowsKept
    BY DEF FlowsKept, FlowsGood, Now, Recorded, Backed, NdFlow
  <1>6. OwnReads /\ NoStrangers
    BY DEF OwnReads, NoStrangers, Tagged
  <1> QED  BY <1>1, <1>2, <1>3, <1>4, <1>5, <1>6 DEF IInv

-----------------------------------------------------------------------------
(* The VMs and the OVS agent.                                               *)

LEMMA PlugStep ==
    ASSUME IInv, NEW vm \in Vms, Plug(vm)
    PROVE  IInv'
  <1> USE GatewayPortsAssumption, NoneAssumption DEF IInv, Plug, extension, bridge
  <1> DEFINE new == [of |-> Ofport(Now), vlan |-> None]
  <1>1. new \in Port /\ Now.gw = gw /\ \A v \in Vlans : gw[v] # None => gw[v].of # new.of
    BY OfportFree DEF Typed, Bridge, Now, Port
  <1>2. tap' = [tap EXCEPT ![vm] = new] /\ tap[vm] = None /\ new.vlan = None
    OBVIOUS
  <1> HIDE DEF new
  <1>3. Now' = Now
    BY DEF Now
  <1>4. Typed'
    <2>1. Apart(gw)'
      BY <1>1, <1>2 DEF Typed, Apart
    <2>2. Table(wish)' /\ Table(payload)'
      BY DEF Typed
    <2> QED  BY <1>1, <1>2, <1>3, <2>1, <2>2 DEF Typed, Op
  <1>5. \A o \in Vms, v \in Vlans : Tagged(o, v)' => Tagged(o, v)
    BY <1>2 DEF Typed, Tagged
  <1>6. OwnVlans'
    BY <1>5 DEF OwnVlans, Slot
  <1>7. JobOK'
    BY DEF JobOK
  <1>8. GoneAreGone'
    BY <1>2, <1>5 DEF GoneAreGone, JobOK, Typed
  <1>9. FlowsKept'
    BY <1>3, FlowsStutter
  <1>10. OwnReads' /\ NoStrangers'
    BY <1>5 DEF OwnReads, NoStrangers, Treated, Covered
  <1> QED  BY <1>4, <1>6, <1>7, <1>8, <1>9, <1>10

LEMMA UnplugStep ==
    ASSUME IInv, NEW vm \in Vms, Unplug(vm)
    PROVE  IInv'
  <1> USE GatewayPortsAssumption, NoneAssumption DEF IInv, Unplug, extension, bridge
  <1>1. Now' = Now
    BY DEF Now
  <1>2. Typed'
    <2>1. Apart(gw)'
      BY DEF Typed, Apart
    <2>2. Table(wish)' /\ Table(payload)'
      BY DEF Typed
    <2> QED  BY <1>1, <2>1, <2>2 DEF Typed, Op
  <1>3. \A o \in Vms, v \in Vlans : Tagged(o, v)' => Tagged(o, v)
    BY DEF Typed, Tagged
  <1>4. OwnVlans'
    BY <1>3 DEF OwnVlans, Slot
  <1>5. JobOK'
    BY DEF JobOK
  <1>6. GoneAreGone'
    BY <1>3 DEF GoneAreGone, JobOK, Typed
  <1>7. FlowsKept'
    BY <1>1, FlowsStutter
  <1>8. OwnReads' /\ NoStrangers'
    BY <1>3 DEF OwnReads, NoStrangers, Treated, Covered
  <1> QED  BY <1>2, <1>4, <1>5, <1>6, <1>7, <1>8

LEMMA PortBoundStep ==
    ASSUME IInv, NEW vm \in Vms, PortBound(vm)
    PROVE  IInv'
  <1> USE GatewayPortsAssumption, NoneAssumption DEF IInv, PortBound, extension, bridge, Free
  <1> DEFINE n == NetOf[vm]
  <1>0. n \in Networks /\ tap[vm] \in Port
    BY DEF Typed
  <1>1. PICK v \in IF lvm[n] # None THEN {lvm[n]} ELSE IF hint[n] # None THEN {hint[n]} ELSE Vlans \ Taken :
            lvm' = [lvm EXCEPT ![n] = v] /\ tap' = [tap EXCEPT ![vm].vlan = v]
    OBVIOUS
  <1>2. hint' = [hint EXCEPT ![n] = None] /\ stage' = [stage EXCEPT ![vm] = "bound"]
    OBVIOUS
  <1>3. v \in Vlans /\ (Slot(n) # None => v = Slot(n))
        /\ \A m \in Networks \ {n} : Slot(m) # v
    <2>1. v \in Vlans /\ (Slot(n) # None => v = Slot(n))
      BY <1>0, <1>1 DEF Typed, Slot
    <2>2. CASE Slot(n) # None
      BY <1>0, <2>1, <2>2 DEF OwnVlans
    <2>3. CASE Slot(n) = None
      <3>1. v \notin Taken
        BY <1>0, <1>1, <2>3 DEF Slot
      <3> QED  BY <3>1 DEF Taken, Slot
    <2> QED  BY <2>1, <2>2, <2>3
  <1> HIDE DEF n
  <1>4. tap'[vm] = [tap[vm] EXCEPT !.vlan = v] /\ tap'[vm] \in Port /\ tap'[vm].of = tap[vm].of
        /\ tap'[vm].vlan = v /\ (\A o \in Vms \ {vm} : tap'[o] = tap[o])
        /\ tap' \in [Vms -> Port \cup {None}]
    BY <1>0, <1>1, <1>3 DEF Typed, Port
  <1>5. Slot(n)' = v /\ lvm'[n] = v /\ \A m \in Networks \ {n} : Slot(m)' = Slot(m) /\ lvm'[m] = lvm[m]
    BY <1>0, <1>1, <1>2, <1>3 DEF Typed, Slot
  <1>6. Now' = Now
    BY DEF Now
  <1>7. Typed'
    <2>1. Apart(gw)'
      BY <1>4 DEF Typed, Apart
    <2>2. Table(wish)' /\ Table(payload)'
      BY DEF Typed
    <2>3. lvm' \in [Networks -> Vlans \cup {None}] /\ hint' \in [Networks -> Vlans \cup {None}]
      BY <1>0, <1>1, <1>2, <1>3 DEF Typed
    <2>4. stage' \in [Vms -> Stages]
      BY <1>2 DEF Typed, Stages
    <2> QED  BY <1>4, <1>6, <2>1, <2>2, <2>3, <2>4 DEF Typed
  <1>8. \A o \in Vms \ {vm}, w \in Vlans : Tagged(o, w)' <=> Tagged(o, w)
    BY <1>4 DEF Tagged
  <1>9. OwnVlans'
    <2>1. \A k, m \in Networks : Slot(m)' = Slot(k)' /\ m # k => Slot(m)' = None
      BY <1>3, <1>5 DEF OwnVlans
    <2>2. \A m \in Networks : hint'[m] # None => lvm'[m] = None
      BY <1>2, <1>5 DEF Typed, OwnVlans
    <2>3. ASSUME NEW o \in Vms, NEW w \in Vlans, Tagged(o, w)'
          PROVE  Slot(NetOf[o])' = w /\ (stage'[o] # "none" => lvm'[NetOf[o]] = w)
      <3>1. CASE o = vm
        BY <1>4, <1>5, <2>3, <3>1 DEF Tagged, n
      <3>2. CASE o # vm
        <4>1. Tagged(o, w) /\ NetOf[o] \in Networks /\ stage'[o] = stage[o]
          BY <1>2, <1>8, <2>3, <3>2 DEF Typed
        <4>2. Slot(NetOf[o]) = w /\ (stage[o] # "none" => lvm[NetOf[o]] = w)
          BY <4>1 DEF OwnVlans
        <4> QED  BY <1>3, <1>5, <4>1, <4>2
      <3> QED  BY <3>1, <3>2
    <2> QED  BY <2>1, <2>2, <2>3 DEF OwnVlans
  <1>10. JobOK'
    BY <1>2 DEF JobOK, Typed
  <1>11. GoneAreGone'
    <2>1. \A o \in Vms : stage'[o] # "unbinding"
      BY <1>2 DEF Typed
    <2> QED  BY <2>1 DEF GoneAreGone
  <1>12. FlowsKept'
    BY <1>6, FlowsStutter
  <1>13. \A o \in Vms : (Treated(o)' => Treated(o) /\ o # vm) /\ (Covered(o)' => Covered(o) /\ o # vm)
    BY <1>2 DEF Treated, Covered, JobOK, Typed
  <1>14. OwnReads'
    BY <1>8, <1>13 DEF OwnReads
  <1>15. NoStrangers'
    BY <1>8, <1>13 DEF NoStrangers
  <1> QED  BY <1>7, <1>9, <1>10, <1>11, <1>12, <1>14, <1>15

LEMMA PortUnboundStep ==
    ASSUME IInv, NEW vm \in Vms, PortUnbound(vm)
    PROVE  IInv'
  <1> USE GatewayPortsAssumption, NoneAssumption DEF IInv, PortUnbound, extension, bridge
  <1> DEFINE n == NetOf[vm]
  <1> DEFINE others == {o \in Vms \ {vm} : NetOf[o] = n /\ stage[o] # "none"}
  <1>1. lvm' = [lvm EXCEPT ![n] = IF others = {} THEN None ELSE lvm[n]]
        /\ stage' = [stage EXCEPT ![vm] = "none"] /\ n \in Networks
    OBVIOUS
  <1>2. tap[vm] = None /\ \A o \in Vms, v \in Vlans : Tagged(o, v) => stage[o] # "none" /\ o # vm
    BY DEF GoneAreGone, Tagged
  <1>3. others = {} => \A o \in Vms, v \in Vlans : Tagged(o, v) => NetOf[o] # n
    BY <1>2
  <1> HIDE DEF n, others
  <1>4. \A m \in Networks : lvm'[m] = lvm[m] \/ (m = n /\ others = {} /\ lvm'[m] = None)
    BY <1>1 DEF Typed
  <1>5. Now' = Now
    BY DEF Now
  <1>6. Typed'
    <2>1. Apart(gw)'
      BY DEF Typed, Apart
    <2>2. Table(wish)' /\ Table(payload)'
      BY DEF Typed
    <2>3. lvm' \in [Networks -> Vlans \cup {None}]
      BY <1>1 DEF Typed
    <2>4. stage' \in [Vms -> Stages]
      BY <1>1 DEF Typed, Stages
    <2> QED  BY <1>5, <2>1, <2>2, <2>3, <2>4 DEF Typed
  <1>7. \A o \in Vms, v \in Vlans : Tagged(o, v)' <=> Tagged(o, v)
    BY DEF Tagged
  <1>8. OwnVlans'
    <2>1. \A m \in Networks : Slot(m)' = Slot(m) \/ (m = n /\ others = {} /\ Slot(m)' = None)
      BY <1>4 DEF Slot, OwnVlans
    <2>2. \A k, m \in Networks : Slot(m)' = Slot(k)' /\ m # k => Slot(m)' = None
      BY <2>1 DEF OwnVlans
    <2>3. \A m \in Networks : hint'[m] # None => lvm'[m] = None
      BY <1>4 DEF OwnVlans
    <2>4. ASSUME NEW o \in Vms, NEW w \in Vlans, Tagged(o, w)'
          PROVE  Slot(NetOf[o])' = w /\ (stage'[o] # "none" => lvm'[NetOf[o]] = w)
      <3>1. Tagged(o, w) /\ o # vm /\ NetOf[o] \in Networks /\ stage'[o] = stage[o]
        BY <1>1, <1>2, <1>7, <2>4 DEF Typed
      <3>2. Slot(NetOf[o]) = w /\ (stage[o] # "none" => lvm[NetOf[o]] = w)
        BY <3>1 DEF OwnVlans
      <3> QED  BY <1>3, <1>4, <2>1, <3>1, <3>2
    <2> QED  BY <2>2, <2>3, <2>4 DEF OwnVlans
  <1>9. JobOK'
    BY <1>1 DEF JobOK, Typed
  <1>10. GoneAreGone'
    BY <1>1, <1>2, <1>7 DEF GoneAreGone, Typed
  <1>11. FlowsKept'
    BY <1>5, FlowsStutter
  <1>12. \A o \in Vms : (Treated(o)' => Treated(o)) /\ (Covered(o)' => Covered(o))
    BY <1>1 DEF Treated, Covered, Typed
  <1>13. OwnReads' /\ NoStrangers'
    BY <1>7, <1>12 DEF OwnReads, NoStrangers
  <1> QED  BY <1>6, <1>8, <1>9, <1>10, <1>11, <1>13

LEMMA CleanupStaleFlowsStep ==
    ASSUME IInv, CleanupStaleFlows
    PROVE  IInv'
  <1> USE DEF IInv, CleanupStaleFlows
  <1>1. /\ Now'.fw = {f \in Now.fw : f.mine} /\ Now'.nd = {f \in Now.nd : f.mine}
        /\ Now'.gw = Now.gw /\ Now'.flows = Now.flows /\ Now'.nds = Now.nds
        /\ Now' \in Bridge
    BY DEF Now, Typed, Bridge
  <1>2. FlowsKeep(Now, Now')
    BY <1>1 DEF FlowsKeep, Recorded, Backed
  <1>3. Typed'
    <2>1. Apart(gw)'
      BY DEF Typed, Apart, ovs
    <2>2. Table(wish)' /\ Table(payload)'
      BY DEF Typed
    <2> QED  BY <1>1, <2>1, <2>2 DEF Typed, ovs
  <1>4. OwnVlans'
    BY OwnVlansFrame
  <1>5. JobOK' /\ GoneAreGone' /\ OwnReads' /\ NoStrangers'
    BY DEF JobOK, GoneAreGone, OwnReads, NoStrangers, Treated, Covered, Tagged, ovs
  <1>6. FlowsKept'
    BY <1>2, FlowsFrame
  <1> QED  BY <1>3, <1>4, <1>5, <1>6

-----------------------------------------------------------------------------
(* The handlers.                                                            *)

\* br-int's ports, as a handler reads them: a network's only VLAN is its own.
LEMMA PresentOwn ==
    ASSUME Typed, OwnVlans
    PROVE  /\ Present \in [Networks -> SUBSET Vlans]
           /\ \A n \in Networks : \A v \in Present[n] : Slot(n) = v
           /\ \A vm \in Vms, v \in Vlans : Tagged(vm, v) => v \in Present[NetOf[vm]]
  <1> USE GatewayPortsAssumption, NoneAssumption
  <1>1. ASSUME NEW n \in Networks, NEW v \in Present[n]
        PROVE  v \in Vlans /\ \E vm \in Vms : Tagged(vm, v) /\ NetOf[vm] = n
    <2>1. v # None /\ \E vm \in Vms : tap[vm] # None /\ NetOf[vm] = n /\ v = tap[vm].vlan
      BY <1>1 DEF Present
    <2> QED  BY <2>1 DEF Typed, Port, Tagged
  <1>2. Present \in [Networks -> SUBSET Vlans]
    <2>1. \A n \in Networks : Present[n] \in SUBSET Vlans
      BY <1>1
    <2>2. Present = [n \in Networks |-> Present[n]]
      BY DEF Present
    <2> QED  BY <2>1, <2>2
  <1>3. \A n \in Networks : \A v \in Present[n] : Slot(n) = v
    BY <1>1 DEF OwnVlans
  <1>4. ASSUME NEW vm \in Vms, NEW v \in Vlans, Tagged(vm, v) PROVE v \in Present[NetOf[vm]]
    BY <1>4 DEF Present, Tagged
  <1> QED  BY <1>2, <1>3, <1>4

\* What a handler reads now gives no network the VLAN of another's port.
LEMMA PresentApart ==
    ASSUME Typed, OwnVlans, NEW vm \in Vms, NEW v \in Vlans, Tagged(vm, v),
           NEW m \in Networks, m # NetOf[vm]
    PROVE  v \notin Present[m] /\ (stage[vm] # "none" => lvm[m] # v)
  <1> USE GatewayPortsAssumption
  <1>1. Slot(NetOf[vm]) = v /\ NetOf[vm] \in Networks /\ v # None
    BY DEF OwnVlans
  <1>2. Slot(m) # v
    BY <1>1 DEF OwnVlans
  <1>3. v \notin Present[m]
    BY <1>2, PresentOwn
  <1>4. lvm[m] # v
    BY <1>1, <1>2 DEF Slot
  <1> QED  BY <1>3, <1>4

LEMMA BeginStep ==
    ASSUME IInv, NEW kind \in {"port", "gone", "update", "sync"}, NEW vm, Begin(kind, vm),
           kind = "port" => vm \in Vms /\ stage[vm] = "bound",
           kind = "gone" => /\ vm \in Vms /\ stage[vm] = "handled" /\ tap[vm] = None
                            /\ \A o \in Vms, v \in Vlans : Tagged(o, v) => stage[o] # "none",
           kind \in {"update", "sync"} => vm = None
    PROVE  IInv'
  <1> USE DEF IInv
  <1>1. PICK k \in {"ok", "ovsdb"} :
            /\ Fault(k)
            /\ job' = [Idle EXCEPT !.kind = kind, !.step = "clean", !.vm = vm, !.flaw = k # "ok",
                                   !.present = IF k = "ovsdb" THEN None ELSE Present]
    BY DEF Begin
  <1>2. job = Idle /\ UNCHANGED <<wish, bridge, ovs, dom, payload, ops>>
    BY DEF Begin
  <1>3. /\ job'.kind = kind /\ job'.step = "clean" /\ job'.vm = vm /\ job'.to = {}
        /\ job'.present = (IF k = "ovsdb" THEN None ELSE Present) /\ job' \in Job
    BY <1>1, PresentOwn, GatewayPortsAssumption DEF Idle, Job
  <1>4. scars \subseteq scars' /\ faults' \in 0..MaxFaults /\ (k # "ok" => k \in scars')
    BY <1>1, FaultMarks
  <1> HIDE DEF Present
  <1>5. Now' = Now /\ UNCHANGED <<gw, tap, stage, dom, payload>>
    BY <1>2 DEF Now, bridge, ovs
  <1>6. Typed'
    <2>1. Apart(gw)'
      BY <1>2 DEF Typed, Apart, ovs, bridge
    <2>2. Table(wish)' /\ Table(payload)'
      BY <1>2 DEF Typed
    <2> QED  BY <1>2, <1>4, <1>5, <2>1, <2>2 DEF Typed, ovs
  <1>7. OwnVlans'
    BY <1>2, OwnVlansFrame
  <1>8. JobOK'
    <2>1. Present # None
      BY PresentOwn, NoneAssumption
    <2> QED  BY <1>3, <1>4, <1>5, <2>1 DEF JobOK, Job
  <1>9. GoneAreGone'
    BY <1>3, <1>5 DEF GoneAreGone, Tagged
  <1>10. FlowsKept'
    BY <1>4, <1>5, FlowsStutter
  <1>11. OwnReads'
    <2> SUFFICES ASSUME NEW o \in Vms, NEW v \in Vlans, NEW m \in Networks,
                        Tagged(o, v)', m # NetOf[o], job'.present # None
                 PROVE  v \notin job'.present[m]
      BY <1>3 DEF OwnReads
    <2>1. Tagged(o, v)
      BY <1>5 DEF Tagged
    <2>2. v \notin Present[m]
      BY <2>1, PresentApart
    <2> QED  BY <1>3, <2>2
  <1>12. NoStrangers'
    <2>1. \A o \in Vms : Covered(o)' => Covered(o)
      BY <1>3, <1>5 DEF Covered
    <2> QED  BY <1>4, <1>5, <2>1, StrangersFrame
  <1> QED  BY <1>6, <1>7, <1>8, <1>9, <1>10, <1>11, <1>12

LEMMA HandlePortStep == ASSUME IInv, NEW vm \in Vms, HandlePort(vm) PROVE IInv'
  BY BeginStep DEF HandlePort

LEMMA DeletePortStep ==
    ASSUME IInv, NEW vm \in Vms, DeletePort(vm)
    PROVE  IInv'
  <1>1. \A o \in Vms, v \in Vlans : Tagged(o, v) => stage[o] # "none"
    BY GatewayPortsAssumption DEF DeletePort, Tagged
  <1>2. Begin("gone", vm) /\ stage[vm] = "handled" /\ tap[vm] = None
    BY DEF DeletePort
  <1> QED  BY <1>1, <1>2, BeginStep

LEMMA SyncStep == ASSUME IInv, DomainUpdated \/ Sync PROVE IInv'
  BY BeginStep DEF DomainUpdated, Sync

LEMMA SyncFailsStep ==
    ASSUME IInv, SyncFails
    PROVE  IInv'
  <1> USE DEF IInv, SyncFails
  <1>1. /\ job' \in Job /\ job'.kind = job.kind /\ job'.step = "ensure" /\ job'.vm = job.vm /\ job'.to = {}
    BY DEF JobOK, Job
  <1>2. scars \subseteq scars' /\ faults' \in 0..MaxFaults /\ "rpc" \in scars'
    BY FaultMarks
  <1>3. Now' = Now /\ UNCHANGED <<gw, tap, stage, dom, payload>>
    BY DEF Now, bridge, ovs
  <1>4. Typed'
    <2>1. Apart(gw)'
      BY DEF Typed, Apart, ovs, bridge
    <2>2. Table(wish)' /\ Table(payload)'
      BY DEF Typed
    <2> QED  BY <1>2, <1>3, <2>1, <2>2 DEF Typed, ovs
  <1>5. OwnVlans'
    BY OwnVlansFrame
  <1>6. JobOK'
    BY <1>1, <1>2, <1>3 DEF JobOK
  <1>7. GoneAreGone'
    BY <1>1, <1>3, GoneFrame
  <1>8. FlowsKept'
    BY <1>2, <1>3, FlowsStutter
  <1>9. OwnReads'
    BY <1>1, <1>3 DEF OwnReads, Treated, Tagged
  <1>10. NoStrangers'
    <2>1. \A o \in Vms : Covered(o)' => Covered(o)
      BY <1>1, <1>3 DEF Covered
    <2> QED  BY <1>2, <1>3, <2>1, StrangersFrame
  <1> QED  BY <1>4, <1>5, <1>6, <1>7, <1>8, <1>9, <1>10

LEMMA DoneStep ==
    ASSUME IInv, Done
    PROVE  IInv'
  <1> USE DEF IInv, Done
  <1>1. job' = Idle /\ Idle \in Job
    BY DEF Idle, Job
  <1>2. /\ job'.kind = "idle" /\ job'.step = "idle" /\ job'.to = {} /\ Now' = Now
        /\ UNCHANGED <<gw, tap, lvm, hint, dom, payload, scars>>
    BY DEF Now, bridge, Idle
  <1>3. job.vm = None \/ job.vm \in Vms
    BY DEF JobOK, Job
  <1>4. /\ job.kind \in {"port", "activate"} => job.vm \in Vms /\ stage[job.vm] = "bound"
                                               /\ stage' = [stage EXCEPT ![job.vm] = "handled"]
        /\ job.kind = "gone" => job.vm \in Vms /\ stage[job.vm] = "handled"
                                /\ stage' = [stage EXCEPT ![job.vm] = "unbinding"] /\ tap[job.vm] = None
        /\ job.kind \in {"update", "sync"} => stage' = stage
        /\ job.kind \in {"port", "activate", "gone", "update", "sync"}
    BY <1>3, GatewayPortsAssumption DEF JobOK, Job, GoneAreGone
  <1>5. stage' \in [Vms -> Stages] /\ \A vm \in Vms : stage'[vm] # "none" <=> stage[vm] # "none"
    BY <1>4 DEF Typed, Stages
  <1>6. Typed'
    <2>1. Apart(gw)'
      BY <1>2 DEF Typed, Apart
    <2>2. Table(wish)' /\ Table(payload)'
      BY DEF Typed
    <2> QED  BY <1>2, <1>5, <2>1, <2>2 DEF Typed
  <1>7. OwnVlans'
    BY <1>2, <1>5 DEF OwnVlans, Slot, Tagged
  <1>8. JobOK'
    BY <1>1, <1>2 DEF JobOK
  <1>9. GoneAreGone'
    <2>1. \A vm \in Vms : stage'[vm] = "unbinding" => tap[vm] = None /\ (stage[vm] = "unbinding" \/ job.kind = "gone")
      BY <1>4 DEF Typed, GoneAreGone
    <2>2. \A vm \in Vms, v \in Vlans : Tagged(vm, v)' <=> Tagged(vm, v)
      BY <1>2 DEF Tagged
    <2> QED  BY <1>2, <1>5, <2>1, <2>2 DEF GoneAreGone
  <1>10. FlowsKept'
    BY <1>2, FlowsStutter
  <1>11. OwnReads'
    BY <1>2 DEF OwnReads
  <1>12. NoStrangers'
    <2>1. \A vm \in Vms : Covered(vm)' => Covered(vm)
      BY <1>2, <1>4 DEF Covered, Typed
    <2>2. \A vm \in Vms, v \in Vlans : Tagged(vm, v)' <=> Tagged(vm, v)
      BY <1>2 DEF Tagged
    <2> QED  BY <1>2, <2>1, <2>2 DEF NoStrangers
  <1> QED  BY <1>6, <1>7, <1>8, <1>9, <1>10, <1>11, <1>12

\* The bridge becomes t, which lost ports only, when k went wrong.
Clears(t, k) ==
    /\ t \in Bridge /\ \A v \in Vlans : t.gw[v] \in {gw[v], None}
    /\ k # "flow" => FlowsKeep(Now, t)

LEMMA CleanedKeeps ==
    ASSUME Typed, NEW p, NEW k
    PROVE  /\ Clears(Cleaned(p, k), k)
           /\ job.present # None /\ k \notin {"delete", "list"} =>
                  \A v \in Vlans \ WantedVlans(p) : Cleaned(p, k).gw[v] = None
  <1> DEFINE t == Cleaned(p, k)
  <1>1. Now \in Bridge /\ Now.gw = gw
    BY DEF Typed, Now
  <1>2. CASE job.present = None
    <2>1. t = Now
      BY <1>2 DEF Cleaned
    <2> QED  BY <1>1, <1>2, <2>1 DEF Clears, FlowsKeep
  <1>3. CASE job.present # None
    <2>1. t = Reconcile(Now, WantedVlans(p), k)
      BY <1>3 DEF Cleaned
    <2> HIDE DEF t
    <2>2. /\ t \in Bridge /\ \A v \in Vlans : t.gw[v] \in {Now.gw[v], None}
          /\ k \notin {"delete", "list"} => \A v \in Vlans \ WantedVlans(p) : t.gw[v] = None
          /\ k # "flow" => FlowsKeep(Now, t)
      BY <1>1, <2>1, ReconcileKeeps
    <2>3. Clears(t, k) /\ (k \notin {"delete", "list"} => \A v \in Vlans \ WantedVlans(p) : t.gw[v] = None)
      BY <1>1, <2>2 DEF Clears
    <2> QED  BY <2>3 DEF t
  <1> QED  BY <1>2, <1>3

LEMMA NothingClears == ASSUME Typed, NEW k PROVE Clears(Now, k)
  <1>1. Now \in Bridge /\ Now.gw = gw /\ FlowsKeep(Now, Now)
    BY DEF Typed, Now, FlowsKeep
  <1> QED  BY <1>1 DEF Clears

LEMMA DeleteDomainClears == ASSUME Typed, NEW k PROVE Clears(DeleteDomain(Now, k), k)
  <1> DEFINE t == DeleteDomain(Now, k)
  <1>1. Now \in Bridge /\ Now.gw = gw
    BY DEF Typed, Now
  <1>2. t = DeleteDomain(Now, k)
    OBVIOUS
  <1> HIDE DEF t
  <1>3. /\ t \in Bridge /\ \A v \in Vlans : t.gw[v] \in {Now.gw[v], None}
        /\ k # "flow" => FlowsKeep(Now, t)
    BY <1>1, <1>2, DeleteDomainKeeps
  <1>4. Clears(t, k)
    BY <1>1, <1>3 DEF Clears
  <1> QED  BY <1>4 DEF t

\* The bridge after a step that clears it.
LEMMA ClearsStep ==
    ASSUME Typed, FlowsKept, NEW t, NEW k, Clears(t, k), Becomes(t), scars \subseteq scars',
           k # "ok" => k \in scars', tap' = tap
    PROVE  /\ Now' \in Bridge /\ Now' = t /\ Apart(gw)' /\ FlowsKept'
           /\ \A v \in Vlans : gw'[v] \in {gw[v], None}
  <1>1. t \in Bridge
    BY DEF Clears
  <1>2. Now' = t /\ gw' = t.gw
    BY <1>1, NowBecomes DEF Becomes
  <1>3. \A v \in Vlans : gw'[v] \in {gw[v], None}
    BY <1>2 DEF Clears
  <1>4. Apart(gw)'
    BY <1>3 DEF Apart, Typed
  <1>5. FlowsKept'
    <2>1. "flow" \notin scars' => FlowsKeep(Now, Now')
      BY <1>2 DEF Clears
    <2> QED  BY <2>1, FlowsFrame
  <1> QED  BY <1>1, <1>2, <1>3, <1>4, <1>5

\* A handler's port on a VLAN that no network of p has, as the handler read.
LEMMA TreatedUnwanted ==
    ASSUME OwnReads, job.step = "clean", job.present # None, NEW vm \in Vms, NEW v \in Vlans,
           Treated(vm), Tagged(vm, v), NEW p, DOMAIN p \subseteq Networks, NetOf[vm] \notin DOMAIN p
    PROVE  v \notin WantedVlans(p)
  BY DEF OwnReads, WantedVlans

LEMMA CleanForPortStep ==
    ASSUME IInv, CleanForPort
    PROVE  IInv'
  <1> USE DEF IInv
  <1>1. PICK k \in CleanKinds :
            /\ Fault(k)
            /\ Becomes(IF dom = "programmed" THEN Cleaned(payload, k) ELSE Now)
            /\ LET n == NetOf[job.vm]
               IN  \/ /\ job.kind = "gone" \/ dom = "programmed" \/ n \notin DOMAIN payload
                      /\ Ensuring(IF job.kind = "gone" THEN {} ELSE {n} \cap Bound(payload), k)
                   \/ /\ job.kind = "port" /\ (n \notin DOMAIN payload \/ dom = "dormant")
                      /\ job' = [job EXCEPT !.kind = "activate", !.present = Present, !.flaw = @ \/ k # "ok"]
    BY DEF CleanForPort
  <1>2. job.step = "clean" /\ job.kind \in {"port", "gone"} /\ job.vm \in Vms /\ job.to = {}
        /\ UNCHANGED <<wish, ovs, dom, payload, ops>>
    BY DEF CleanForPort, JobOK
  <1> DEFINE t == IF dom = "programmed" THEN Cleaned(payload, k) ELSE Now
  <1> HIDE DEF Present
  <1>3. scars \subseteq scars' /\ faults' \in 0..MaxFaults /\ (k # "ok" => k \in scars')
    BY <1>1, FaultMarks
  <1>4. Clears(t, k)
    BY CleanedKeeps, NothingClears
  <1>5. UNCHANGED <<tap, stage, dom, payload, lvm>>
    BY <1>2 DEF ovs
  <1>6. /\ Now' \in Bridge /\ Now' = t /\ Apart(gw)' /\ FlowsKept'
        /\ \A v \in Vlans : gw'[v] \in {gw[v], None}
    <2>1. Becomes(t)
      BY <1>1
    <2> HIDE DEF t
    <2> QED  BY <1>3, <1>4, <1>5, <2>1, ClearsStep
  <1>7. \/ /\ job'.step = "ensure" /\ job'.kind = job.kind /\ job'.vm = job.vm /\ job' \in Job
           /\ job'.to \subseteq Bound(payload) /\ job'.vlans = lvm
        \/ /\ job'.step = "clean" /\ job'.kind = "activate" /\ job.kind = "port" /\ job'.vm = job.vm
           /\ job' \in Job /\ job'.present = Present /\ job'.to = {}
    <2>0. DOMAIN payload \subseteq Networks /\ Present \in [Networks -> SUBSET Vlans]
          /\ lvm \in [Networks -> Vlans \cup {None}] /\ job \in Job
      BY PresentOwn DEF Typed, Table, JobOK
    <2>1. ASSUME NEW nets \in SUBSET Bound(payload), Ensuring(nets, k)
          PROVE  /\ job'.step = "ensure" /\ job'.kind = job.kind /\ job'.vm = job.vm /\ job' \in Job
                 /\ job'.to = nets /\ job'.vlans = lvm
      <3>1. nets \in SUBSET Networks
        BY <2>0 DEF Bound
      <3> QED  BY <2>0, <2>1, <3>1 DEF Ensuring, Job
    <2>2. ASSUME job' = [job EXCEPT !.kind = "activate", !.present = Present, !.flaw = @ \/ k # "ok"]
          PROVE  /\ job'.step = "clean" /\ job'.kind = "activate" /\ job'.vm = job.vm
                 /\ job' \in Job /\ job'.present = Present /\ job'.to = {}
      BY <1>2, <2>0, <2>2 DEF Job
    <2> DEFINE nets == IF job.kind = "gone" THEN {} ELSE {NetOf[job.vm]} \cap Bound(payload)
    <2>3. nets \in SUBSET Bound(payload)
      OBVIOUS
    <2>4. Ensuring(nets, k) \/ (job.kind = "port" /\ job' = [job EXCEPT !.kind = "activate", !.present = Present, !.flaw = @ \/ k # "ok"])
      BY <1>1
    <2> HIDE DEF nets
    <2> QED  BY <2>1, <2>2, <2>3, <2>4
  <1>8. Typed'
    <2>1. Table(wish)' /\ Table(payload)'
      BY <1>2 DEF Typed
    <2> QED  BY <1>2, <1>3, <1>6, <2>1 DEF Typed, ovs
  <1>9. OwnVlans'
    BY <1>2, OwnVlansFrame
  <1>10. JobOK'
    <2>1. Present # None /\ \A n \in Bound(payload) : n \in DOMAIN payload /\ lvm[n] # None
      BY PresentOwn, NoneAssumption DEF Bound
    <2>2. lvm \in [Networks -> Vlans \cup {None}]
      BY DEF Typed
    <2> QED  BY <1>2, <1>5, <1>7, <2>1, <2>2 DEF JobOK
  <1>11. GoneAreGone'
    BY <1>5, <1>7, GoneFrame
  <1>12. \A vm \in Vms : Treated(vm)' => Treated(vm) /\ stage[vm] # "none"
    BY <1>2, <1>5, <1>7 DEF Treated, JobOK
  <1>13. OwnReads'
    <2> SUFFICES ASSUME NEW vm \in Vms, NEW v \in Vlans, NEW m \in Networks,
                        Treated(vm)', Tagged(vm, v)', m # NetOf[vm]
                 PROVE  /\ job'.step = "clean" /\ job'.present # None => v \notin job'.present[m]
                        /\ m \in job'.to => job'.vlans[m] # v
      BY DEF OwnReads
    <2>1. Tagged(vm, v)
      BY <1>5 DEF Tagged
    <2>2. v \notin Present[m] /\ lvm[m] # v
      BY <1>12, <2>1, PresentApart
    <2> QED  BY <1>7, <2>2
  <1>14. NoStrangers'
    <2> SUFFICES ASSUME dom = "programmed", scars' \cap {"ovsdb", "delete", "list"} = {},
                        NEW vm \in Vms, NEW v \in Vlans, Covered(vm)', Tagged(vm, v)',
                        NetOf[vm] \notin DOMAIN payload
                 PROVE  gw'[v] = None
      BY <1>5 DEF NoStrangers
    <2>1. Tagged(vm, v) /\ Treated(vm)
      BY <1>2, <1>5, <1>7 DEF Tagged, Covered, Treated
    <2>2. job.present # None /\ k \notin {"delete", "list"}
      BY <1>2, <1>3 DEF JobOK
    <2>3. v \notin WantedVlans(payload)
      BY <1>2, <2>1, <2>2, TreatedUnwanted DEF Typed, Table
    <2>4. Cleaned(payload, k).gw[v] = None
      BY <2>2, <2>3, CleanedKeeps
    <2> QED  BY <1>6, <2>4 DEF Now
  <1> QED  BY <1>6, <1>8, <1>9, <1>10, <1>11, <1>13, <1>14

LEMMA EnsureStep ==
    ASSUME IInv, NEW n \in Networks, Ensure(n)
    PROVE  IInv'
  <1> USE DEF IInv
  <1>1. PICK k \in {"ok", "device", "flow", "enslave", "delete"} :
            /\ Fault(k)
            /\ Becomes(EnsureGatewayPort(Now, n, job.vlans[n], payload[n], k))
            /\ job' = [job EXCEPT !.to = @ \ {n}, !.flaw = @ \/ k # "ok"]
    BY DEF Ensure
  <1>2. job.step = "ensure" /\ n \in job.to /\ UNCHANGED <<wish, ovs, dom, payload, ops>>
    BY DEF Ensure
  <1> DEFINE v == job.vlans[n]
  <1> DEFINE t == EnsureGatewayPort(Now, n, v, payload[n], k)
  <1>3. scars \subseteq scars' /\ faults' \in 0..MaxFaults /\ (k # "ok" => k \in scars')
    BY <1>1, FaultMarks
  <1>4. UNCHANGED <<tap, stage, dom, payload, lvm>>
    BY <1>2 DEF ovs
  <1>5. v \in Vlans /\ n \in DOMAIN payload /\ payload[n] \in Ips
    BY <1>2 DEF JobOK, Typed, Table, Ips
  <1>6. /\ t \in Bridge /\ Apart(t.gw)
        /\ \A w \in Vlans \ {v} : t.gw[w] \in {gw[w], None}
        /\ k # "flow" => FlowsKeep(Now, t)
    <2>1. Now \in Bridge /\ Now.gw = gw /\ Apart(gw) /\ tap \in [Vms -> Port \cup {None}]
      BY DEF Typed, Now
    <2>2. t = EnsureGatewayPort(Now, n, v, payload[n], k)
      OBVIOUS
    <2> HIDE DEF t, v
    <2>3. /\ t \in Bridge /\ Apart(t.gw)
          /\ \A w \in Vlans \ {v} : t.gw[w] \in {Now.gw[w], None}
          /\ k # "flow" => FlowsKeep(Now, t)
      BY <1>5, <2>1, <2>2, EnsureKeeps
    <2> QED  BY <2>1, <2>3
  <1>7. Becomes(t)
    BY <1>1
  <1> HIDE DEF t
  <1>8. Now' = t /\ gw' = t.gw
    BY <1>6, <1>7, NowBecomes DEF Becomes
  <1>9. /\ job' \in Job /\ job'.step = "ensure" /\ job'.kind = job.kind /\ job'.vm = job.vm
        /\ job'.to = job.to \ {n} /\ job'.vlans = job.vlans
    BY <1>1, <1>2 DEF JobOK, Job
  <1> HIDE DEF v
  <1>10. Typed'
    <2>1. Table(wish)' /\ Table(payload)'
      BY <1>2 DEF Typed
    <2>2. Apart(gw)'
      BY <1>4, <1>6, <1>8 DEF Apart
    <2> QED  BY <1>2, <1>3, <1>6, <1>8, <2>1, <2>2 DEF Typed, ovs
  <1>11. OwnVlans'
    BY <1>2, OwnVlansFrame
  <1>12. JobOK'
    BY <1>2, <1>4, <1>9 DEF JobOK
  <1>13. GoneAreGone'
    BY <1>4, <1>9, GoneFrame
  <1>14. FlowsKept'
    <2>1. "flow" \notin scars' => FlowsKeep(Now, Now')
      BY <1>3, <1>6, <1>8
    <2> QED  BY <1>3, <2>1, FlowsFrame
  <1>15. \A vm \in Vms : (Treated(vm)' <=> Treated(vm)) /\ (Covered(vm)' <=> Covered(vm))
    BY <1>2, <1>4, <1>9 DEF Treated, Covered
  <1>16. \A vm \in Vms, w \in Vlans : Tagged(vm, w)' <=> Tagged(vm, w)
    BY <1>4 DEF Tagged
  <1>17. OwnReads'
    BY <1>9, <1>15, <1>16 DEF OwnReads
  <1>18. NoStrangers'
    <2> SUFFICES ASSUME dom = "programmed", scars' \cap {"ovsdb", "delete", "list"} = {},
                        NEW vm \in Vms, NEW w \in Vlans, Covered(vm)', Tagged(vm, w)',
                        NetOf[vm] \notin DOMAIN payload
                 PROVE  gw'[w] = None
      BY <1>4 DEF NoStrangers
    <2>1. Covered(vm) /\ Tagged(vm, w) /\ Treated(vm)
      BY <1>15, <1>16 DEF Covered, Treated
    <2>2. gw[w] = None
      BY <1>3, <2>1 DEF NoStrangers
    <2>3. w # v
      BY <1>2, <1>5, <2>1 DEF OwnReads, v
    <2> QED  BY <1>6, <1>8, <2>2, <2>3
  <1> QED  BY <1>10, <1>11, <1>12, <1>13, <1>14, <1>17, <1>18

\* The next status and bridge of a domain that is applied.
LEMMA Applied ==
    ASSUME Typed, NEW k, NEW sync
    PROVE  /\ Status(wish, sync) \in {"unknown", "dormant", "programmed"}
           /\ Status(wish, sync) = "unknown" <=> DOMAIN wish = {}
  <1>1. wish = Nothing <=> DOMAIN wish = {}
    BY DEF Typed, Table, Nothing
  <1> QED  BY <1>1 DEF Status

LEMMA CleanForDomainStep ==
    ASSUME IInv, CleanForDomain
    PROVE  IInv'
  <1> USE DEF IInv
  <1> DEFINE bridgeOf(k) ==
                CASE dom' = "unknown"    -> DeleteDomain(Now, k)
                  [] dom' = "dormant"    -> IF dom = "dormant" THEN Now ELSE DeleteDomain(Now, k)
                  [] dom' = "programmed" -> Cleaned(wish, k)
  <1>1. PICK k \in CleanKinds :
            /\ Fault(k) /\ Becomes(bridgeOf(k))
            /\ Ensuring(IF dom' = "programmed" THEN Bound(wish) ELSE {}, k)
    BY DEF CleanForDomain
  <1>2. /\ job.step = "clean" /\ job.kind \in {"update", "sync", "activate"}
        /\ payload' = wish /\ dom' = Status(wish, job.kind # "update")
        /\ UNCHANGED <<wish, ovs, ops>>
    BY DEF CleanForDomain
  <1> DEFINE t == bridgeOf(k)
  <1>3. scars \subseteq scars' /\ faults' \in 0..MaxFaults /\ (k # "ok" => k \in scars')
    BY <1>1, FaultMarks
  <1>4. dom' \in {"unknown", "dormant", "programmed"} /\ (dom' = "unknown" <=> DOMAIN wish = {})
    BY <1>2, Applied
  <1>5. Clears(t, k) /\ (dom' = "programmed" => t = Cleaned(wish, k))
    BY <1>4, CleanedKeeps, NothingClears, DeleteDomainClears
  <1>6. UNCHANGED <<tap, stage, lvm, hint, wish, ops>>
    BY <1>2 DEF ovs
  <1>7. /\ Now' \in Bridge /\ Now' = t /\ Apart(gw)' /\ FlowsKept'
        /\ \A v \in Vlans : gw'[v] \in {gw[v], None}
    <2>1. Becomes(t)
      BY <1>1
    <2> HIDE DEF t
    <2> QED  BY <1>3, <1>5, <1>6, <2>1, ClearsStep
  <1>8. /\ job'.step = "ensure" /\ job'.kind = job.kind /\ job'.vm = job.vm /\ job' \in Job
        /\ job'.to \subseteq Bound(wish) /\ job'.vlans = lvm
    <2> DEFINE nets == IF dom' = "programmed" THEN Bound(wish) ELSE {}
    <2>1. nets \subseteq Bound(wish) /\ nets \in SUBSET Networks
      BY DEF Bound, Typed, Table
    <2>2. lvm \in [Networks -> Vlans \cup {None}] /\ job \in Job
      BY DEF Typed, JobOK
    <2>3. Ensuring(nets, k)
      BY <1>1
    <2> HIDE DEF nets
    <2> QED  BY <2>1, <2>2, <2>3 DEF Ensuring, Job
  <1> HIDE DEF t, bridgeOf
  <1>9. Typed'
    <2>1. Table(wish)' /\ Table(payload)'
      BY <1>2, <1>6 DEF Typed, Table
    <2> QED  BY <1>2, <1>3, <1>4, <1>6, <1>7, <2>1 DEF Typed
  <1>10. OwnVlans'
    BY <1>2, OwnVlansFrame
  <1>11. JobOK'
    <2>1. \A n \in Bound(wish) : n \in DOMAIN wish /\ lvm[n] # None
      BY DEF Bound
    <2>2. lvm \in [Networks -> Vlans \cup {None}]
      BY DEF Typed
    <2> QED  BY <1>2, <1>6, <1>8, <2>1, <2>2 DEF JobOK
  <1>12. GoneAreGone'
    BY <1>6, <1>8, GoneFrame
  <1>13. \A vm \in Vms : Treated(vm)' => Treated(vm) /\ stage[vm] # "none"
    BY <1>6, <1>8 DEF Treated, JobOK
  <1>14. OwnReads'
    <2> SUFFICES ASSUME NEW vm \in Vms, NEW v \in Vlans, NEW m \in Networks,
                        Treated(vm)', Tagged(vm, v)', m # NetOf[vm]
                 PROVE  lvm[m] # v
      BY <1>8 DEF OwnReads
    <2>1. Tagged(vm, v)
      BY <1>6 DEF Tagged
    <2> QED  BY <1>13, <2>1, PresentApart
  <1>15. NoStrangers'
    <2> SUFFICES ASSUME dom' = "programmed", scars' \cap {"ovsdb", "delete", "list"} = {},
                        NEW vm \in Vms, NEW v \in Vlans, Covered(vm)', Tagged(vm, v)',
                        NetOf[vm] \notin DOMAIN wish
                 PROVE  gw'[v] = None
      BY <1>2 DEF NoStrangers
    <2>1. Tagged(vm, v) /\ Treated(vm)
      BY <1>2, <1>6, <1>8 DEF Tagged, Covered, Treated
    <2>2. job.present # None /\ k \notin {"delete", "list"}
      BY <1>2, <1>3 DEF JobOK
    <2>3. v \notin WantedVlans(wish)
      BY <1>2, <2>1, <2>2, TreatedUnwanted DEF Typed, Table
    <2>4. Cleaned(wish, k).gw[v] = None
      BY <2>2, <2>3, CleanedKeeps
    <2> QED  BY <1>5, <1>7, <2>4 DEF Now
  <1> QED  BY <1>7, <1>9, <1>10, <1>11, <1>12, <1>14, <1>15

-----------------------------------------------------------------------------
(* The server, OVS, and restarts.                                           *)

LEMMA SetNetworksStep ==
    ASSUME IInv, NEW w, SetNetworks(w), Table(w)
    PROVE  IInv'
  <1> USE DEF IInv, SetNetworks
  <1>1. Now' = Now /\ UNCHANGED <<gw, tap, stage, lvm, hint, dom, payload, job, scars, faults>>
    BY DEF Now, bridge, ovs
  <1>2. Typed'
    <2>1. Table(wish)' /\ Table(payload)'
      BY <1>1 DEF Typed, Table
    <2>2. Apart(gw)'
      BY <1>1 DEF Typed, Apart
    <2> QED  BY <1>1, <2>1, <2>2, GatewayPortsAssumption DEF Typed, Op
  <1>3. OwnVlans'
    BY OwnVlansFrame
  <1>4. JobOK' /\ GoneAreGone' /\ OwnReads'
    BY <1>1 DEF JobOK, GoneAreGone, OwnReads, Treated, Tagged
  <1>5. FlowsKept'
    BY <1>1, FlowsStutter
  <1>6. NoStrangers'
    BY <1>1 DEF NoStrangers, Covered, Tagged
  <1> QED  BY <1>2, <1>3, <1>4, <1>5, <1>6

LEMMA ServerStep ==
    ASSUME IInv, NEW n \in Networks, Attach(n) \/ Detach(n) \/ MoveGateway(n)
    PROVE  IInv'
  <1>1. Table(wish)
    BY DEF IInv, Typed
  <1>2. CASE Attach(n)
    <2>1. PICK ip \in GatewayIps[n] :
              SetNetworks([m \in DOMAIN wish \cup {n} |-> IF m = n THEN ip ELSE wish[m]])
      BY <1>2 DEF Attach
    <2>2. Table([m \in DOMAIN wish \cup {n} |-> IF m = n THEN ip ELSE wish[m]])
      BY <1>1 DEF Table
    <2> QED  BY <2>1, <2>2, SetNetworksStep
  <1>3. CASE Detach(n)
    <2>1. Table([m \in DOMAIN wish \ {n} |-> wish[m]])
      BY <1>1 DEF Table
    <2> QED  BY <1>3, <2>1, SetNetworksStep DEF Detach
  <1>4. CASE MoveGateway(n)
    <2>1. PICK ip \in GatewayIps[n] : SetNetworks([wish EXCEPT ![n] = ip])
      BY <1>4 DEF MoveGateway
    <2>2. Table([wish EXCEPT ![n] = ip])
      BY <1>1, <1>4 DEF Table, MoveGateway
    <2> QED  BY <2>1, <2>2, SetNetworksStep
  <1> QED  BY <1>2, <1>3, <1>4

LEMMA RecreatedStep ==
    ASSUME IInv, NEW v \in Vlans, Recreated(v)
    PROVE  IInv'
  <1> USE GatewayPortsAssumption, NoneAssumption DEF IInv, Recreated
  <1>1. scars \subseteq scars' /\ faults' \in 0..MaxFaults /\ "ofport" \in scars'
    BY FaultMarks
  <1>2. Now.gw = gw /\ gw \in Gateways /\ gw[v] \in Gateway
    BY DEF Now, Typed, Bridge, Gateways
  <1> DEFINE o == Ofport(Now)
  <1>3. o \in 1..MaxOfport /\ \A vm \in Vms : tap[vm] # None => tap[vm].of # o
    BY <1>2, OfportFree DEF Typed
  <1>4. gw' = [gw EXCEPT ![v].of = o]
    OBVIOUS
  <1> HIDE DEF o
  <1>5. /\ gw' \in Gateways /\ gw'[v] # None /\ gw'[v].of = o
        /\ \A w \in Vlans \ {v} : gw'[w] = gw[w]
    <2>1. gw'[v] = [gw[v] EXCEPT !.of = o] /\ gw'[v].of = o /\ gw'[v] \in Gateway
      BY <1>2, <1>3, <1>4 DEF Gateways, Gateway
    <2>2. \A w \in Vlans \ {v} : gw'[w] = gw[w]
      BY <1>2, <1>4 DEF Gateways
    <2>3. gw' \in Gateways
      BY <1>2, <1>4, <2>1, <2>2 DEF Gateways
    <2> QED  BY <2>1, <2>2, <2>3
  <1>6. UNCHANGED <<wish, fw, nd, ports, flows, nds, tap, lvm, hint, stage, dom, payload, job, ops>>
    BY DEF ovs
  <1>7. /\ Now' \in Bridge
        /\ Now'.fw = Now.fw /\ Now'.nd = Now.nd /\ Now'.flows = Now.flows /\ Now'.nds = Now.nds
    BY <1>5, <1>6 DEF Typed, Now, Bridge
  <1>8. Typed'
    <2>1. Table(wish)' /\ Table(payload)'
      BY <1>6 DEF Typed
    <2>2. Apart(gw)'
      BY <1>3, <1>5, <1>6 DEF Typed, Apart
    <2> QED  BY <1>1, <1>6, <1>7, <2>1, <2>2 DEF Typed
  <1>9. OwnVlans'
    BY OwnVlansFrame
  <1>10. JobOK' /\ GoneAreGone' /\ OwnReads'
    BY <1>1, <1>6 DEF JobOK, GoneAreGone, OwnReads, Treated, Tagged
  <1>11. FlowsKept'
    <2>1. Recorded(Now) => Recorded(Now')
      BY <1>7 DEF Recorded
    <2>2. FlowsGood(scars', Now')
      BY <1>1, <2>1 DEF FlowsKept, FlowsGood
    <2> QED  BY <2>2 DEF FlowsKept
  <1>12. NoStrangers'
    <2>1. \A w \in Vlans : gw[w] = None => gw'[w] = None
      BY <1>5
    <2>2. scars' \cap {"ovsdb", "delete", "list"} = {} => scars \cap {"ovsdb", "delete", "list"} = {}
      BY <1>1
    <2>3. \A vm \in Vms : Covered(vm)' <=> Covered(vm)
      BY <1>6 DEF Covered
    <2>4. \A vm \in Vms, w \in Vlans : Tagged(vm, w)' <=> Tagged(vm, w)
      BY <1>6 DEF Tagged
    <2> QED  BY <1>6, <2>1, <2>2, <2>3, <2>4 DEF NoStrangers
  <1> QED  BY <1>8, <1>9, <1>10, <1>11, <1>12

LEMMA CrashStep ==
    ASSUME IInv, Crash
    PROVE  IInv'
  <1> USE GatewayPortsAssumption, NoneAssumption DEF IInv, Crash
  <1>1. scars \subseteq scars' /\ faults' \in 0..MaxFaults
    BY FaultMarks
  <1> DEFINE restored == [n \in Networks |-> IF Present[n] = {} THEN None ELSE CHOOSE v \in Present[n] : TRUE]
  <1>2. hint' = restored /\ lvm' = [n \in Networks |-> None] /\ UNCHANGED <<wish, gw, tap, ops>>
        /\ stage' = [vm \in Vms |-> "none"]
    OBVIOUS
  <1>3. \A n \in Networks : /\ Present[n] = {} => restored[n] = None
                            /\ Present[n] # {} => restored[n] \in Present[n] /\ restored[n] = Slot(n)
                                                  /\ restored[n] \in Vlans
    <2> SUFFICES ASSUME NEW n \in Networks
                 PROVE  /\ Present[n] = {} => restored[n] = None
                        /\ Present[n] # {} => restored[n] \in Present[n]
      BY PresentOwn
    <2> HIDE DEF Present
    <2> QED  OBVIOUS
  <1> HIDE DEF restored
  <1>4. restored \in [Networks -> Vlans \cup {None}]
    <2>1. restored = [n \in Networks |-> restored[n]]
      BY DEF restored
    <2> QED  BY <1>3, <2>1
  <1>5. fw' = {[f EXCEPT !.mine = FALSE] : f \in fw} /\ nd' = {[f EXCEPT !.mine = FALSE] : f \in nd}
    OBVIOUS
  <1>6. fw' \in SUBSET Flow /\ nd' \in SUBSET NdFlow /\ (\A f \in fw' : ~f.mine) /\ (\A f \in nd' : ~f.mine)
    <2>1. fw \in SUBSET Flow /\ nd \in SUBSET NdFlow
      BY DEF Typed, Now, Bridge
    <2>2. \A f \in fw' : f \in Flow /\ ~f.mine
      <3> DEFINE Old(g) == [g EXCEPT !.mine = FALSE]
      <3>1. \A g \in Flow : Old(g) \in Flow /\ ~Old(g).mine
        BY DEF Flow
      <3>2. fw' = {Old(g) : g \in fw}
        BY <1>5
      <3> HIDE DEF Old
      <3> QED  BY <2>1, <3>1, <3>2
    <2>3. \A f \in nd' : f \in NdFlow /\ ~f.mine
      <3> DEFINE Old(g) == [g EXCEPT !.mine = FALSE]
      <3>1. \A g \in NdFlow : Old(g) \in NdFlow /\ ~Old(g).mine
        BY DEF NdFlow
      <3>2. nd' = {Old(g) : g \in nd}
        BY <1>5
      <3> HIDE DEF Old
      <3> QED  BY <2>1, <3>1, <3>2
    <2> QED  BY <2>2, <2>3
  <1>7. Now' \in Bridge
    <2>1. gw \in Gateways
      BY DEF Typed, Now, Bridge
    <2> QED  BY <1>2, <1>6, <2>1 DEF Now, Bridge
  <1>8. Typed'
    <2>1. Table(wish)' /\ Table(payload)'
      BY DEF Typed, Table, Nothing
    <2>2. Apart(gw)'
      BY <1>2 DEF Typed, Apart
    <2>3. dom' = "unknown" /\ DOMAIN payload' = {}
      BY DEF Nothing
    <2>4. lvm' \in [Networks -> Vlans \cup {None}] /\ stage' \in [Vms -> Stages]
      BY <1>2 DEF Stages
    <2> QED  BY <1>1, <1>2, <1>4, <1>7, <2>1, <2>2, <2>3, <2>4 DEF Typed
  <1>9. OwnVlans'
    <2>1. \A n \in Networks : Slot(n)' = restored[n] /\ lvm'[n] = None
      BY <1>2 DEF Slot
    <2>2. \A m, n \in Networks : Slot(m)' = Slot(n)' /\ m # n => Slot(m)' = None
      BY <1>3, <2>1 DEF OwnVlans
    <2>3. ASSUME NEW vm \in Vms, NEW v \in Vlans, Tagged(vm, v)' PROVE Slot(NetOf[vm])' = v
      <3>1. Tagged(vm, v)
        BY <1>2, <2>3 DEF Tagged
      <3>2. v \in Present[NetOf[vm]] /\ Slot(NetOf[vm]) = v
        BY <3>1, PresentOwn DEF OwnVlans
      <3> QED  BY <1>3, <2>1, <3>2
    <2> QED  BY <1>2, <2>1, <2>2, <2>3 DEF OwnVlans
  <1>10. JobOK'
    BY DEF JobOK, Job, Idle
  <1>11. GoneAreGone'
    BY DEF GoneAreGone, Idle
  <1>12. FlowsKept'
    <2>1. /\ Now'.fw = fw' /\ Now'.nd = nd' /\ \A v \in Vlans : Now'.nds[v] = {}
      BY DEF Now
    <2>2. Recorded(Now') /\ Backed(Now')
      BY <1>6, <2>1 DEF Recorded, Backed, NdFlow
    <2>3. FlowsGood(scars', Now')
      BY <2>2 DEF FlowsGood
    <2> QED  BY <2>3 DEF FlowsKept
  <1>13. OwnReads' /\ NoStrangers'
    BY DEF OwnReads, NoStrangers, Idle
  <1> QED  BY <1>8, <1>9, <1>10, <1>11, <1>12, <1>13

-----------------------------------------------------------------------------
LEMMA GatewayStep == IInv /\ [Next]_vars => IInv'
  <1> SUFFICES ASSUME IInv, [Next]_vars PROVE IInv'
    OBVIOUS
  <1>1. CASE \E vm \in Vms : Plug(vm) \/ Unplug(vm)
    BY <1>1, PlugStep, UnplugStep
  <1>2. CASE \E n \in Networks : Attach(n) \/ Detach(n) \/ MoveGateway(n)
    BY <1>2, ServerStep
  <1>3. CASE OvsAgent
    BY <1>3, PortBoundStep, PortUnboundStep, HandlePortStep, DeletePortStep, CleanupStaleFlowsStep
       DEF OvsAgent
  <1>4. CASE DomainUpdated \/ Sync
    BY <1>4, SyncStep
  <1>5. CASE Work
    BY <1>5, CleanForPortStep, CleanForDomainStep, SyncFailsStep, DoneStep, EnsureStep DEF Work
  <1>6. CASE \E v \in Vlans : Recreated(v)
    BY <1>6, RecreatedStep
  <1>7. CASE Crash
    BY <1>7, CrashStep
  <1>8. CASE UNCHANGED vars
    <2>1. Now' = Now /\ UNCHANGED <<wish, tap, gw, lvm, hint, stage, dom, payload, job, scars, ops, faults>>
      BY <1>8 DEF vars, bridge, ovs, Now
    <2>2. Typed'
      <3>1. Table(wish)' /\ Table(payload)' /\ Apart(gw)'
        BY <2>1 DEF IInv, Typed, Apart
      <3> QED  BY <2>1, <3>1 DEF IInv, Typed
    <2>3. FlowsKept'
      BY <2>1, FlowsStutter DEF IInv
    <2>4. OwnVlans' /\ JobOK' /\ GoneAreGone' /\ OwnReads' /\ NoStrangers'
      BY <2>1 DEF IInv, OwnVlans, Slot, JobOK, GoneAreGone, OwnReads, NoStrangers, Treated, Covered, Tagged
    <2> QED  BY <2>2, <2>3, <2>4 DEF IInv
  <1> QED  BY <1>1, <1>2, <1>3, <1>4, <1>5, <1>6, <1>7, <1>8 DEF Next

\* The agents' tables, the bridge and the handler keep to the invariant above.
THEOREM GatewayInvariance == Spec => []IInv
  BY GatewayInit, GatewayStep, PTL DEF Spec

\* The tables keep their types; no two ports of br-int have one number, no two
\* networks one VLAN, and a domain without networks is not kept.
THEOREM GatewayTypeCorrect == Spec => []TypeOK
  <1>1. IInv => TypeOK
    <2> SUFFICES ASSUME IInv PROVE TypeOK
      OBVIOUS
    <2> USE GatewayPortsAssumption DEF IInv
    <2>1. DOMAIN wish \subseteq Networks /\ \A n \in DOMAIN wish : wish[n] \in GatewayIps[n]
      BY DEF Typed, Table
    <2>2. Now \in Bridge /\ Now.gw = gw /\ Now.fw = fw /\ Now.nd = nd /\ Now.ports = ports
          /\ Now.flows = flows /\ Now.nds = nds
      BY DEF Typed, Now
    <2>3. /\ gw \in Gateways /\ fw \in SUBSET Flow /\ nd \in SUBSET NdFlow
          /\ ports \in [Networks -> Vlans \cup {None}]
          /\ flows \in [Vlans -> (1..MaxOfport) \cup {None}] /\ nds \in [Vlans -> SUBSET Ips]
      BY <2>2 DEF Bridge
    <2>4. \A m, n \in Networks : lvm[m] = lvm[n] /\ m # n => lvm[m] = None
      BY DEF OwnVlans, Slot
    <2>5. \A vm \in Vms, v \in Vlans : tap[vm] # None /\ gw[v] # None => tap[vm].of # gw[v].of
      BY DEF Typed, Apart
    <2> QED  BY <2>1, <2>3, <2>4, <2>5 DEF TypeOK, Typed, Gateways, Flow, NdFlow, Stages
  <1> QED  BY <1>1, GatewayInvariance, PTL

\* No gateway of the domain is left on the VLAN of another network's port that
\* has been handled (handle_port: F8).
THEOREM GatewayStrangers == Spec => []StrangersHandled
  <1>1. IInv => StrangersHandled
    BY DEF IInv, NoStrangers, StrangersHandled, Leaks, LiveHandled, Tagged, Covered
  <1> QED  BY <1>1, GatewayInvariance, PTL

\* The flows of this process are those it has recorded, for its own ports.
THEOREM GatewayFlows == Spec => []FlowsHitGateways
  <1>1. IInv => FlowsHitGateways
    <2> SUFFICES ASSUME IInv, "flow" \notin scars PROVE FlowsHitGateways
      BY DEF FlowsHitGateways
    <2>1. Recorded(Now) /\ ("ofport" \notin scars => Backed(Now))
      BY DEF IInv, FlowsKept, FlowsGood
    <2>2. fw \in SUBSET Flow /\ nd \in SUBSET NdFlow /\ nds \in [Vlans -> SUBSET Ips]
      BY DEF IInv, Typed, Now, Bridge
    <2>3. \A f \in fw : f.mine => flows[f.vlan] = f.of
      BY <2>1 DEF Recorded, Now
    <2>4. {f \in nd : f.mine} = UNION {[vlan : {v}, ip : nds[v], mine : {TRUE}] : v \in Vlans}
      <3>1. \A f \in NdFlow : f.mine => (f \in nd <=> f.ip \in nds[f.vlan])
        BY <2>1 DEF Recorded, Now
      <3>2. ASSUME NEW f \in nd, f.mine PROVE \E v \in Vlans : f \in [vlan : {v}, ip : nds[v], mine : {TRUE}]
        BY <2>2, <3>1, <3>2 DEF NdFlow
      <3>3. ASSUME NEW v \in Vlans, NEW f \in [vlan : {v}, ip : nds[v], mine : {TRUE}]
            PROVE  f \in nd /\ f.mine
        <4>1. f \in NdFlow /\ f.mine /\ f.vlan = v /\ f.ip \in nds[v]
          BY <2>2 DEF NdFlow
        <4> QED  BY <3>1, <4>1
      <3> QED  BY <3>2, <3>3
    <2>5. ASSUME "ofport" \notin scars, NEW f \in fw, NEW vm \in Vms, f.mine, tap[vm] # None
          PROVE  tap[vm].of # f.of
      <3>1. f.vlan \in Vlans /\ gw[f.vlan] # None /\ gw[f.vlan].of = f.of
        BY <2>1, <2>2, <2>5 DEF Backed, Now, Flow
      <3> QED  BY <2>5, <3>1 DEF IInv, Typed, Apart
    <2> QED  BY <2>3, <2>4, <2>5 DEF FlowsHitGateways
  <1> QED  BY <1>1, GatewayInvariance, PTL
=============================================================================
