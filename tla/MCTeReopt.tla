----------------------------- MODULE MCTeReopt -----------------------------
(* Two hosts behind two leaves, two spines; four VM pairs from h1 to h2.   *)
EXTENDS TeReopt

h1 == 1
h2 == 2
l1 == 3
l2 == 4
s1 == 5
s2 == 6

Wires(weak) ==
    <<h1, l1>> :> 40 @@ <<l2, h2>> :> 40 @@ <<l1, s1>> :> 10 @@ <<s1, l2>> :> weak
    @@ <<l1, s2>> :> 10 @@ <<s2, l2>> :> 10
MCCapacity == Wires(10)
WeakCapacity == Wires(8)

MCReporters == {l1, l2, s1, s2}
A == <<11, 21>>
B == <<12, 21>>
C == <<11, 22>>
D == <<13, 22>>
MCPairs == {A, B, C, D}
MCRestless == {B}
MCSrcHost == [p \in MCPairs |-> h1]
MCDstHost == [p \in MCPairs |-> h2]
Via(s) == <<h1, l1, s, l2, h2>>
MCDefaultPaths == [p \in MCPairs |-> {Via(s1), Via(s2)}]
MCUserPath == Via(s2)
MCUserChoices == {[dst |-> h2, src |-> AnySource]}
MCFaulty == {l1}
MCBreakable == {<<l1, s2>>}

Start4(a, b, c, d, autos) ==
    [demand |-> A :> a @@ B :> b @@ C :> c @@ D :> d,
     ecmp |-> [p \in MCPairs |-> Via(s1)], auto |-> autos]
MCStarts == {Start4(4, 4, 3, 0, << >>), Start4(0, 3, 3, 3, A :> Via(s2))}
WeakStarts == {Start4(0, 3, 3, 3, << >>)}

\* ShortestLinks against its reference on every part of a graph with detours.
Graph == {<<1, 2>>, <<1, 3>>, <<2, 3>>, <<2, 4>>, <<3, 4>>, <<4, 2>>, <<3, 5>>, <<4, 5>>}

ASSUME ShortestOnGraphs ==
    \A links \in SUBSET Graph :
        LET cap == [l \in links |-> 1]
        IN  ShortestLinks(cap, 1, 5) = AllShortest(cap, 1, 5)
=============================================================================
