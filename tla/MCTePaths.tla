----------------------------- MODULE MCTePaths -----------------------------
(* A small instance of TePaths: three hosts, two fabric nodes, two VMs. *)
EXTENDS TePaths

CONSTANTS h1, h2, h3, s1, s2, a, b, n1, n2

MCNetOf == [p \in Ports |-> IF p = a THEN n1 ELSE n2]
MCHome == [p \in Ports |-> IF p = a THEN h1 ELSE h3]

\* s2 is a fabric node of another block: its paths cannot be compressed.
MCLocator == [n \in Nodes |->
    [block |-> IF n = s2 THEN 1 ELSE 0,
     node |-> CASE n = h1 -> 1 [] n = h2 -> 2 [] n = h3 -> 3 [] n = s1 -> 4 [] n = s2 -> 5]]

\* None, one over two blocks, and one that fits a container only without its
\* first waypoint, the ingress itself.
MCViaLists == {<<>>, <<s2, s1>>, <<h1, h2, h3, h2, h3>>}

\* From a, its node or anywhere, to b or its node.
MCAsked == [dst : {b, h3}, src : {AnyHost, h1, a}]

\* No path yet, or one the re-optimisation made for the VMs.
MCEarlier == {[sel \in {} |-> None],
              [sel \in {[dst |-> b, src |-> a]} |-> [via |-> <<s2, s1>>, origin |-> "auto"]]}
=============================================================================
