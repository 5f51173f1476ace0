---------------------------- MODULE MCNodeRoutes ----------------------------
(* A small instance of NodeRoutes: one node, two others, two waypoints. *)
EXTENDS NodeRoutes

CONSTANTS h1, h2, h3, s1, s2, x, y, v, w, a, b, gw1, gw2

MCLocator == [n \in Hosts |->
    [block |-> 0,
     node |-> CASE n = h1 -> 1 [] n = h2 -> 2 [] n = h3 -> 3 [] n = s1 -> 4 [] n = s2 -> 5]]

To(host, via) == [host |-> host, via |-> via]
NoSteer == [vm \in {} |-> None]

\* Nothing steered; x over a waypoint, and v with one of its own; x moved, v
\* re-steered, b now w's and steered too; all compressed, y here; y over a waypoint no
\* device leads to, v on the way x takes anyway.
MCPayloads == {
    [usid |-> FALSE, known |-> {h1, h2, h3},
     routes |-> (x :> To(h2, <<>>)) @@ (y :> To(h3, <<>>)), steer |-> NoSteer],
    [usid |-> FALSE, known |-> {h1, h2, h3, s1},
     routes |-> (x :> To(h2, <<s1>>)) @@ (y :> To(h3, <<>>)),
     steer |-> v :> [from |-> {a, b}, lists |-> x :> <<s1, h3>>]],
    [usid |-> TRUE, known |-> {h1, h2, h3, s1},
     routes |-> (x :> To(h3, <<>>)) @@ (y :> To(h1, <<>>)),
     steer |-> (v :> [from |-> {a}, lists |-> x :> <<h2, s1>>])
            @@ (w :> [from |-> {b}, lists |-> x :> <<h1, s1>>])],
    [usid |-> TRUE, known |-> {h1, h2, h3, s1, s2},
     routes |-> (x :> To(h2, <<s1>>)) @@ (y :> To(h3, <<s2>>)),
     steer |-> v :> [from |-> {a}, lists |-> x :> <<s1>>]] }
=============================================================================
