---------------------------- MODULE MCPortRoutes ----------------------------
(* A small instance of PortRoutes: a VM that moves between two nodes. *)
EXTENDS PortRoutes

CONSTANTS h1, h2, v, x, y
MCIpSets == {{x}, {x, y}}

\* v runs on h1, or is about to leave it.
MCRunning ==
    LET Runs(migrating) == [host |-> h1, active |-> TRUE, ips |-> {x}, migrating |-> migrating]
    IN  {[p \in Vms |-> r] : r \in {Runs(FALSE), Runs(TRUE)}}
=============================================================================
