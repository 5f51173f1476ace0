--------------------------- MODULE MCGatewayPorts ---------------------------
(* One VM on each of two networks: a, the domain's at first, whose gateway  *)
(* address may change, and b, a stranger's until it is attached.            *)
EXTENDS GatewayPorts, TLC

CONSTANTS a, b, va, vb, ip1, ip2, ipb

MCNetOf == va :> a @@ vb :> b
MCGatewayIps == a :> {ip1, ip2} @@ b :> {ipb}
MCAttached == a :> ip1
=============================================================================
