\* Two networks, three operations, one fault of any kind.
SPECIFICATION FairSpec
CONSTANTS
    a = a
    b = b
    va = va
    vb = vb
    ip1 = ip1
    ip2 = ip2
    ipb = ipb
    Networks = {a, b}
    Vms = {va, vb}
    NetOf <- MCNetOf
    GatewayIps <- MCGatewayIps
    Attached <- MCAttached
    Vlans = {1, 2}
    MaxOfport = 6
    None = None
    FaultKinds = {"ovsdb", "flow", "list", "rpc", "device", "enslave", "delete", "ofport", "crash"}
    MaxOps = 3
    MaxFaults = 1
INVARIANTS TypeOK StrangersHandled FlowsHitGateways
CHECK_DEADLOCK FALSE
PROPERTY GatewaysConverge
