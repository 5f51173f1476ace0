\* A VM with two addresses, two nodes, and one fault of any kind.
CONSTANTS
    h1 = h1
    h2 = h2
    v = v
    x = x
    y = y
    Nodes = {h1, h2}
    Vms = {v}
    Addresses = {x, y}
    Running <- MCRunning
    IpSets <- MCIpSets
    Settled = {h1}
    Sourced = {v}
    None = none
    FaultKinds = {"late", "lose", "swap", "rpc", "crash"}
    MaxOps = 3
    MaxFaults = 1
    MaxQueue = 3

SPECIFICATION FairSpec
INVARIANTS
    TypeOK
    
    RoutesReachable
PROPERTIES
    RoutesConverge
CHECK_DEADLOCK FALSE
