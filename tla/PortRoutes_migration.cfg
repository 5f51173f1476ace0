\* A live migration meets a full payload; nothing fails.
CONSTANTS
    h1 = h1
    h2 = h2
    v = v
    x = x
    y = y
    Nodes = {h1, h2}
    Vms = {v}
    Addresses = {x, y}
    Running <- MCRunning
    IpSets <- MCIpSets
    Settled = {h1}
    Sourced = {v}
    None = none
    FaultKinds = {}
    MaxOps = 3
    MaxFaults = 0
    MaxQueue = 3

SPECIFICATION Spec
PROPERTIES
    MigrationKeepsRoute
CHECK_DEADLOCK FALSE
