\* One node: full passes and increments, a call that fails, a crash.
CONSTANTS
    h1 = h1
    h2 = h2
    h3 = h3
    s1 = s1
    s2 = s2
    x = x
    y = y
    v = v
    w = w
    a = a
    b = b
    gw1 = gw1
    gw2 = gw2
    Hosts = {h1, h2, h3, s1, s2}
    Me = h1
    Locator <- MCLocator
    Fid = 57344
    Dests = {x, y}
    Vms = {v, w}
    Tables = {1, 2, 3}
    Foreign = {3}
    Ifaces = {gw1, gw2}
    NoDevice = {s2}
    Payloads <- MCPayloads
    Vrf = vrf
    None = none
    FaultKinds = {"call", "read", "crash"}
    MaxPasses = 3
    MaxFaults = 2
    PerContainer = 6
    GibMax = 57343
    FunctionMax = 65535
    NodeEnd = 65520

SPECIFICATION Spec
INVARIANTS
    TypeOK
    MakeBeforeBreak
    RoutesSettle
    DeleteLeavesNothing
PROPERTIES
    SealedRules
CHECK_DEADLOCK FALSE
