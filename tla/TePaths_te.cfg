\* Paths of every rank over two VMs; a waypoint dies and returns.
CONSTANTS
    h1 = h1
    h2 = h2
    h3 = h3
    s1 = s1
    s2 = s2
    a = a
    b = b
    n1 = n1
    n2 = n2
    Hosts = {h1, h2, h3}
    Fabric = {s1, s2}
    Ports = {a, b}
    NetOf <- MCNetOf
    DomainNets = {n1, n2}
    Locator <- MCLocator
    Fid = 57344
    Usid = TRUE
    AnyHost = any
    None = none
    NotRun = notrun
    MaxViaHosts = 6
    Asked <- MCAsked
    ViaLists <- MCViaLists
    Mortal = {s1}
    Newcomers = {h2}
    Home <- MCHome
    Earlier <- MCEarlier
    MaxPaths = 2
    MaxOps = 2
    MaxFaults = 2
    PerContainer = 6
    GibMax = 57343
    FunctionMax = 65535
    NodeEnd = 65520

SPECIFICATION FairSpec
INVARIANTS
    PrecedenceKept
    StatusTells
    ContainersReach
    

    
CHECK_DEADLOCK FALSE
