SPECIFICATION Spec
CONSTANTS
    Capacity <- WeakCapacity
    Starts <- WeakStarts
    Reporters <- MCReporters
    Pairs <- MCPairs
    SrcHost <- MCSrcHost
    DstHost <- MCDstHost
    DefaultPaths <- MCDefaultPaths
    UserPath <- MCUserPath
    UserChoices <- MCUserChoices
    Breakable <- MCBreakable
    Faulty <- MCFaulty
    Restless <- MCRestless
    AnySource = AnySource
    NoRate = NoRate
    NoRead = NoRead
    Rates = {0, 4}
    StaleAfter = 1
    Window = 2
    TopK = 2
    FloorRate = 1
    CounterIdle = 2
    High = 72
    Low = 56
    Fit = 70
    MinShare = 10
    Samples = 2
    HoldDown = 3
    MaxMoves = 2
    ReleaseAfter = 2
    MaxRulesPerHost = 2
    MaxAutoPaths = 1
    MaxTime = 3
    MaxEvents = 0
    MaxFaults = 0
INVARIANTS PathsWithinCap
CHECK_DEADLOCK FALSE
