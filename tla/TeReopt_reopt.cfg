SPECIFICATION Spec
CONSTANTS
    Capacity <- MCCapacity
    Reporters <- MCReporters
    Pairs <- MCPairs
    SrcHost <- MCSrcHost
    DstHost <- MCDstHost
    DefaultPaths <- MCDefaultPaths
    UserPath <- MCUserPath
    UserChoices <- MCUserChoices
    Breakable <- MCBreakable
    Faulty <- MCFaulty
    Restless <- MCRestless
    Starts <- MCStarts
    AnySource = AnySource
    NoRate = NoRate
    NoRead = NoRead
    Rates = {0, 4}
    StaleAfter = 1
    Window = 2
    TopK = 2
    FloorRate = 1
    CounterIdle = 2
    High = 72
    Low = 56
    Fit = 70
    MinShare = 10
    Samples = 2
    HoldDown = 3
    MaxMoves = 2
    ReleaseAfter = 2
    MaxAutoPaths = 2
    MaxRulesPerHost = 2
    MaxTime = 5
    MaxEvents = 1
    MaxFaults = 1
INVARIANTS MeasuredIsReal PathsOptimal
PROPERTIES MovesDoNotPileUp MovesRationed 
CHECK_DEADLOCK FALSE
