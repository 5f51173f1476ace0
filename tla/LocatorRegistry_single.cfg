\* One sync_state call at a time.
CONSTANTS
    Hosts = {h1, h2, h3}
    Workers = {w1}
    Blocks = {1, 2, 3}
    Locators <- SomeLocators
    FabricLocators <- Spine
    NoLocator = NoLocator
    NoHost = NoHost
    MaxMoves = 1
    MaxFlips = 2
CHECK_DEADLOCK FALSE
SPECIFICATION FairSpec
INVARIANTS TypeOK 
 
