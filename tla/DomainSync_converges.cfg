\* The life of a domain and of the next one with its id, and any one failure.
CONSTANTS
    Domains = {d1, d2}
    Fids = {f1}
    Networks = {n1}
    Agents = {a1}
    NoFid = NoFid
    NoDomain = NoDomain
    NoPayload = NoPayload
    FaultKinds <- AllFaults
    MaxOps = 6
    MaxFaults = 1
SPECIFICATION FairSpec
CHECK_DEADLOCK FALSE
PROPERTY Converges
