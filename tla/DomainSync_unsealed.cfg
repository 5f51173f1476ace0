\* One domain; a pass that raises late, then a table that cannot be sealed.
CONSTANTS
    Domains = {d1}
    Fids = {f1}
    Networks = {n1}
    Agents = {a1}
    NoFid = NoFid
    NoDomain = NoDomain
    NoPayload = NoPayload
    FaultKinds = {"late", "seal"}
    MaxOps = 7
    MaxFaults = 2
SPECIFICATION Spec
CHECK_DEADLOCK FALSE
INVARIANT SealedBeforeGateway
