\* Two domains that may share an id, two networks, two failures.
CONSTANTS
    Domains = {d1, d2}
    Fids = {f1}
    Networks = {n1, n2}
    Agents = {a1}
    NoFid = NoFid
    NoDomain = NoDomain
    NoPayload = NoPayload
    FaultKinds <- NothingKept
    MaxOps = 5
    MaxFaults = 2
SPECIFICATION Spec
CHECK_DEADLOCK FALSE
SYMMETRY Symmetry
INVARIANTS TypeOK TombstonedStaysGone SyncPostdatesDelete NoForeignGateway DormantHoldsNothing SealedBeforeGateway
PROPERTIES SyncKeepsServed
