\* Three creates and deletes racing for two ids, on two workers.
CONSTANTS
    d1 = d1  d2 = d2  d3 = d3
    f1 = f1  f2 = f2
    w1 = w1  w2 = w2
    Domains = {d1, d2, d3}
    Fids = {f1, f2}
    Workers = {w1, w2}
    NoFid = NoFid
    Absent = Absent
    Free = Free
    Configs <- OneConfig
    MaxRestarts = 1
SPECIFICATION FairSpec
CHECK_DEADLOCK FALSE
INVARIANTS TypeOK HoldsOne TeardownNamed
PROPERTIES ImplementsPool  CreateEnds
