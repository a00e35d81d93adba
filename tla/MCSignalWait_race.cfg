SPECIFICATION Spec
CONSTANTS
    i1 = i1  r1 = r1  r2 = r2  r3 = r3  c1 = c1  c2 = c2
    w1 = w1  w2 = w2  k = k
    None = None
    Instances = {i1}
    Requests = {r1, r2, r3}
    Key <- SharedKey
    Consumers = {c1, c2}
    Workers = {w1, w2}
    Persist = TRUE
    RetryCeiling = 2
    MaxVersion = 0
    MaxFaults = 0
    MaxTime = 1
SYMMETRY Symmetry
INVARIANTS AcceptedBeatsTimeout HeardByDeadline NoStaleEvents OneDeliveryPerKey
CHECK_DEADLOCK FALSE
