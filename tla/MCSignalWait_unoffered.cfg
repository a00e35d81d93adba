SPECIFICATION Spec
CONSTANTS
    i1 = i1  r1 = r1  r2 = r2  r3 = r3  c1 = c1  c2 = c2
    w1 = w1  w2 = w2  k = k
    None = None
    Instances = {i1}
    Requests = {r1}
    Key <- SharedKey
    Consumers = {c1}
    Workers = {w1}
    Persist = TRUE
    RetryCeiling = 2
    MaxVersion = 0
    MaxFaults = 0
    MaxTime = 1
INVARIANTS EarlySignalOffered
CHECK_DEADLOCK FALSE
