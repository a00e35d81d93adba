SPECIFICATION FairSpec
CONSTANTS
    f1 = f1  f2 = f2  o1 = o1  o2 = o2  q1 = q1  q2 = q2  c1 = c1  c2 = c2
    None = None
    Files = {f1, f2}
    Owners = {o1, o2}
    Requests = {q1, q2}
    Collectors = {c1, c2}
    UploadTtl = 1
    PendingTtl = 1
    OrphanGrace = 1
    Minute = 1
    MaxPending = 1
    MaxPerMinute = 1
    Batch = 2
    Life = 1
    MaxTime = 4
    MintUntil = 1
    MaxFaults = 1
INVARIANTS ReferencesSound StoredBytesStayReachable BudgetKept
PROPERTIES EveryObjectCollectable CollectorProgress
