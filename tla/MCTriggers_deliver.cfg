SPECIFICATION FairSpec
CONSTANTS
    r1 = r1  r2 = r2  hook = hook  work = work  k1 = k1  k2 = k2
    Replicas = {r1, r2}
    Old = {hook, work}
    New = {work}
    Invoke = {work}
    Instants = {1}
    Rows = {k1, k2}
    TheRow = TheRow
    NumRetries = 1
    RetryInterval = 1
    Tolerance = 0
    BatchLimit = 2
    ExpandLimit = 1
    MaxTime = 2
    MaxFaults = 1
INVARIANTS JournalIsTrue CallsBounded
PROPERTY JournalDrains
