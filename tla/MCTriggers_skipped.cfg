SPECIFICATION Spec
CONSTANTS
    r1 = r1  r2 = r2  hook = hook  work = work  k1 = k1  k2 = k2
    Replicas = {r1}
    Old = {hook}
    New = {hook}
    Invoke = {}
    Instants = {1, 2, 3}
    Rows = {}
    TheRow = TheRow
    NumRetries = 0
    RetryInterval = 1
    Tolerance = 3
    BatchLimit = 2
    ExpandLimit = 1
    MaxTime = 3
    MaxFaults = 0
INVARIANT NoOccurrenceSkipped
