SPECIFICATION Spec
CONSTANTS
    j1 = j1  j2 = j2  w1 = w1  w2 = w2  w3 = w3  k = k
    None = None
    Keys = {k}
    Jobs = {j1, j2}
    Workers = {w1, w2}
    SerialKey <- OneKey
    Effect = "ReadOnly"
    RetryOn = {"timeout"}
    MaxAttempts = 1
    InitialInterval = 1
    MaxInterval = 1
    ScheduleToStart = 1
    StartToClose = 1
    TakeoverGrace = 1
    UsableWindow = 0
    SendHorizon = 0
    MaxInFlight = 2
    Burst = 2
    RefillInterval = 1
    Classes = {"timeout"}
    RetryAfters = {0}
    MaxCrashes = 1
SYMMETRY Symmetry
INVARIANTS SerializedByKey
