SPECIFICATION FairSpec
CONSTANTS
    j1 = j1  j2 = j2  w1 = w1  w2 = w2  w3 = w3  k = k
    None = None
    Keys = {k}
    Jobs = {j1}
    Workers = {w1, w2}
    SerialKey <- Unserialized
    Effect = "ProviderIdempotent"
    RetryOn = {"timeout"}
    MaxAttempts = 2
    InitialInterval = 1
    MaxInterval = 1
    ScheduleToStart = 1
    StartToClose = 1
    TakeoverGrace = 1
    UsableWindow <- CompiledHorizon
    SendHorizon <- CompiledHorizon
    MaxInFlight = 1
    Burst = 1
    RefillInterval = 1
    Classes = {"timeout"}
    RetryAfters = {0, 2}
    MaxCrashes = 1
INVARIANTS HorizonSuffices OneTerminalEvent
PROPERTIES EveryActivityResolves
