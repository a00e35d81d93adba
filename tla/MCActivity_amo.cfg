SPECIFICATION Spec
CONSTANTS
    j1 = j1  j2 = j2  w1 = w1  w2 = w2  w3 = w3  k = k
    None = None
    Keys = {k}
    Jobs = {j1, j2}
    Workers = {w1, w2}
    SerialKey <- Unserialized
    Effect = "AtMostOnce"
    RetryOn = {}
    MaxAttempts = 1
    InitialInterval = 1
    MaxInterval = 1
    ScheduleToStart = 1
    StartToClose = 1
    TakeoverGrace = 1
    UsableWindow = 0
    SendHorizon = 0
    MaxInFlight = 1
    Burst = 2
    RefillInterval = 2
    Classes = {"timeout", "permanent", "invariant"}
    RetryAfters = {0}
    MaxCrashes = 1
SYMMETRY Symmetry
INVARIANTS TypeOK AtMostOnceSend OutcomeKnown InFlightBounded
PROPERTIES ImplementsContract
