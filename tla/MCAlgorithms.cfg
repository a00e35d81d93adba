SPECIFICATION Spec
CONSTANTS
    Width = 6
    MaxAttemptsChecked = 9
    MaxDuration = 5
    BackOff = 4
    Window = 20
    MaxCandidates = 20
    MaxWidth = 4
    Burst = 2
    Interval = 2
    MaxClaims = 4
    MaxNow = 5
INVARIANTS HorizonIsExact NextIsEarliestRun RateKept
CHECK_DEADLOCK FALSE
