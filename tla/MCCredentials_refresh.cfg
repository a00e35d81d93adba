SPECIFICATION FairSpec
CONSTANTS
    a1 = a1  a2 = a2
    None = None
    Attempts = {a1, a2}
    MaxAuthorizations = 1
    MaxFaults = 1
INVARIANTS ExchangeIsNeeded MarkIsTrue OnlyFaultsBurn
PROPERTY EveryAttemptEnds
CHECK_DEADLOCK FALSE
