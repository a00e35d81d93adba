CONSTANTS
    w1 = w1
    w2 = w2
    Workers <- MCWorkers
    MaxItems = 3
    MaxLength = 4
    MaxConcurrency = 2
    RetryCeiling = 2
    MaxFaults = 2
SPECIFICATION Spec
INVARIANTS SlotsFull CollectedWhole RouteByOrder NoRaceFails
PROPERTY FanoutEnds
