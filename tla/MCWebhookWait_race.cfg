SPECIFICATION Spec
CONSTANTS
    i1 = i1  i2 = i2  e1 = e1  e2 = e2  r1 = r1  r2 = r2  w1 = w1  w2 = w2
    None = None
    Instances = {i1, i2}
    Events = {e1, e2}
    Receivers = {r1, r2}
    Workers = {w1}
    MaxFaults = 1
    MaxTime = 2
SYMMETRY Symmetry
INVARIANTS AcceptedBeatsTimeout HeardInWindow OneWinner
PROPERTY AnswerIsFinal
CHECK_DEADLOCK FALSE
