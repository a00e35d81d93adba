SPECIFICATION Spec
CONSTANTS
    a1 = a1  a2 = a2
    None = None
    Attempts = {a1, a2}
    MaxAuthorizations = 0
    MaxFaults = 1
SYMMETRY Symmetry
INVARIANT StoredTokenWorks
CHECK_DEADLOCK FALSE
