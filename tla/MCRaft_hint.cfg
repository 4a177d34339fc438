CONSTANTS
    n1 = n1  n2 = n2  n3 = n3
    Node = {n1, n2, n3}
    Contender = {n1, n2}
    c1 = c1  c2 = c2
    Command = {c1, c2}
    None = None
    MaxTerm = 2
    MaxLog = 1
    MaxInFlight = 2
SPECIFICATION Spec
SYMMETRY NodeSymmetry
INVARIANT AppliedOnMajority
CHECK_DEADLOCK FALSE
