CONSTANTS
    n1 = n1  n2 = n2  n3 = n3
    Node = {n1, n2, n3}
    Contender = {n1, n2}
    c1 = c1
    Command = {c1}
    None = None
    MaxTerm = 2
    MaxLog = 2
    MaxInFlight = 2
SPECIFICATION Spec
SYMMETRY NodeSymmetry
INVARIANTS TypeOK ElectionSafety LogMatching
PROPERTY LeaderKeepsLog
CHECK_DEADLOCK FALSE
