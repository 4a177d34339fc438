CONSTANTS
    n1 = n1  n2 = n2
    Node = {n1, n2}
    Contender = {n1, n2}
    c1 = c1  c2 = c2
    Command = {c1, c2}
    None = None
    MaxTerm = 3
    MaxLog = 2
    MaxInFlight = 2
SPECIFICATION KvSpec
SYMMETRY NodeSymmetry
INVARIANTS StateMachineSafety AppliedOnMajority AckedIsApplied
CHECK_DEADLOCK FALSE
