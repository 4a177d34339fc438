SPECIFICATION Spec
CONSTANTS
  c1 = c1  c2 = c2  b1 = b1
  Failover = {c1, c2}
  Failback = {b1}
  NoOne = NoOne
  Threshold = 1
  Faults = {"crash", "call", "death"}
SYMMETRY ControllerSymmetry
INVARIANTS FailoverTypeOK NoSplitBrain
PROPERTY PromotesOverStopped
