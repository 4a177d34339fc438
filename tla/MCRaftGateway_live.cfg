SPECIFICATION FairRaftSpec
CONSTANTS
  p1 = p1  p2 = p2  n1 = n1  n2 = n2
  Process = {p1, p2}
  Node = {n1, n2}
  Home <- TwoHomes
  Instance <- RaftIds
  MaxTerm = 2
  None = None
  Lease = 2
  Skew <- SameClock
  MaxStall = 2
  MaxFrames = 0
  MaxBroken = 1
INVARIANT RaftTypeOK
PROPERTIES ImplementsLease DemotedStops LeaderTakesOver
