SPECIFICATION FairSpec
CONSTANTS
  c1 = c1  c2 = c2  b1 = b1
  Failover = {c1, c2}
  Failback = {}
  NoOne = NoOne
  Threshold = 2
  Faults = {"death"}
PROPERTY LossFailsOver
