SPECIFICATION Spec
CONSTANTS
  k1 = k1  k2 = k2  k3 = k3  k4 = k4
  Key = {k1, k2, k3, k4}
  Consumer = {}
  Limits <- LongHistory
  MaxAccepted = 1
  MaxRepairs = 0
  MaxBatch = 1
  MaxOffset = 5
SYMMETRY KeySymmetry
INVARIANT RetainedOnce
