SPECIFICATION Spec
CONSTANTS
  k1 = k1  k2 = k2  k3 = k3  k4 = k4
  Key = {k1, k2, k3}
  Consumer = {c1}
  Limits <- TightLimits
  MaxAccepted = 1
  MaxRepairs = 1
  MaxBatch = 2
  MaxOffset = 4
SYMMETRY KeySymmetry
INVARIANTS TypeOK Recoverable ChargedOnce DebtedOnce OutcomesHaveFrames EpochQuota
PROPERTY DeliveredOnce
