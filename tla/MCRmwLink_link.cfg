SPECIFICATION FairSpec
CONSTANTS
  r1 = r1
  Readers = {r1}
  MaxSeq = 3
  Depth = 2
  MaxTimeouts = 1
  Limits <- MCLimits
  MaxAttempts = 1
  MaxInFlight = 1
INVARIANTS LinkTypeOK CreditedIsSettled ContiguousIsSettled LostOnce LossHasCause
PROPERTIES ImplementsStream CatchesUp
CHECK_DEADLOCK FALSE
