SPECIFICATION Spec
CONSTANTS
  Unit = 12
  Commands <- Cruise
  Lifespans = {3}
  MaxId = 1
  MaxTime = 4
  MaxSpeed <- MaxSpeedUnits
  MaxAccel = 36
  MaxJerk = 12
  MaxLife = 3
  Window = 1
INVARIANT InsideBounds
