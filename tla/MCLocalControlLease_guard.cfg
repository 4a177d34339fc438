SPECIFICATION FairSpec
CONSTANTS
  Unit = 360
  Commands <- Speeds
  Lifespans = {1, 3}
  MaxId = 3
  MaxTime = 6
  MaxSpeed <- MaxSpeedUnits
  MaxAccel = 720
  MaxJerk = 360
  MaxLife = 2
  Window = 1
INVARIANTS ControlTypeOK CommandIsFresh OneLifespan
PROPERTIES GentleDrive StopsAtExpiry
