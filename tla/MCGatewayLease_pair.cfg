SPECIFICATION FairSpec
CONSTANTS
  p1 = p1  p2 = p2
  Process = {p1, p2}
  Instance = {a, b}
  None = None
  Lease = 1
  Skew <- OffByOne
  MaxStall = 2
  MaxFrames = 2
  MaxBroken = 1
INVARIANTS TypeOK WriterSeesStore OneFence
PROPERTIES StoreGrows TakesOver DeposedStops
