SPECIFICATION FairSpec
CONSTANTS
  Label = {m1, m2}
  None = None
  Attempts = 2
  MaxEdit = 1
  MaxGen = 2
INVARIANTS
  GraphIsCurrent
  SurfaceIsCurrent
  SavesAreIndexed
PROPERTIES
  SurfaceLoads
CHECK_DEADLOCK FALSE
