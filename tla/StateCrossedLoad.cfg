SPECIFICATION Spec
CONSTANTS
  Label = {m1, m2}
  None = None
  Attempts = 2
  MaxEdit = 1
  MaxGen = 2
SYMMETRY Symmetry
INVARIANT
  SurfaceIsTheGraphs
CHECK_DEADLOCK FALSE
