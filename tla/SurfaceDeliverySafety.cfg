SPECIFICATION Spec
CONSTANTS
  Label = {m1, m2}
  None = None
  Broken = Broken
  MaxRev = 4
  MaxSess = 3
  MaxLs = 2
  MaxGen = 0
  MaxTurn = 6
  MaxFail = 1
SYMMETRY Symmetry
INVARIANTS
  QuietIsCurrent
  NoForeignModel
PROPERTIES
  FramesAreExact
CHECK_DEADLOCK FALSE
