SPECIFICATION LiveSpec
CONSTANTS
  Label = {m1}
  None = None
  Broken = Broken
  MaxRev = 3
  MaxSess = 1
  MaxLs = 2
  MaxGen = 1
  MaxTurn = 6
  MaxFail = 1
PROPERTIES
  EventuallyCurrent
CHECK_DEADLOCK FALSE
