SPECIFICATION LiveSpec
CONSTANTS
  Label = {m1}
  None = None
  Broken = Broken
  MaxRev = 2
  MaxSess = 3
  MaxLs = 1
  MaxGen = 0
  MaxTurn = 7
  MaxFail = 1
PROPERTIES
  RetiredIsCleared
CHECK_DEADLOCK FALSE
