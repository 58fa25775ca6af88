SPECIFICATION FairSpec
CONSTANTS
  Label = {m1, m2}
  Publisher = {p1}
  None = None
  MaxChange = 1
  MaxReindex = 2
  MaxRefresh = 1
  MaxFail = 1
INVARIANTS
  QuietIsCurrent
PROPERTIES
  GapsAreHealed
  FramesAreExact
  ReplicaSpec
CHECK_DEADLOCK FALSE
