SPECIFICATION FairSpec
CONSTANTS
  Attempt = {a1, a2}
  Stop = {s1}
  Restart = {r1}
  None = None
INVARIANTS
  MetaIsOwned
  NoStrayChild
PROPERTIES
  SpawnFindsNoOwner
  SpawnIsWanted
  SessionIdentifiesChild
  CallersSettle
  StopEnds
CHECK_DEADLOCK FALSE
