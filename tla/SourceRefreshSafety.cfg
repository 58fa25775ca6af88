SPECIFICATION Spec
CONSTANTS
  Replayable = {q1, q2}
  Once = {x1}
  Refresh = {p1, p2}
  None = None
  Cap = 2
  MaxRevision = 3
  MaxSession = 1
SYMMETRY Symmetry
INVARIANTS
  NoWakeupLost
  ReindexIsSentOnce
PROPERTIES
  AdoptedIsLatest
  AnswersAreCurrent
CHECK_DEADLOCK FALSE
