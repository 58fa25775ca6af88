SPECIFICATION FairSpec
CONSTANTS
  Labels = {book}
  Threads = {t1, t2}
  Receivers = {manager}
  Ids = {1, 2, 3, 4, 5, 6, 7, 8}
  MaxIndexes = 2
  MaxChanges = 2
  MaxAsks = 2
INVARIANTS KeysAreTracked CachedIsCurrent BuildsAreCounted
PROPERTIES AnswersSpec CallsEnd
CHECK_DEADLOCK FALSE
