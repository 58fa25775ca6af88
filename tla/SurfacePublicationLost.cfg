SPECIFICATION FairSpec
CONSTANTS
  Loader = {load}
  Refresher = {refresh}
  Timer = {t1, t2}
  None = None
  Attempts = 2
  MaxVersion = 3
  MaxBase = 2
PROPERTIES
  AdoptionsArePublished
CHECK_DEADLOCK FALSE
