SPECIFICATION Spec
CONSTANTS
  None = None
  Tabs = {t1, t2}
  Restarts = TRUE
  MaxStarts = 1
  MaxLoads = 1
  MaxIssues = 2
  MaxHurries = 0
INVARIANTS RecordingsAreKept CreatedIsComplete NoGhost
PROPERTIES StoppedIsOffered FilingEnds
CHECK_DEADLOCK FALSE
