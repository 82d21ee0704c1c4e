SPECIFICATION Spec
CONSTANTS
  c1 = c1
  c2 = c2
  Repos = {"r1", "r2"}
  Trackers = {"jira"}
  NoTracker = "none"
  Sample = "r1"
  Clients <- ClientNames
  Runs = {"d1"}
  Titles = {"a", "b"}
  Texts = {"a", "b"}
  SampleText = "a"
  NoRepo = "null"
  MaxJobs = 2
  MaxChanges = 4
  MaxClicks = 2
  MaxFailures = 1
SYMMETRY Symmetric
INVARIANTS QueuedHasJob QueuedAsFiled
CHECK_DEADLOCK FALSE
