SPECIFICATION Spec
CONSTANTS
  None = None
  Jobs = {j1}
  Workers = {w1, w2}
  Requests = {r1}
  MaxAutoRetries = 1
  CodexWorkers = {w1}
  PrWorkers = {w1, w2}
  DraftPrJobs = {j1}
  Routes <- RouteNames
  AtomicRoutes = TRUE
  AttendedRoutes = FALSE
  Crashes = TRUE
  MaxRuns = 1
  MaxApprovals = 1
INVARIANT SpendIsGranted
PROPERTY SpendGateSpec
