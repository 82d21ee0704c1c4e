SPECIFICATION Spec
CONSTANTS
  None = None
  Jobs = {j1}
  Workers = {w1}
  Requests = {r1}
  MaxAutoRetries = 1
  CodexWorkers = {w1}
  PrWorkers = {w1}
  DraftPrJobs = {j1}
  Routes <- RouteNames
  AtomicRoutes = FALSE
  AttendedRoutes = TRUE
  Crashes = FALSE
  MaxRuns = 2
  MaxApprovals = 1
INVARIANTS InFlightIsHeld AutoRetriesBounded PushIsReviewed
PROPERTIES StagesDrain PauseDrains
