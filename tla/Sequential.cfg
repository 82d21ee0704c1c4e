SPECIFICATION PageSpec
CONSTANTS
  None = None
  Jobs = {j1}
  Workers = {w1}
  Requests = {r1}
  MaxAutoRetries = 1
  CodexWorkers = {w1}
  PrWorkers = {w1}
  DraftPrJobs = {j1}
  Routes = {"approveReview", "cancel", "requeue", "retryStage"}
  AtomicRoutes = TRUE
  AttendedRoutes = FALSE
  Crashes = FALSE
  MaxRuns = 1
  MaxApprovals = 2
  PageJobs = {j1}
  MaxLoads = 1
INVARIANTS PageTypeOK RowsAgree ReviewedIsValidated
INVARIANTS StageInputsPresent FeedbackReachesCodex
INVARIANTS DraftPrShownExists GateIsCurrent HeaderIsEarned
PROPERTY EndIsFinal
