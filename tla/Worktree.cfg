SPECIFICATION Spec
CONSTANTS
  NoJob = NoJob
  Jobs = {j1}
  Routes = {"requeue", "cancel", "retryStage"}
  MaxAutoRetries = 1
  GitFails = TRUE
  Crashes = TRUE
  RemoteDeletes = FALSE
  MaxCalls = 2
INVARIANTS TypeOK CommitsAreKept
