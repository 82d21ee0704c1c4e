SPECIFICATION Spec
CONSTANTS
  NoJob = NoJob
  Jobs = {j1}
  Routes = {"retryStage"}
  MaxAutoRetries = 1
  GitFails = FALSE
  Crashes = FALSE
  RemoteDeletes = FALSE
  MaxCalls = 1
INVARIANT WaitingHasWorktree
