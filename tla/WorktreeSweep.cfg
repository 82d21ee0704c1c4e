SPECIFICATION Spec
CONSTANTS
  NoJob = NoJob
  Jobs = {j1}
  Routes = {"cancel", "requeue"}
  MaxAutoRetries = 0
  GitFails = FALSE
  Crashes = FALSE
  RemoteDeletes = TRUE
  MaxCalls = 2
INVARIANTS ApprovedHasChanges WaitingHasWorktree
PROPERTY RetainedIsSwept
