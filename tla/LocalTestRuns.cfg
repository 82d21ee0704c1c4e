SPECIFICATION Spec
CONSTANTS
  Files <- FileNames
  Contents <- FileContents
  Starts <- AtFirst
  Clients <- ClientNames
  Asks <- ClientAsks
  MaxEdits = 1
  MaxRuns = 2
  MaxFailures = 0
  Stages = {"validation", "codex"}
  MaxCrashes = 1
INVARIANT RunHitsItsScenario
PROPERTY TestRunEnds
