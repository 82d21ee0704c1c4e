SPECIFICATION Spec
CONSTANTS
  NFiles = 2
  Options <- Forms
  MaxClicks = 2
  MaxEdits = 2
  Impatient = TRUE
INVARIANTS LatestPreviewShown InitializedIsPushed RecordedIsThere SmokeIsOwn
PROPERTY ClickIsAnswered
CHECK_DEADLOCK FALSE
