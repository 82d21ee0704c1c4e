SPECIFICATION InspectionSpec
CONSTANTS
  j1 = j1
  j2 = j2
  Jobs = {j1, j2}
  FairnessN = 3
  PrCreation = TRUE
  Rank <- TwoRanks
  MaxTests = 1
  MaxArrivals = 3
  Views <- PrViews
  Listings <- CheckListings
  NoAnswer = NoAnswer
  Budget = 4
  FallbackLength = 3
INVARIANTS InspectionsBounded FeedbackIsFair
PROPERTIES QueuedIsClaimed PrIsInspected
