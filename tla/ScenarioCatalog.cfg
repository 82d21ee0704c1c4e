SPECIFICATION CatalogSpec
CONSTANTS
  Files <- FileNames
  Contents <- FileContents
  Starts <- AtFirst
  Clients <- ClientNames
  Asks <- ClientAsks
  MaxEdits = 2
  MaxRuns = 1
  MaxFailures = 1
PROPERTY CatalogConverges
