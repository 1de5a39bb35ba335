SPECIFICATION FairSpec
CONSTANTS
  c1 = c1
  c2 = c2
  Docs <- TwoDocs
  MaxFailures = 2
  Cities <- TwoCities
  FirstCity = c1
  Succ <- Next2
  Scenarios <- Layouts
  NoCity = NoCity
  NoDoc = NoDoc
  NoVersion = NoVersion
  Partial = Partial
  NoRun = NoRun
  Chunks = 1
  Budget = 2
  MaxVersion = 6
INVARIANTS TypeOK NothingDestroyed CoveredShown CallsReserved SetAsideEarned NewDocuments
PROPERTIES PaidOnce CityVisited PendingSettled
