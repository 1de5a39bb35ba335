SPECIFICATION Spec
CONSTANTS
  c1 = c1
  c2 = c2
  Docs <- TwoDocs
  MaxFailures = 2
  Cities <- TwoCities
  FirstCity = c1
  Succ <- Next2
  Scenarios <- OneDocument
  NoCity = NoCity
  NoDoc = NoDoc
  NoVersion = NoVersion
  Partial = Partial
  NoRun = NoRun
  Chunks = 1
  Budget = 2
  MaxVersion = 6
INVARIANT CollectedOwed
