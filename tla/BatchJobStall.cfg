CONSTANTS
  r1 = r1
  r2 = r2
  r3 = r3
  r4 = r4
  r5 = r5
  new = new
  NoJob = NoJob
  Receipts <- MCReceipts
  Kind <- MCBrokenKind
  Catalog <- MCCatalog
  DartCatalog <- MCDartCatalog
  LiveUnits <- MCLiveUnits
  PageSize = 2
  DartPageSize = 1
  ServedSizes = {1}
  Shows = {TRUE}
  DocumentConcurrency = 2
  Settings = {2}
  UseDart = TRUE
  Exhaustive = TRUE
  Target = 1
  MaxCrashes = 0
SPECIFICATION FairSpec
PROPERTY JobCompletes
