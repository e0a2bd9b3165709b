CONSTANTS
  r1 = r1
  r2 = r2
  r3 = r3
  r4 = r4
  r5 = r5
  new = new
  NoJob = NoJob
  Receipts <- MCReceipts
  Kind <- MCKind
  Catalog <- MCCatalog
  DartCatalog <- MCDartCatalog
  LiveUnits <- MCLiveUnits
  PageSize = 2
  DartPageSize = 1
  ServedSizes = {1}
  Shows = {TRUE}
  DocumentConcurrency = 2
  Settings = {2}
  UseDart = TRUE
  Exhaustive = FALSE
  Target = 3
  MaxCrashes = 1
SPECIFICATION FairSpec
INVARIANTS
  TargetRespected
  RecordsAgree
PROPERTIES
  JobCompletes
