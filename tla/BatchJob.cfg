CONSTANTS
  r1 = r1
  r2 = r2
  r3 = r3
  r4 = r4
  r5 = r5
  new = new
  NoJob = NoJob
  Receipts <- WideReceipts
  Kind <- WideKind
  Catalog <- WideCatalog
  DartCatalog <- WideDartCatalog
  LiveUnits <- MCLiveUnits
  PageSize = 3
  DartPageSize = 2
  ServedSizes = {1, 2}
  Shows = {TRUE, FALSE}
  DocumentConcurrency = 3
  Settings = {3, 4}
  UseDart = TRUE
  Exhaustive = TRUE
  Target = 1
  MaxCrashes = 2
SPECIFICATION Spec
INVARIANTS
  TypeOK
  Coverage
  NoFilingLost
  NothingSilentlyDropped
PROPERTIES
  DurableProgress
  PromiseKept
