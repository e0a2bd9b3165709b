CONSTANTS
  Clients <- MCClients
  Catalog <- MCCatalog
  NewFilings <- MCNewFilings
  Timeout = 2
  Backoff = 1
  MaxRetries = 2
  MaxOperations = 2
  EndsAt = 5
  PageCount = 2
  Concurrency = 2
  Budget = 3
  MaxCalls = 4
SPECIFICATION Spec
INVARIANTS
  TypeOK
  InTime
  NothingLost
  BudgetKept
PROPERTIES
  CursorMoves
