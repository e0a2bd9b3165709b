CONSTANTS
  r1 = r1
  r2 = r2
  r3 = r3
  NoToken = NoToken
  Receipts <- MCReceipts
  Relevant <- MCRelevant
  Found <- MCFound
  Listing <- MCListing
  PageSize = 1
  ListBudget = 1
  DocumentBudget = 3
  ResultBudget = 3
  DocumentConcurrency = 2
  AlwaysLists = FALSE
  Searches <- MCBodySearches
  Chains <- MCChains
SPECIFICATION Spec
INVARIANT CompleteIsComplete
