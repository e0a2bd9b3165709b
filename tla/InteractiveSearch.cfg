CONSTANTS
  r1 = r1
  r2 = r2
  r3 = r3
  NoToken = NoToken
  Receipts <- MCReceipts
  Relevant <- MCRelevant
  Found <- MCFound
  Listing <- MCListing
  PageSize = 1
  ListBudget = 1
  DocumentBudget = 2
  ResultBudget = 1
  DocumentConcurrency = 2
  AlwaysLists = TRUE
  Searches <- MCAllSearches
  Chains <- MCChains
SPECIFICATION Spec
INVARIANTS
  TypeOK
  WithinBudget
  NoCaseTwice
  NoneForgotten
