SPECIFICATION Spec
CONSTANTS
  Period = 5
  Lengths = {1, 2, 5}
  Queries = 2
  Listed <- MCListed
  Late <- MCLate
  Limits = {0, 2, 5}
  PageSize = 2
  Sizes = {1, 2, 3}
  Budget = 10
INVARIANTS TypeOK CompleteWindowsAreWhole BodyHitsKept
