SPECIFICATION ChainsSpec
CONSTANTS
  Count = 4
  DatesOf <- MCDates
  ListedOf <- MCListed
INVARIANTS RelationsSound
CHECK_DEADLOCK FALSE
