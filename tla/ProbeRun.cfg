SPECIFICATION Spec
CONSTANTS
  Terms <- MCTerms
  PageSizes = {2, 3}
  OrdinarySize = 2
  Days = 5
  BoundaryDay = 3
  Withdrawals = {"w1", "w2"}
  ListCalls = 1
  NewPairs = {"w1"}
  ConfirmedLinks = 2
  BondTarget = 4
  Runs = {r1, r2}
  WebOnly = {r2}
  Servers <- MCServers
  MaxRequests = 32
  MaxRebuilds = 1
  NoRun = NoRun
INVARIANTS TypeOK GoldenIsOneRun VerdictsSound
