CONSTANTS
  p1 = p1
  p2 = p2
  small = small
  other = other
  large = large
  Processes <- MCProcesses
  Keys = {small, other, large}
  Size <- MCSize
  MaxDocuments = 2
  SessionBytes = 2
  DiskBytes = 1
  Ttl = 1
  MaxTime = 1
  MaxRestarts = 1
SPECIFICATION Spec
SYMMETRY MCSymmetry
INVARIANTS
  TypeOK
  SessionExact
  DiskBounded
  SessionStaysOffDisk
