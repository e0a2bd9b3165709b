CONSTANTS
  NoJob = NoJob
  NetworkBlock = 1
  StructureBlock = 2
  NetworkThreshold = 2
  StructureThreshold = 2
SPECIFICATION FairSpec
INVARIANTS
  TypeOK
  QuietWhileOpen
  BlockSatOut
  StoredBlockHolds
  FailuresInARowOpen
  ProbeIsStatusCheck
PROPERTY Recovers
