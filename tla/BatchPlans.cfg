CONSTANTS
  Scopes <- MCScopes
  Lineage <- MCLineage
  Weight <- MCWeight
  PlanTtl = 2
  CheckpointTtl = 2
  RecordTtl = 1
  MaxPlans = 3
  MaxTime = 4
SPECIFICATION Spec
INVARIANTS
  TypeOK
  DecidedOnce
  OfferHolds
  RefusalHolds
