SPECIFICATION FairSpec
CONSTANTS
  RiskAcceptedLifetime = 2
  NotAffectedLifetime = 3
  MaxRecords = 2
  Component = "service"
  PolicyDirectory = "security-exemptions"
  Repositories <- MCRepositories
  NoRevision = 0
  MaxTreeEntries = 3
  MaxRawRecord = 1
  AcquisitionTimeout = 2
  MaxTime = 3
INVARIANTS
  SnapshotFaithful
  
PROPERTIES
  AcquisitionSettles
  ImplementsAtomicSnapshot
CHECK_DEADLOCK FALSE
