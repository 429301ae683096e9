SPECIFICATION FairSpec
CONSTANTS
  Images = {i1, i2}
  Lengths <- MCLengths
  ReportLimit = 2
INVARIANTS
  TypeOK
  PolicyExitIsBacked
  CompleteNameIsComplete
  LeftoverAnnounced
PROPERTIES
  FirstReasonKept
  ScanEnds
CHECK_DEADLOCK FALSE
