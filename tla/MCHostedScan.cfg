SPECIFICATION Spec
CONSTANTS
  Scans <- MCScans
INVARIANTS
  LeftoversExplained
PROPERTIES
  CauseKept
  ScanSettles
CHECK_DEADLOCK FALSE
