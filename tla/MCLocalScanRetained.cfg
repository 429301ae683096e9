SPECIFICATION Spec
CONSTANTS
  Images = {i1, i2}
  Lengths <- MCLengths
  ReportLimit = 2
INVARIANTS
  FailureKeepsPartial
CHECK_DEADLOCK FALSE
