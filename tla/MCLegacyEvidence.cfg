SPECIFICATION FairSpec
CONSTANTS
  Spellings <- MCSpellings
  Upper <- MCUpper
  Lower <- MCLower
  Reports <- MCReports
  MaxChanges = 1
  UnstableSteps <- UntilGate
INVARIANTS
  PublishedCountsWereReported
PROPERTIES
  ImplementsHandoff
  RunEnds
  RejectionIsReported
CHECK_DEADLOCK FALSE
