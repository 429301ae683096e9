SPECIFICATION FairSpec
CONSTANTS
  Criticals <- MCCriticals
  Policies <- MCPolicies
  MaxTime = 3
  MaxAdjustments = 1
  MaxChanges = 1
  UnstableSteps <- UntilGate
INVARIANTS
  TypeOK
  TimesOrdered
PROPERTIES
  RejectionIsExplained
  ImplementsHandoff
  RunEnds
CHECK_DEADLOCK FALSE
