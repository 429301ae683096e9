SPECIFICATION FairSpec
CONSTANTS
  Criticals <- MCCriticals
  Policies <- MCPolicies
  MaxTime = 3
  MaxAdjustments = 0
  MaxChanges = 2
  UnstableSteps <- AnyTime
INVARIANTS
  ConsistentHandoffIsApproved
CHECK_DEADLOCK FALSE
