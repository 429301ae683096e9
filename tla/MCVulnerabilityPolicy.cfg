SPECIFICATION Spec
CONSTANTS
  RiskAcceptedLifetime = 2
  NotAffectedLifetime = 3
  MaxRecords = 2
  SoonWindow = 1
  MaxFindings = 3
  MaxEvaluationItems = 6
  NoPurl = NoPurl
  ExemptionRecords <- MCExemptionRecords
  Findings <- MCFindings
  Inputs <- MCInputs
  Rechecks <- MCRechecks
INVARIANTS
  TypeOK
  CriticalAccounting
  UnblockedOnlyByLiveApproval
  DetailsInIdOrder
  RecheckedApprovalsStillHold
PROPERTIES
  ImplementsDecision
CHECK_DEADLOCK FALSE
