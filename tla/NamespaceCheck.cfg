CONSTANTS
  w1 = w1
  w2 = w2
  Workload = {w1, w2}
  Foreign = {}
  Target <- MCTarget
  Webhooks = TRUE
  Faults <- MCAllFaults
  MaxFaults = 1
  NoCheck = NoCheck
SPECIFICATION Spec
INVARIANTS
  TypeOK
  ChecksHaveBaselines
  RecommendationsOfFinishedChecks
  TestedIsStored
  SuccessIsTested
  SuccessCoversWorkloads
PROPERTIES
  VerdictStands
  AlwaysAVerdict
CHECK_DEADLOCK FALSE
