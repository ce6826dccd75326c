CONSTANTS
  w1 = w1
  w2 = w2
  Workload = {w1, w2}
  Foreign = {}
  Target <- MCTarget
  Webhooks = TRUE
  Faults = {}
  MaxFaults = 0
  NoCheck = NoCheck
SPECIFICATION Spec
INVARIANT
  FinalRunAfterAllChecks
CHECK_DEADLOCK FALSE
