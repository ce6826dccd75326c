CONSTANTS
  b1 = b1
  b2 = b2
  c1 = c1
  c2 = c2
  Baseline <- MCBaseline
  Check = {c1}
  BaselineGiven = TRUE
  Faults <- MCRunFaults
  MaxFaults = 1
  NoRec = NoRec
  Parallel = FALSE
SPECIFICATION Spec
INVARIANTS
  FinalRunTestsRecommendation
PROPERTIES
  EventuallyFinished
CHECK_DEADLOCK FALSE
