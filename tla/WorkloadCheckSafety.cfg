CONSTANTS
  b1 = b1
  b2 = b2
  c1 = c1
  c2 = c2
  Baseline <- MCBaseline
  Check = {c1}
  BaselineGiven = FALSE
  Faults <- MCAllFaults
  MaxFaults = 1
  NoRec = NoRec
  Parallel = TRUE
SPECIFICATION Spec
SYMMETRY MCSymmetry
CONSTRAINT MCLateBaselineWaits
INVARIANTS
  TypeOK
  RecommendationVetted
  EvidenceStored
  RecommendationNeedsBaselines
PROPERTIES
  ImplementsVerdict
CHECK_DEADLOCK FALSE
