CONSTANTS
  main = main
  sidecar = sidecar
  Container <- MCContainer
  Main = main
  Value <- MCValue
  Nil = Nil
  Scenario <- MCScenario
SPECIFICATION Spec
INVARIANTS
  TypeOK
  ChecksAreIsolated
  TemplateIsKept
  OnlyTestedIsRecommended
  FinalRunIsRecommended
  RecommendationIsUnique
CHECK_DEADLOCK FALSE
