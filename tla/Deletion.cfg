CONSTANTS
  a = a
  again = again
  b = b
  Object = {a, again, b}
  Doomed = {a}
  Name <- MCName
  Faults <- MCAllFaults
  MaxFaults = 1
SPECIFICATION Spec
INVARIANTS
  TypeOK
  RunsOfGoneAreCancelled
  NothingRunsAfterDeletion
PROPERTIES
  DeletionCompletes
  OthersAreRecorded
CHECK_DEADLOCK FALSE
