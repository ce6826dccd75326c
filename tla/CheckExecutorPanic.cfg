CONSTANTS
  o1 = o1
  o2 = o2
  i1 = i1
  i2 = i2
  ID <- MCID
  Owner <- MCOwner
  OwnerOf <- MCOwnerOf
  Run = {r1, r2, r3}
  Caller = {c1}
  NoRun = NoRun
  NoID = NoID
SPECIFICATION Spec
INVARIANTS
  NoUnrecoveredPanic
CHECK_DEADLOCK FALSE
