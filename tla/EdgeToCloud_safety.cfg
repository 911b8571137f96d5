CONSTANTS
  Event = {e1, e2, e3}
  Torn = Torn
  BatchSize = 2
  MaxDelay = 1
  MaxCrashes = 1
  DiskFaults = TRUE
SYMMETRY EventSymmetry
SPECIFICATION Spec
INVARIANTS
  TypeOK
  NothingElseIsLost
  AckedIsStored
  StoredInOrder
PROPERTY DeliverySpec
