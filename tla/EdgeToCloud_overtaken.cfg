CONSTANTS
  Event = {e1, e2}
  Torn = Torn
  BatchSize = 1
  MaxDelay = 2
  MaxCrashes = 0
  DiskFaults = FALSE
SPECIFICATION Spec
INVARIANT LossNeedsFault
