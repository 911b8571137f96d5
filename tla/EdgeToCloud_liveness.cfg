CONSTANTS
  Event = {e1, e2}
  Torn = Torn
  BatchSize = 1
  MaxDelay = 2
  MaxCrashes = 1
  DiskFaults = TRUE
SPECIFICATION LiveSpec
PROPERTY EventuallySettled
