CONSTANTS
  Key = {k1, k2}
  Distance = {1}
  IdleFlush = 2
  PairCooldown = 2
  MinHighFrames = 2
  MinMediumFrames = 2
  MinHighDuration = 1
  Cooldowns = {2}
  MaxTime = 5
  None = None
CHECK_DEADLOCK FALSE
SYMMETRY KeySymmetry
SPECIFICATION Spec
INVARIANTS
  NothingLeftIdle
PROPERTIES
  EndsWithEvent
