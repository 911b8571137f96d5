CONSTANTS
  Key = {k1}
  Distance = {1, 2}
  IdleFlush = 2
  PairCooldown = 2
  MinHighFrames = 2
  MinMediumFrames = 2
  MinHighDuration = 2
  Cooldowns = {2, 3}
  MaxTime = 7
  None = None
CHECK_DEADLOCK FALSE
SPECIFICATION Spec
INVARIANTS
  TypeOK
  EpisodeSummarises
PROPERTIES
  ReportsSustainedRisk
  EventsKeepDistance
