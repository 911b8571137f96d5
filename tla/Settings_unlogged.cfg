CONSTANTS
  Hot = Hot
  Slow = Slow
  HotKey = {Hot}
  RestartKey = {Slow}
  Value = {1, 2}
  Valid <- MCValid
  Defaults <- MCDefaults
  Actor = {a1}
  MinInterval = 1
  CoalesceWindow = 2
  BannerLead = 1
  MaxAge = 3
  MaxTime = 5
  MaxSessions = 2
  None = None
CHECK_DEADLOCK FALSE
SPECIFICATION Spec
INVARIANT
  EveryChangeIsLogged
