CONSTANTS
  None = None
  LumGrid = {120}
  SharpGrid = {60}
  SatGrid = {5}
  ConfGrid = {70}
  LowLight = 45
  BlurSharp = 40
  MinSamples = 1
  Second = 6
  Dwell = 12
  GpsFresh = 12
  SpeedGrid = {0, 10, 50, 90, 120}
  HistoryLen = 12
  StaleAfter = 60
  SceneWindow = 360
  ShortWindow = 180
  FrameW = 640
  FrameH = 360
  Focal = 600
  CameraHeight = 13
  Horizon = 180
  BumperOffset = 10
  Orientation = "forward"
  Image <- BrightImage
  Measure <- StandOrDrive
  GpsReading = {None}
  Envelope <- ShippedEnvelope
  Finds <- Both
  Motion <- ClosingIn
  Adaptive = TRUE
  MaxPolicies = 0
  MaxSwitches = 0
  PerceptionEnd = 10
CHECK_DEADLOCK FALSE
SPECIFICATION PerceptionSpec
INVARIANTS
  TtcReachable
