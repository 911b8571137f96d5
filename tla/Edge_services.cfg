CONSTANTS
  None = None
  \* feed
  Source = {t1, t2}
  Shadow = {sh}
  Client = {c1}
  MaxEvents = 2
  Replay = 2
  QueueMax = 1
  State = State
  MaxMade = 3
  \* LLM guard
  Narration = {na}
  Enrichment = {en1, en2}
  Impact = {im}
  Providers = 2
  Capacities = {2, 3}
  Refill = 1
  Threshold = 2
  Cooldown = 1
  MaxRebuilds = 1
  GuardEnd = 2
  Plate = {p1, p2}
  Look = {k1, k2}
  \* validator and shadow store
  Slots = {s1}
  JobsMax = 1
  SampleEvery = 1
  Window = 2
  Retain = 2
  MaxHanded = 1
  MaxEpisodes = 2
  ValidatorEnd = 2
  Cap = 1
  NoJob = NoJob
  \* watchdog
  Health <- TwoHealths
  AiAnswers <- TwoAnswers
  Interval = 2
  TailMax = 4
  Warm = 1
  Subsample = 2
  TargetRate = 1
  MaxFrames = 1
  MaxRestarts = 1
  MaxDismissals = 1
  MaxForeign = 1
  WatchdogEnd = 2
  \* feedback
  f1 = f1
  f2 = f2
  Labelled = {f1, f2}
  FleetVehicle <- TwoVehicles
  Home = "car"
  VehicleOf <- FeedbackVehicle
  RiskOf <- FeedbackRisk
  KindOf <- FeedbackKind
  DriverOf <- OneDriver
  Ambiguous = {f1}
  OnDisk = {}
  RecentMax = 1
  LabelWindow = 2
  MinLabels = 1
  AlertBelow = 70
  TrendStep = 5
  Penalty <- RiskPenalty
  MaxScore = 3
  Recovery = 1
  MaxLabels = 1
  Exporter = {x1, x2}
  MaxExports = 2
  MaxDecays = 1
  \* Slack
  a1 = a1
  a2 = a2
  a3 = a3
  Alert = {a1, a2, a3}
  AlertRisk <- ThreeRisks
  Sustained = {a1}
  Sureness <- OneSure
  Floors = {1, 2}
  MediumEvery = 1
  LowEvery = 2
  DigestLines = 1
  MaxFloorChanges = 1
  SlackEnd = 2
  \* agents
  r1 = r1
  r2 = r2
  AgentRun = {r1, r2}
  AgentKind <- TwoKinds
  ToolUses <- ThreeTurns
  Policies = {"road"}
  BufferMax = 1
  BufferRisk <- NewsRisk
  BufferType <- NewsType
  StepMax = 2
  Verdicts <- OneVerdict
  AgentNews <- TwoNews
  RingMax = 2
  MaxSkips = 1
  Price <- ModelPrice
  \* perception
  LumGrid = {40, 50}
  SharpGrid = {60}
  SatGrid = {5}
  ConfGrid = {40, 70}
  LowLight = 45
  BlurSharp = 40
  MinSamples = 1
  Second = 2
  Dwell = 2
  GpsFresh = 1
  SpeedGrid = {0, 10, 50, 90}
  HistoryLen = 4
  StaleAfter = 2
  SceneWindow = 4
  ShortWindow = 2
  FrameW = 640
  FrameH = 360
  Focal = 600
  CameraHeight = 13
  Horizon = 180
  BumperOffset = 10
  Orientation = "forward"
  Image <- TwoImages
  Measure <- TwoMeasures
  GpsReading <- TwoReadings
  Envelope <- OneEnvelope
  Finds <- Both
  Motion <- CarAndPerson
  Adaptive = TRUE
  MaxPolicies = 1
  MaxSwitches = 1
  PerceptionEnd = 3
CHECK_DEADLOCK FALSE
SYMMETRY ServicesSymmetry
SPECIFICATION ServicesSpec
INVARIANTS
  ServicesTypeOK
  IdsUnique
  BufferEndsCloud
  NoHole
  SentInOrder
  BudgetKept
  EpisodesGoFirst
  PicturesMatchRecords
  IncidentsSummariseFile
  AlertsAccounted
  AgentsAccounted
  BandFollowsSpeed
PROPERTIES
  RestsAfterFailures
  MissedFramesAreQuiet
  SamplesLeaveByExport
