\* The pages, overlays, lists, accounts, rate limiter, updates and settings, one at a time.
CONSTANTS
  here = here
  there = there
  d1 = d1
  d2 = d2
  d3 = d3
  x = x
  y = y
  adams = adams
  baker = baker
  Boards = {here, there}
  ThisBoard = here
  Games <- MCGames
  MaxPresses = 2
  MaxScore = 2
  MaxLosses = 1
  PageSize = 2
  PreviewInterval = 1
  StartBoards <- MCStartBoards
  MaxDrillsPerUnit = 2
  MaxAssignments = 1
  MaxLength = 2
  PreloadIds = {"p"}
  MaxActs = 3
  MaxFailures = 1
  MaxTime = 2
  MaxDrillIds = 3
  MaxLookups = 1
  Cards = {"ann", "bob"}
  ProfileIds = {"p1"}
  MaxPitches = 2
  MaxInputs = 3
  MaxRefusals = 1
  Owners = {"u", "v"}
  EntryIds = {"e1", "e2", "e3"}
  ListLimit = 1
  MaxWrites = 3
  MaxQueryFailures = 1
  MaxOverlays = 3
  MaxPolls = 2
  MaxReadings = 2
  MaxUpsets = 1
  Browsers = {x, y}
  Users = {adams, baker, clark}
  Administrators = {adams, baker}
  Secrets = {p, q}
  NoUser = NoUser
  SignedIn <- MCSignedIn
  PublicRegistration = TRUE
  ScriptRoles = {"super"}
  MaxSubmits = 3
  Displays = {d1, d2, d3}
  Address <- MCAddress
  Limit = 3
  Window = 5
  Slowest = 2
  MaxBuckets = 1
  Versions = {1, 2, 3}
  Working = {1, 3}
  Shipped = 1
  Updates = {r1, r2}
  KeptReleases = 2
  MaxUpdates = 4
  MaxMishaps = 1
  Canvas = 2
  MinSize = 1
  Rotations = {0, 90}
  Creatives = {"ad"}
  Sittings <- MCSittings
  MaxTroubles = 1
SPECIFICATION Spec
INVARIANTS
  PageTimerAgrees PageModeAgrees
  CleanPageIsSent SchedulePageHasPeriods
  PitchesCountedOnce
  ListWithinLimit
  EndBelongsToOverlay HornOncePerCommand
  AdministratorUnlessRaced SessionsFollowThePassword
  AtMostTwiceTheLimit EveryDisplayGetsThrough
  ActiveReleaseWorks ArchiveWholeUnlessOverlapped
  SettingsReachTheDisplay
PROPERTIES ScoreKeepsTheClock SavesKeepThePeriod SuccessMeansActive AdsKeepTheMode
CHECK_DEADLOCK FALSE
