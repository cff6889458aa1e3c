SPECIFICATION ServicesSpec
CONSTANTS
  Bucket = {"user", "ip"}
  Limit <- Limits
  Window <- Windows
  Second = 2
  MaxBuckets = 1
  Hour = 2
  LastNow = 8
  Person = {"ann", "ben"}
  AdminEmail = {"ann"}
  Invited = {"ben"}
  Request = {r1, r2}
  NoAccount = NoAccount
  NoEntry = NoEntry
  RoleTtl = 1
  LastTime = 1
  User <- UserOrder
  Titles <- TitlesOf
  Countries <- CountriesOf
  Aliases <- AliasesOf
  Enabled <- Source
  Germany = "de"
  AdzunaSupported = {"de", "br"}
  JoobleSupported = {"de", "ae"}
  BuiltInSupported = {"de", "br", "ae"}
  XingSupported = {"de"}
  WttjSupported = {"de"}
  AdzunaCap = 3
  JoobleQueries = 2
  JobSpyCountries = 3
  JobSpyQueries = 2
  BuiltInQueries = 2
  MaxSwitches = 1
  MaxBreaks = 1
  Vacancy = {1, 2}
  Profile = {"p", "q", "r"}
  Content = {"x", "y"}
  None = None
  JobsPerRun = 1
  ProfilesPerRun = 1
  ProfileLimit = 2
  BurstThreshold = 1
  MaxProfileEdits = 1
  MaxErrors = 1
  Job = {1, 2}
  Company = {"acme", "other"}
  Employer <- EmployerOf
  Excludable = {"acme"}
  Status = {"saved", "applied", "rejected"}
  Click = {c1, c2}
  Bot = bot
  Absent = Absent
  Threshold = 2
  MaxInputs = 3
  Reader = {q1, q2}
  Clicker = {k1}
  Nothing = Nothing
  UserTtl = 1
  PublicTtl = 2
  QueryTime = 1
  MaxChanges = 2
  LastTick = 2
  KeepLast = 2
  Offsite = TRUE
  LastDay = 3
  Posting = {1, 2, 3}
  Fit <- FitOf
  Grade <- GradeOf
  ProfileField = {"titles"}
  NoField = NoField
  PageSize = 2
  MaxScored = 2
  MaxListed = 3
  MaxUpdates = 4
  MaxFaults = 2
INVARIANTS
  ServicesTypeOK
  NoForeignQuery
  HashNamesVector
  WindowBound
  RetryIsEnough
  RevokedWithinTtl
  ThresholdExcludes
  HistoryNamesStatus
  ClicksAreVisible
  PayloadAge
  BackupsKept
  EachCardOnce
PROPERTIES
  DeactivationLasts
  PriorityIsCurrent
  TopTitleKept
  WindowsMoveOn
  IndexCatchesUp
CHECK_DEADLOCK FALSE
