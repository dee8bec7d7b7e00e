SPECIFICATION ServicesSpec
CONSTANTS
  Focuses = {"memory"}
  ana = ana  bob = bob  acme = acme  i1 = i1  s0 = s0  s1 = s1
  k1 = k1  k2 = k2  k3 = k3  k4 = k4
  api = api  web = web  claude = claude  cursor = cursor
  crash = crash  login = login  repro = repro  gdpr = gdpr
  u1 = u1  u2 = u2  g1 = g1  leads = leads  engineer = engineer
  \* RateLimiter
  Clients = {ana, bob}
  RateLimit = 2
  RateWindow = 3
  TicksPerSecond = 2
  SweepThreshold = 1
  MaxTick = 6
  \* WebhookIntake
  Processes = {p, q}
  Deliveries <- IntakeDeliveries
  Issues = {i1}
  NoIssue = NoIssue
  Orgs = {acme, dflt}
  DefaultOrg = dflt
  NoOrg = NoOrg
  GlobalSecrets <- IntakeGlobalSecrets
  OrgSecrets <- IntakeOrgSecrets
  NoSecret = NoSecret
  Approvers = {ana}
  NoKey = NoKey
  NoStamp = NoStamp
  DedupTtl = 1
  ReplayMaxAge = 1
  NoGuard = NoGuard
  SlackMaxAge = 1
  MaxClock = 3
  MaxArrivals = 3
  \* AuditChain
  Sessions = {s, t}
  LegacyRows = 1
  MaxRows = 4
  RowLocks = FALSE
  NoHash = NoHash
  \* CatalogSync
  Listing <- CatalogListing
  OtherOrgs = {cursor}
  PerPage = 1
  CallBudget = 7
  BaseCalls = 1
  Reservation = 2
  Hauls <- CatalogHauls
  MaxChanges = 1
  MaxSweeps = 2
  Never = Never
  \* ArtifactKeys
  Servers = {p, q}
  Payloads = {m, n}
  Keys = {k1, k2}
  Plain = Plain
  Unwritten = Unwritten
  \* EpicFanOut
  Starters = {s, t}
  Epics <- EpicTickets
  Slug <- EpicSlugs
  MaxRuns = 3
  NoParent = NoParent
  \* ChangeFreeze
  DayMinutes = 4
  LastMinute = 33
  Zones <- FreezeZones
  WindowsOffered <- FreezeOffered
  MaxWindows = 2
  NoWindow = NoWindow
  \* DeliveryMemory, DeliveryMetrics, TrendPeriods
  MemoryRuns = {m, n}
  MemoryTickets <- MemoryTicketsOffered
  PrReports <- MemoryReports
  Providers = {claude}
  Costs = {2}
  LastDay = 2
  MaxTrail = 5
  NoCost = NoCost
  NoRepo = NoRepo
  DaysPerWeek = 2
  FirstWeekday = 1
  \* HistoryRouting
  HistoryRows <- HistoryOffered
  Agents <- HistoryAgents
  Candidates = {claude, cursor}
  DefaultAgent = claude
  MinSamples = 2
  ConfidenceCap = 89
  MaxHistory = 3
  MaxHour = 2
  Unreported = Unreported
  Nobody = Nobody
  \* PriorsCache
  Tenants = {acme, globex}
  Routers = {s, t}
  PriorsTtl = 1
  MaxStall = 1
  MaxEndings = 1
  MaxPriorsTick = 3
  NoTenant = NoTenant
  \* IntakeEngines, PolicyGate
  FirstTickets <- EngineFirstTickets
  TicketWords = {api, crash, login, repro, gdpr}
  Repos = {api, web}
  AreaWords <- EngineAreaWords
  TypeWords <- EngineTypeWords
  ReproWords = {repro}
  ExtraWords <- EngineExtraWords
  CategoryWords <- EngineCategoryWords
  CategoryRoles <- EngineCategoryRoles
  ConfiguredWords <- EngineWords
  ConfiguredRoles <- EngineRoles
  PriorOf <- EnginePriors
  CatalogWords <- EngineCatalogWords
  CommonAbove = 1
  MaxCatalogAge = 1
  ModelAnalyses <- EngineAnalyses
  ModelRisks <- EngineRisks
  ModelPlans = {"steps", "no steps", Unavailable}
  Unavailable = Unavailable
  MaxEdits = 2
  ConfidenceThreshold = 70
  \* ScimDirectory
  UserIds = {u1, u2}
  GroupIds = {g1}
  UserNames = {ana, bob}
  GroupNames = {leads}
  NoResource = NoResource
  Provisioners = {p, q}
  NoRequest = NoRequest
  ApproverRoles <- DirectoryApprovers
  TokenGroups <- DirectoryTokenGroups
  GroupRoleMap <- DirectoryRoleMap
  MaxPatchOps = 1
  \* SsoSession
  Persons = {ana}
  NoCookie = NoCookie
  SessionTtl = 2
  LoginTtl = 1
  MaxLifetime = 3
  Sliding = TRUE
  MaxLogins = 2
  MaxAnswers = 2
  LastHalfSecond = 6
  \* JwksCache
  SigningKeys = {k1, k2}
  NoToken = NoToken
  NoDocument = NoDocument
  JwksTtl = 4
  MinRefresh = 2
  LastJwksTick = 5
  \* UpstreamCalls
  Threads = {s, t}
  StatusLabels = {l1, l2}
  TeamLabels = {urgent}
  Surfaces = {slack, teams}
  LastFile = 2
  FilesPerPage = 1
  TransportRetries = 1
  NoCall = NoCall
  MaxPushes = 1
INVARIANT RetryRestartsTheClock
CHECK_DEADLOCK FALSE
