\* The slots of the requests of the pages share names.
CONSTANTS
  Routes = {a, b}
  Urls = {u, v}
  Loads = {c1, c2}
  MaxAttempts = 2
  MaxSwitches = 1
  MaxUpsets = 1
  MaxEdits = 2

  petstore = petstore
  orders = orders
  broken = broken
  Documents = {petstore, orders, broken}
  Broken = {broken}
  Server <- MCServer
  OperationsOf <- MCOperations
  Typed = {"c", "mailto"}
  Usable = {"c"}
  MaxImports = 2
  ImportSlots = {c1, c2}
  FetchSlots = {f1}
  MaxDocuments = 2
  MaxEditsOfImport = 2
  MaxFailures = 1

  m1 = m1
  Watched = {m1, m2}
  First <- MCFirst
  Expectations = {"", "ok"}
  ListLoads = {l1, l2}
  DetailLoads = {c1, c2}
  MaxClicks = 2
  MaxPolls = 1
  MaxElsewhere = 1

  Targets = {9000, 10000}
  Windows = {1, 2}
  MinChecks = 5
  Retention = 1
  StatusLimit = 200
  PageLimit = 11
  Earlier = {0, 8}
  MaxDays = 1
  MaxChecks = 12
  MaxDown = 2
  MaxObjectives = 1

  Configured = {m1, m2}
  u = u
  v = v
  Hosts = {u, v}
  Timeouts = {10, 20}
  Creations <- MCCreations
  PartialChanges <- MCPartialChanges
  Changes = {c1, c2}
  MaxMoves = 4

  People = {m1, m2}
  Owner = m1
  Cases = {i1}
  Notes = {"n"}
  Aims = {u, v}
  Triages = {c1, c2}
  Views = {c1, c2}
  MaxFollowUps = 1
  MaxCaseChanges = 2
  MaxViews = 2

  Recorded = {v1}
  Links = {t1, t2}
  Readers = {r1}
  Shown = {m1, m2}
  Editors = {c1, c2}
  MaxRecords = 2
  MaxAnalyses = 2
  MaxSaves = 2
  MaxRemovals = 1

  pub = pub
  lan = lan
  lan6 = lan6
  Names = {h}
  Addresses = {pub, lan, lan6}
  Family <- MCFamily
  Special = {lan, lan6}
  Ranges = {"lan", "net6", "host6"}
  Members <- MCMembers
  Answers <- MCAnswers
  Policies <- MCPolicies
  Calls = {call}
  MaxBody = 1
  MaxCalls = 2
  MaxMovesOfNames = 2

  Events = {v1, v2}
  Aimed <- MCAimed
  FirstRoutes <- MCRoutes
  RouteUpdates <- MCRouteUpdates
  Received <- MCReceived
  Answered = {200, 500}
  ScoreDepth = 4
  TryBudget = 2
  MaxReceived = 2
  MaxUpdates = 1
  MaxDeliveries = 3

  Jobs = {c1, c2}
  Configs <- MCConfigs
  Scenario <- MCScenario
  RepeatsLast = TRUE
  ApiKeys = {"k1", "k2"}
  ScopesOf <- MCScopes
  FirstLines <- MCLines
  LineUpdates <- MCLineUpdates
  Codes = {200, 500}
  DailyLimit = 6
  MaxJobs = 2
  MaxLineChanges = 1
  MaxKeyChanges = 2
  MaxTime = 1
  MaxLost = 1

  Staff = {m1, m2}
  Boss = m1
  Inbound = {v1, v2}
  Limit = 1
  Fine = 2
  MaxEntries = 2
  MaxMoments = 2
  MaxSightings = 3
SPECIFICATION MCSpec
SYMMETRY Interchangeable
INVARIANTS
  ShownIsCurrent
  SafeByDefault
  DetailOfSelected
  VerdictsAgree
  LiveRouteReady
  EvidenceCovers
  PageAsSaved
  OfferedAreIdle
  OwnChangeShown
  ReachesPermitted
  FullScoreIsClean
  VerdictIsOwn
  NoneTwice
CHECK_DEADLOCK FALSE
