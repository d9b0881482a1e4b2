SPECIFICATION HostsSpec
SYMMETRY Interchangeable
CONSTANTS
  u1 = u1  u2 = u2  res1 = res1
  Holders <- Two
  Timeout = 2
  Maximum = 4
  Floors <- ShortAndLong
  MaxNow = 5
  Executions = {"e1", "e2"}
  Resources = {res1}
  Kinds <- KindsOf
  MaxCalls <- CallsOf
  MaxConcurrent = 2
  MaxApprovals = 1
  Items = 3
  Direct = 2
  MaxParallel = 2
  Widths = {1, 3}
  Askers <- Two
  MaxRoots = 1
  MaxAnnounced = 2
  MaxRefreshes = 3
  Codes = {0, 130}
  Providers = {p1, p2}
  Queries <- Two
  Capacity = 2
  RawUnits = 2
  IndexUnits = 1
  MaxRevisions = 1
  MaxIndexes = 2
  Authorities = {a1}
  CatalogCallers <- Two
  Catalogs <- SmallCatalogs
  MaxSnapshots = 2
  MaxBytes = 4
  ReservationBytes = 2
  MaxIds = 3
  Publishers <- Two
  MaxArtifacts = 2
  MaxTotalChars = 3
  MaxHandles = 3
  MaxFaults = 1
  MaxBufferLines = 2
  MaxBufferBytes = 3
  MaxFileBytes = 5
  MaxLineBytes = 2
  MaxGiven = 5
  Callers <- Two
  Servers = {s1}
  MaxVersions = 1
  MaxObserved = 1
  WorkerRequests = {r1, r2, r3}
  MaxFiles = 3
  MaxWrites = 1
  Runtimes <- Two
  MaxStamps = 2
  Searchers <- Two
  MaxLine = 3
  MaxRecords = 3
  MaxCached = 1
  MaxVersion = 1
  MaxCursors = 3
  Letters = {1, 2}
  MaxText = 3
  Context = 1
CHECK_DEADLOCK FALSE
INVARIANTS ProviderKept ClosedIsQuiet SurroundingsKept RegistryKept BridgeKept LocalProviderKept ArtifactsKept StoresKept
PROPERTIES DeadlineKept
