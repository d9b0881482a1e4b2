SPECIFICATION ComposedSpec
CONSTANTS
  i1 = i1  i2 = i2  cA = cA  l1 = l1
  NoJob = NoJob
  Invocations = {i1, i2}
  Owners = {cA}
  Jobs = {i1, i2, cA}
  Roots = {l1}
  OwnerOf <- OneRoot
  Operations <- TwoKinds
  CrashBudget = 1
  MaxGenerations = 2
  MaxQueue = 1
  MaxObservations = 1
  Conversations = {cA}
  RootKeys = {r1, r2, r3}
  MaxRoots = 2
  MaxHot = 1
  MaxChanges = 2
  MaxIds = 3
  Hosts = {h1, h2}
  Readers = {h1}
  Outside = out
  Contents = {0, 1, 2}
  MaxRecords = 1
  MaxPending = 1
  MaxCommits = 2
  MaxRenewals = 1
  MaxStamps = 4
  MaxTampers = 1
  MaxContent = 2
  MaxActs = 2
  Threshold = 2
  MaxMass = 2
  MaxTurns = 2
  Rules = 2
  Sources = 3
  Chunk = 2
  MaxAnswer = 2
  Concurrency = 2
  TreeFiles = 2
  SizeOf <- SmallToLarge
  FileCap = 2
  TreeCap = 3
  MemberCap = 2
  MaxEdits = 1
CHECK_DEADLOCK FALSE
INVARIANTS HostKept DirtyUntilSynced EngineCurrent JournalTrue ScratchKept FactsTrue TurnsTold InputsTrue
