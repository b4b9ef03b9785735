SPECIFICATION EdgeSpec
CONSTANTS
  Replica = {1, 2}
  Elements = {a}
  Values = {u, v}
  Stamps = {1, 2}
  Unset = Unset
  MaxUpdates = 3
  PartitionIds = {p, q}
  StateRoots = {z, x}
  ZeroStateRoot = z
  PartitionValidators = {k, l}
  Outsiders = {m}
  NoPartition = NoPartition
  MaxPartitionEpoch = 1
  MaxPending = 4
  PeerIds = {p, q}
  Calls = {c, d}
  MessageTypes = {"Block"}
  fast = fast
  near = near
  idle = idle
  Operators = {fast, near, idle}
  Profiles <- MCProfiles
  Metrics <- MCMetrics
  Requests <- MCRequests
  Tiebreak <- MCTiebreak
  PartitionPreference = ""
  NoMetrics = NoMetrics
  NoDecision = NoDecision
  NoConstraint = NoConstraint
  ExecOperators = {a}
  Kernels = {k, l}
  Inputs = {x}
  Seeds = {s}
  ComputeBound = 5
  MemoryBound = 4
  ExecBudgets = {4, 5}
  MemoryLimits = {0, 3}
  Elapsed = {0, 1}
  MaxRedundancy = 3
  NoContext = NoContext
  NoSeed = NoSeed
  InitialReputation = 2
  MaxReputation = 3
  ReputationDeltas <- MCDeltas
  MaxRegistrations = 2
  MaxReceipts = 1
  MaxOutcomes = 1
  ArtifactIds = {a, b}
  ContentHashes = {u, v}
  Times = {1}
  TierChanges = {"Hot"}
  NoProof = NoProof
  MaxStores = 2
  LocalId = LocalId
  MaxClientCalls = 3
  Components = {"truth", "storage", "other"}
  Checks = {k, l}
  AuditEvents = {"slashing", "fraud", "governance"}
  NoHash = NoHash
  MaxEntries = 5
  MaxNodes = 3
  MaxEdges = 3
  NodeRefs = {0, 1, 2}
  AssetIds = {a, b}
  AssetSizes = {1, 2, 4}
  TierLimit = 3
  MaxPuts = 4
INVARIANTS
  SkipLosesNothing
  GlobalRootCurrent
  VerdictUnique
  RegisteredIsFound
  ArtifactFound
  SubmittedOnce
  HealthAgrees
  AuditVerifies
  AcyclicExact
  CacheWithin
PROPERTIES
  NoResurrection
  BanHolds
  BestOfTheRest
CHECK_DEADLOCK FALSE
