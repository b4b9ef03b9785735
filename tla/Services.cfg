SPECIFICATION ServicesSpec
CONSTANTS
  Stakers = {a, b}
  Delegators = {d}
  Absent = Absent
  MinimumStake = 10
  OwnStakes = {9, 10}
  StakeAmounts = {4}
  SlashPercentages = {50, 150}
  MaxStakingEpoch = 1
  MaxStakingCalls = 7
  Voters = {a, b}
  VoteWeights = {1, 20, 50}
  Quorum = 50
  PassShare = 667
  ShareUnit = 1000
  TallyWord = 65536
  MaxProposals = 1
  MaxBallots = 3
  Partitions = {p, q}
  MessageIds = {m, n}
  Payloads = {x, z}
  ZeroPayload = z
  SourceHeights = {0, 3, 5}
  Nonces = {1, 2}
  ProofCounts = {1, 2}
  ArtifactJobs = {j}
  ArtifactOperators = {o1}
  Outputs = {u, v}
  PruneWindow = 3
  NoEntry = NoEntry
  MaxAccepts = 2
  MaxRootUpdates = 3
  Txs = {x, y}
  Tasks = {s, t}
  BlockHeights = {1}
  MaxPooled = 2
  StoreHeights = {1, 2}
  Versions = {0, 1}
  NoFile = NoFile
  Torn = Torn
  MaxSnapshots = 1
  MaxPersists = 2
  MaxStoreCalls = 3
  SyncHeights = {1, 2}
  Hashes = {u, v}
  RequestSpan = 1
  RetentionBlocks = 1
  MinHeightToPrune = 0
  NoBlock = NoBlock
  MaxTip = 3
  MaxSyncCalls = 4
  SigningKeys = {a, b, c}
  InitialKey = a
  RotationHeights = {1, 2, 3}
  MaxRotations = 4
INVARIANTS
  SetStakeCovered
  DelegatorClaims
  PassedBySupermajority
  ConsumedOnce
  RestoredAsSaved
  FilesInOrder
  ReceivedOnce
  ArchiveIndexed
PROPERTIES
  ImplementsPool
  SeenBecomesFindable
  PastKeysStand
CHECK_DEADLOCK FALSE
