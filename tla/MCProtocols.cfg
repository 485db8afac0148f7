SPECIFICATION MCSpec
CONSTANTS
  Parts = {"zones", "masterchain", "bft", "proofs", "wire", "publisher", "hyperbft", "payload", "checkpoint", "store"}
  Zones = {"a", "b"}
  TimeoutOf <- MCTimeoutOf
  EvmCapable <- MCEvmCapable
  Txs <- MCTxs
  Messages <- MCMessages
  MaxZoneHeight = 1
  MaxHeight = 3
  Shards = {0, 1}
  Roots = {"r"}
  ShardMessages = {"m"}
  Submissions <- MCSubmissions
  Statements <- MCStatements
  Provers = {"p","q"}
  Sealer = "s"
  Bonds = {2}
  MinBond = 2
  MaxPending = 1
  MaxRange = 2
  SlashAmount = 1
  RequireVerified = FALSE
  RewardPerBlock = 2
  HalfLife = 2
  Treasury = 3
  MaxAggProofs = 2
  MaxAnchor = 2
  MaxMcCalls = 5
  NMc = 1
  McSelf = 0
  NBft = 4
  Contents = {"x"}
  MaxView = 2
  MaxBftHeight = 2
  MaxGossip = 2
  MaxBftEvents = 4
  Bodies <- MCBodies
  EmissionHeights = {1}
  NativeEnabled = TRUE
  DevDigest = TRUE
  Required = {"native"}
  MaxBlockHeight = 2
  ProofUpdates <- MCUpdates
  DrainLimit = 1
  MaxProofSteps = 2
  N = 4
  HonestVals = {2, 3}
  Stake <- MCStake
  BlockViews = {0}
  BlockIds = {"a", "b"}
  BlockHeight <- MCHeights
  WireHeights = {1}
  MaxQcs = 2
  MaxSigned = 3
  MaxRewound = 1
  GossipPeers = {"g1"}
  MaxForwarded = 3
  MaxIds = 2
  MaxSerial = 5
  MaxHyperView = 1
  PipelineDepth = 1
  PayloadTxs <- MCPayloadTxs
  TxClass <- MCTxClass
  PayloadUpdates = {"u1", "u2"}
  UpdateLeaf <- MCUpdateLeaf
  PayloadCerts = {"c1", "c2", "c3"}
  CertTx <- MCCertTx
  CertVersions <- MCCertVersions
  PayloadRlvr = {"r1"}
  MaxBlocks = 2
  MaxWaiting = 1
  Forks <- CheckForks
  Copies <- CheckCopies
  MaxCheckpointRange = 3
  MaxJobs = 2
  JobQueue = 1
  RoundAnchors <- CheckAnchors
  RoundProofs <- CheckProofs
  AggLimit = 2
  MaxRounds = 2
  StoreShards = {0, 1}
  MaxStored <- StoreHeights
  TxsOf <- StoreTxs
  NodesOf <- StoreNodes
  SealedProofs <- StoreProofs
  KeepBelow = 1
  StoreRecords = {"r1", "r2"}
  TrieInputs <- StoreTries
  LastNibble = 2
  StateBytes <- StoreStates
  MaxStoreFaults = 1
INVARIANTS
  ZonesSafe
  MasterchainSafe
  VotingSafe
  BlockProofsSafe
  PayloadSafe
  CheckpointSafe
  StoreSafe
PROPERTIES
  ForcedIsFlushed
CHECK_DEADLOCK FALSE
