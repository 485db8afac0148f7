SPECIFICATION MCSpec
CONSTANTS
  Parts = {"rlvr", "judge", "training", "rollouts", "indexer", "rpc", "faucet", "gateway", "trading", "publish", "review", "kernel"}
  Requests <- MCRequests
  Targets = {"fake_eval"}
  MaxDrain = 1
  MaxProofHeight = 2
  MaxDisputes = 1
  MaxRows = 3
  MaxDamage = 2
  Tasks <- MCTasks
  Outputs <- MCOutputs
  Signals <- MCSignals
  Garbage = Garbage
  Nothing = Nothing
  MaxRetries = 1
  MaxJudges = 3
  Commands = {"dataset", "export", "promote"}
  Dims <- MCDims
  Overrides <- MCOverrides
  Rollouts <- MCRollouts
  MinMargin = 10
  MaxPairs = 1
  SftThreshold = 60
  MaxBatch = 3
  Exporters = {e1, e2}
  EvalTraces <- MCEvalTraces
  NoFile = NoFile
  Torn = Torn
  MaxPromotions = 2
  Items <- RItems
  Terms = {"t1", "t2", "t3"}
  WordTag <- RTags
  PhoneMin = 2
  PhoneMax = 3
  CardMin = 3
  CardMax = 4
  Scanned <- RScan
  MindInputs <- RMind
  PremiseInputs <- RPremise
  MaxSentence = 2
  TraceInputs <- RTraces
  FactLists <- RFacts
  Chain <- MCChain
  CatchupBlocks = 2
  IndexPageLimit = 2
  MaxFailures = 1
  Signers = {"s0", "s1", "s2", "treasury"}
  NodeSigner = "s0"
  Submissions <- MCSubmissions
  LogsOf <- MCLogsOf
  BitsOf <- MCBitsOf
  Criteria <- MCCriteria
  Records <- MCRecords
  Hashes <- MCHashes
  LifeCommands <- MCLifeCommands
  Refused = {"c3"}
  Absent = Absent
  BlockRetention = 2
  MaxHeight = 3
  MaxSubmitted = 3
  PageLimit = 1
  Treasury = "treasury"
  Drip = 2
  CooldownSecs = 2
  FundRequests <- MCFundRequests
  MaxFunding = 2
  MaxClock = 2
  ShardCount = 2
  EndpointLists <- MCEndpointLists
  GatewayTxs <- MCGatewayTxs
  NodeTxs <- MCNodeTxs
  GatewayQueries <- MCGatewayQueries
  ZeroAddress = "zero"
  HomeOf <- MCHomeOf
  NoAnswer = NoAnswer
  Failure = Failure
  MaxBlocks = 1
  MaxQueries = 1
  MaxOutages = 1
  Micro = 10
  BarSeries <- TradingBarSeries
  FreeActions <- TradingFreeActions
  InitialEquity = 240
  MaxLeverage = 2
  MinNotional = 40
  FeeBps = 500
  LossStopPct = 50
  LiquidationPct = 50
  MaxSteps = 4
  TradingEpisodes = 1
  MaxStepsPerEpisode = 5
  Authors = {"alice", "bob"}
  Payloads = {"p1"}
  Times = {1}
  Runs = {"r1", "r2"}
  RunReports <- PublishReports
  Papers = {"k1"}
  ConceptsOf <- PublishConcepts
  MaxJobs = 2
  MaxFaults = 2
  Weights <- ReviewWeights
  Pools = {1, 2, 5}
  SkillGraphs <- ReviewGraphs
  ObservedNumbers <- ReviewObserved
  BarLists <- ReviewBars
  Boards <- ReviewBoards
  ReviewLists <- ReviewPairs
  Curves <- ReviewCurves
  Honest <- ReviewHonest
  ReviewBags <- ReviewDecisions
  Instants = {0, 1, 2, 3}
  Tolerance = 1
  Quorum = 3
  Width = 2
  MaxCalls = 5
  Domains = {"bandit", "forecast"}
  Tapes <- KTapes
  Scale = 2
  ArmCount = 2
  Pulls = 2
  Episodes = 2
  MaxAttempts = 2
INVARIANTS
  LearningIsHonest
  TrainingIsSound
  IndexerSafe
  AnswersAreTrue
  PublishSafe
  ReviewSafe
  SimulationsAgree
PROPERTIES
  StandsOnceMade
CHECK_DEADLOCK FALSE
