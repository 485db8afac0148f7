SPECIFICATION MCSpec
CONSTANTS
  Accounts = {"g", "a"}
  Governance = "g"
  NoOne = "none"
  Grant = 3
  Amounts = {2}
  Batches <- MCBatches
  Receipts <- MCReceipts
  Keys = {"k", "l"}
  NoSig = "zero"
  Hashes = {"h"}
  LifeCommands <- MCLifeCommands
  Schedules <- MCSchedules
  Bps = 100
  WeightOne = 1000
  MaxWei = 11000
  MaxSupply = 30
  MaxCalls = 3
  MaxBlocks = 3
  Payees = {p1, p2}
  Bytes = {1, 2}
  ShareSizes = {1, 2}
  ToolReceipts <- MReceipts
  KeyBits = 2
  Leaves = {1}
  MaxAttached = 3
  MaxTasks = 2
  MaxLeaves = 5
  MaxBytes = 4
  Intents = {"i","j"}
  TierOf <- MCTierOf
  ClassOf <- MCClassOf
  MaxPriceOf <- MCMaxPriceOf
  ClientOf <- MCClientOf
  Quotes <- MCQuotes
  Providers = {"p","q"}
  StakeOf <- MCStakeOf
  TaskDeposit = 3
  MaxDeposit = 4
  CapOf <- MCCapOf
  SlashMultiplier = 2
  ChallengeWindow = 2
  MaxTime = 2
  MaxLeaks = 1
  Rep <- MCRep
  StakeSignals = {0, 3}
  MaxReports = 1
  Signers = {"a","b"}
  Wealth = 2
  Tokens <- MCTokens
  NoCap = 0
  Anywhere = Anywhere
  VerifierClass = "t"
  VerifierSpend = 1
  VerifierLifetime = 1
  ToolBatches <- MCToolBatches
  ToolReceiptOf <- MCReceiptOf
  Rules = {"global", "w"}
  Stops <- MCStops
  MaxWalletCalls = 4
  MaxWalletTime = 1
  Templates <- MCTemplates
  NoTemplate = 0
  BucketCapacity = 2
  BucketWindow = 2
  Candidates <- MCCandidates
  Gates <- MCGates
  Verifiers <- MCVerifiers
  SampleRate = 3
  RateBase = 10
  SampleFrom = 2
  Agents = {11, 12}
  QuoteProviders = {21, 22}
  Contents = {0, 1, 2}
  NoContent = 0
  Expectations <- MCExpectations
  Attempts <- MCAttempts
  Required <- MCRequired
  MaxRank = 9999
  MaxPolicyTime = 5
  MaxPool = 3
  Souls <- MCSouls
  Unborn = {4}
  Wills <- MCWills
  Rent = 1
  ExtensionPrice = 1
  EpochsGranted = 1
  NaturalLife = 4
  Grace = 2
  ChildGrant = 1
  DebtCeiling = 2
  Epochs = {1, 2, 3, 5}
  MaxReaps = 4
  MaxLifeSteps = 3
  Owners = {1, 2}
  Treasury = 2
  Fps = {0, 1}
  Outside = {2}
  Burns = {0, 4}
  StakeAmounts = {1, 3}
  CommissionScale = 2
  MinStake = 2
  InitialBalance = 6
  MaxStakeSteps = 4
  StakedProviders = {p1}
  Classes = {c1, c2}
  ProviderAmounts = {0, 2}
  Bond = 1
  UnstakeDelay = 1
  Funds = 4
  MaxRequests = 3
  MaxProviderTime = 2
  EvmOwners = {2}
  GenesisFunds = 1
  MaxNonce = 2
INVARIANTS
  LedgerSafe
  MerkleSafe
  MarketSafe
  AuthoritySafe
  PolicySafe
  MoneyConserved
  EvmSafe
PROPERTIES
  IsEscrow
  NeverUndone
CHECK_DEADLOCK FALSE
