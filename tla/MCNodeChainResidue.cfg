SPECIFICATION Spec
CONSTANTS
  N = 1
  Faulty = {}
  Txs <- MCTxs
  Owned <- MCOwned
  ObjectsOf <- MCObjectsOf
  Priority <- MCPriority
  MaxFee <- MCMaxFee
  Gas <- MCGas
  BlockGas = 2
  MinBaseFee = 1
  TargetGas = 1
  FeeDenominator = 2
  AccountOf <- MCAccountOf
  NonceOf <- MCNonceOf
  Invalid = {}
  Producer = "p"
  Followers = {"f", "g"}
  ProducerIndex = 0
  Retention = 1
  PruneBatch = 2
  SnapshotInterval = 2
  Emission = FALSE
  MaxTicks = 3
  MaxSubmits = 2
  MayCrash = {}
  MaxCrashes = 1
INVARIANT BlocksReplay
CHECK_DEADLOCK FALSE
