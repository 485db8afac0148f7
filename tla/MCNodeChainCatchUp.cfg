SPECIFICATION FairSpec
CONSTANTS
  N = 1
  Faulty = {}
  Txs <- MCOwnedOnly
  Owned <- MCOwned
  ObjectsOf <- MCObjectsOf
  Priority <- MCPriority
  MaxFee <- MCMaxFee
  Gas <- MCGas
  BlockGas = 2
  MinBaseFee = 1
  TargetGas = 1
  FeeDenominator = 2
  AccountOf <- MCAccountOf
  NonceOf <- MCNonceOf
  Invalid = {}
  Producer = "p"
  Followers = {"f"}
  ProducerIndex = 0
  Retention = 4
  PruneBatch = 2
  SnapshotInterval = 2
  Emission = FALSE
  MaxTicks = 4
  MaxSubmits = 2
  MayCrash = {"f"}
  MaxCrashes = 1
PROPERTY FollowersCatchUp
CHECK_DEADLOCK FALSE
