SPECIFICATION MCSpec
CONSTANTS
  N = 4
  Faulty = {0}
  Self = 1
  Hashes = {"a", "b", "c"}
  HeightOf <- MCHeightOf
  ViewOf <- MCViewOf
  Views = {0, 1}
  Heights = {1, 2}
  Indices <- MCIndices
  Retention = 1
  PruneBatch = 1
  MaxRestarted = 1
  Txs <- MCTxs
  OwnedTxs <- MCOwnedTxs
  Objects <- MCObjects
  ObjectsOf <- MCObjectsOf
  NonceObject <- MCNonceObject
  NonceOf <- MCNonceOf
  Pools = {1}
  MaxConflicts = 1
INVARIANTS
  CertifiedIsCommitted
  ForksTakeARestart
  SignalIsExact
  OnePerObjectVersion
  AcceptedWasCurrent
  ConflictsAreGenuine
  FinalityIsAccountable
CHECK_DEADLOCK FALSE
