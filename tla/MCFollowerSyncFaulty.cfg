SPECIFICATION Spec
CONSTANTS
  Producer = "prod"
  DaPeers = {"da"}
  FaultyPeers = {"da"}
  Announcers = {"prod", "da"}
  MayDrop = {}
  Dials <- MCOnce
  Indexes = {1, 2}
  Sample <- MCSample
  MaxBlocks = 2
  MaxHeight = 2
  MaxRestarts = 1
  MaxAnswer = 1
  MaxFaults = 1
  MaxInFlight = 1
INVARIANTS
  SampledBeforeApplied
CHECK_DEADLOCK FALSE
