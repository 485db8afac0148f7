SPECIFICATION FairSpec
CONSTANTS
  Producer = "prod"
  DaPeers = {"da"}
  FaultyPeers = {}
  Announcers = {"prod", "da"}
  MayDrop = {}
  Dials <- MCOnce
  Indexes = {1, 2}
  Sample <- MCSample
  MaxBlocks = 2
  MaxHeight = 1
  MaxRestarts = 0
  MaxAnswer = 2
  MaxFaults = 1
  MaxInFlight = 3
PROPERTY FollowerCatchesUp
