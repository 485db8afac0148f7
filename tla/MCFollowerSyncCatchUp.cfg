SPECIFICATION FairSpec
CONSTANTS
  Producer = "prod"
  DaPeers = {"da"}
  FaultyPeers = {}
  Announcers = {"da"}
  MayDrop = {"da"}
  Dials <- MCTwice
  Indexes = {1, 2}
  Sample <- MCRepeated
  MaxBlocks = 2
  MaxHeight = 2
  MaxRestarts = 0
  MaxAnswer = 2
  MaxFaults = 2
  MaxInFlight = 2
INVARIANT OutstandingIsInFlight
PROPERTY FollowerCatchesUp
