SPECIFICATION FairSpec
CONSTANTS
  Bit = {1, 2}
  Reads = 3
  Die = {1, 2}
  Challenge = {1, 2}
  Clean <- Silicon
  Conn = {c1}
  Id = {"alpha", "beta"}
  Drone = "alpha"
  TTL = 1
  Skew = 0
  ReadNoise <- SomeNoise
  Reference = {{1}}
  MaxTime = 3
  MaxKeys = 2
  MaxClouds = 2
  MaxIncidents = 2
INVARIANTS SealedToTheBoard RetiredKeyContained NoFalseRefusal
PROPERTIES RetiredBoardLockedOut KeyholderGetsIn
CHECK_DEADLOCK FALSE
