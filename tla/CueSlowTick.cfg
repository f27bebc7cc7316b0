SPECIFICATION Spec
CONSTANTS
  Cue <- ChainList
  SoftLatch = 2
  HardLatch = 1
  TickTakesTime = TRUE
  MayFail = FALSE
  MaxTime = 2
  MaxCommands = 2
PROPERTIES
  FollowWaitsForItsCue
