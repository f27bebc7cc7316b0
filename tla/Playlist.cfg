SPECIFICATION FairListSpec
CONSTANTS
  Cue <- Children
  SoftLatch = 2
  HardLatch = 1
  TickTakesTime = FALSE
  MayFail = TRUE
  MaxTime = 3
  MaxCommands = 2
  Groups <- Lists
  MaxEntries = 8
INVARIANTS
  OneWatchPerList
  OneChildAtATime
PROPERTIES
  NotTwiceInARow
  NothingHangsOffACancelledStart
  FollowWaitsForItsCue
  ListGoesOn
