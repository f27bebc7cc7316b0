SPECIFICATION Spec
CONSTANTS
  Cue <- ChainList
  SoftLatch = 2
  HardLatch = 1
  TickTakesTime = TRUE
  MayFail = TRUE
  MaxTime = 3
  MaxCommands = 3
INVARIANTS
  TypeOK
  StoppedMeansStopped
PROPERTIES
  StopTakesEverythingOfACue
  RestartReplacesTheOtherRuns
  FadeOutEndsTheOtherSequences
  HeadIsNotDoubled
