CONSTANTS
  Capacity = 3
  Target = 1
  Blocks = {1, 2}
  MayFail = TRUE
  MayDie = TRUE
  MaxFrames = 4
  MaxEpoch = 2
SPECIFICATION FairSpec
INVARIANTS
  TypeOK
  OwnerIsAlone
  PlayedWithinAStream
  EpochsAreNotMixed
  NothingIsReplayed
PROPERTIES
  OwnerIsServed
CHECK_DEADLOCK FALSE
