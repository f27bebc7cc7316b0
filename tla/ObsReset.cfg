CONSTANTS
  Capacity = 2
  Target = 1
  Blocks = {1, 2}
  MayFail = FALSE
  MayDie = FALSE
  MaxFrames = 3
  MaxEpoch = 2
SPECIFICATION Spec
INVARIANT PlayedIsWhatWasWritten
CHECK_DEADLOCK FALSE
