SPECIFICATION Spec
CONSTANTS
  Cue <- RulesList
  SoftLatch = 2
  HardLatch = 1
  TickTakesTime = FALSE
  MayFail = FALSE
  MaxTime = 2
  MaxCommands = 2
INVARIANTS
  OneFollowPerCue
