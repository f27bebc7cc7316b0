CONSTANTS
  Conds = {c1}
  NoCond = NoCond
  MaxEntries = 3
  MaxTime = 1
  MaxFlips = 2
SPECIFICATION FairSpec
INVARIANT TypeOK
INVARIANT InFlightIsWhatTheTickWillVisit
PROPERTY TickRunsInTimeOrder
PROPERTY KeepsThePromise
PROPERTY EveryEntryIsServed
