SPECIFICATION QueueSpec
CONSTANTS
  Targets = {"mic"}
  Top = 2
  Input <- Deck4
  MaxConns = 2
  MaxEdits = 1
  MaxInst = 2
  MaxPings = 1
  MaxUnsent = 2
  MaxKeys = 1
INVARIANTS
  TypeOK
  NoneIsForgotten
  AppliedInOrder
  TellsTheTruth
  AppliedWhereItWasMade
  CacheIsCoherent
PROPERTIES
  DeckAndMixerAgree
CHECK_DEADLOCK FALSE
