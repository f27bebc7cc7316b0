SPECIFICATION SettleSpec
CONSTANTS
  Targets = {"mic"}
  Top = 2
  Input <- Deck4
  MaxConns = 2
  MaxEdits = 1
  MaxInst = 2
  MaxPings = 1
  MaxUnsent = 1
  MaxKeys = 1
PROPERTIES
  EveryInputSettles
  CatchesUp
CHECK_DEADLOCK FALSE
