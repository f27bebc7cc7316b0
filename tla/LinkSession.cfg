SPECIFICATION Spec
CONSTANTS
  Targets = {"mic"}
  Top = 1
  Input <- OneKey
  MaxConns = 1
  MaxEdits = 1
  MaxInst = 1
  MaxPings = 0
  MaxUnsent = 1
  MaxKeys = 2
INVARIANTS SessionChangeKeepsTheConnection
CHECK_DEADLOCK FALSE
