CONSTANTS
  Takes = {t1, t2}
  Rates = {48, 96}
  SavesFirst = TRUE
  MaxEdits = 1
  MaxGen = 3
  MaxAttempts = 2
SPECIFICATION Spec
INVARIANTS
  TypeOK
  SavedEditsSurvive
  TakesSurviveOnce
  AlwaysOpens
  ConfirmedSurvives
PROPERTIES
  RecoveryIsIdempotent
  NothingGoodIsLost
CHECK_DEADLOCK FALSE
