CONSTANTS
  Takes = {t1, t2}
  Rates = {48}
  SavesFirst = FALSE
  MaxEdits = 1
  MaxGen = 3
  MaxAttempts = 3
SPECIFICATION Spec
INVARIANT SavedEditsSurvive
CHECK_DEADLOCK FALSE
