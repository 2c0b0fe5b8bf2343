SPECIFICATION Spec
CONSTANTS
  Testers = {t1, t2}
  ui = ui
  MaxMsgs = 1
INVARIANTS
  AppLinesWhole
  InBothLogs
PROPERTY
  MutexReleased
CHECK_DEADLOCK FALSE
