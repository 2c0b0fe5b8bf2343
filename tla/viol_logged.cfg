SPECIFICATION Spec
CONSTANTS
  Testers = {t1}
  ui = ui
  MaxMsgs = 1
INVARIANTS
  Logged
CHECK_DEADLOCK FALSE
