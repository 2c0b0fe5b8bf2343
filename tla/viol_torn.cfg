SPECIFICATION Spec
CONSTANTS
  Testers = {t1}
  ui = ui
  MaxMsgs = 1
INVARIANTS
  TestLinesWhole
CHECK_DEADLOCK FALSE
