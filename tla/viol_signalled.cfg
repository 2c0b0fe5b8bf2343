SPECIFICATION Spec
INVARIANT
  ReloadIsRestart
CHECK_DEADLOCK FALSE
