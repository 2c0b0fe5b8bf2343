SPECIFICATION Spec
INVARIANT
  ErrorIsOfLast
CHECK_DEADLOCK FALSE
