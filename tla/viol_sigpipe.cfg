SPECIFICATION Spec
CONSTANTS
  Statuses = {204, 302, 404}
  MaxTickets = 2
INVARIANT
  BrokenIsFail
CHECK_DEADLOCK FALSE
