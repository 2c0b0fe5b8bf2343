SPECIFICATION Spec
CONSTANTS
  Statuses = {204, 302, 404}
  MaxTickets = 2
INVARIANT
  AnsweredIsAccessible
CHECK_DEADLOCK FALSE
