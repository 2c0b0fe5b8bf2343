SPECIFICATION Spec
CONSTANTS
  Statuses = {204, 302, 404}
  MaxTickets = 2
INVARIANT
  SuccessIs2xx
CHECK_DEADLOCK FALSE
