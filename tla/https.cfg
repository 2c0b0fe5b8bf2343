SPECIFICATION Spec
CONSTANTS
  Statuses = {204, 302, 404}
  MaxTickets = 2
INVARIANTS
  Released
  WaitsForTheSite
  SuccessEarned
PROPERTY
  Returns
CHECK_DEADLOCK FALSE
